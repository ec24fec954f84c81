-------------------------- MODULE MemTests_proofs --------------------------
(***************************************************************************)
(* Proofs about MemTests: no test reports an error in good memory, no test *)
(* writes outside of the segments, the march tests implement March, tests  *)
(* tick as often as the progress bar expects, and find the faults they are *)
(* made for, for all sizes of address space, chunk and word and all        *)
(* layouts of segments that the assumptions allow.                         *)
(*                                                                         *)
(* The inductive invariants are in MemTestsInvariants.                     *)
(***************************************************************************)
EXTENDS MemTestsInvariants, FiniteSetTheorems, TLAPS

-----------------------------------------------------------------------------
(* Sequences, by induction over their length *)

(* Induction, as a fact about sets *)
LEMMA Inductive ==
  ASSUME NEW S \in SUBSET Nat, 0 \in S, \A n \in S : n + 1 \in S
  PROVE  S = Nat
<1> SUFFICES ASSUME NEW m \in Nat, m \notin S PROVE FALSE
  OBVIOUS
<1> DEFINE T == {i \in S : i < m}
           f == [i \in T |-> i + 1]
<1>1. IsFiniteSet(T)
  <2>1. IsFiniteSet(0 .. m)
    BY FS_Interval
  <2>2. \A i \in T : i \in 0 .. m
    OBVIOUS
  <2>3. T \in SUBSET (0 .. m)
    BY <2>2
  <2> QED
    BY <2>1, <2>3, FS_Subset
<1>2. IsFiniteSet(T \ {0}) /\ Cardinality(T \ {0}) < Cardinality(T)
  <2>1. 0 \in T
    OBVIOUS
  <2> HIDE DEF T
  <2>2. Cardinality(T) \in Nat
    BY <1>1, FS_CardinalityType
  <2>3. /\ IsFiniteSet(T \ {0})
        /\ Cardinality(T \ {0}) = IF 0 \in T THEN Cardinality(T) - 1 ELSE Cardinality(T)
    BY <1>1, FS_RemoveElement
  <2> QED
    BY <2>1, <2>2, <2>3
<1>3. f \in [T -> T \ {0}]
  <2>1. \A i \in T : i + 1 \in T \ {0}
    OBVIOUS
  <2> QED
    BY <2>1
<1>4. \A x, y \in T : x # y => f[x] # f[y]
  OBVIOUS
<1> HIDE DEF T, f
<1> QED
  BY <1>1, <1>2, <1>3, <1>4, FS_PigeonHole

(* FlattenSeq() appends the sequences one after the other: what holds of    *)
(* each of them, and of two of them if one is appended, holds of all.       *)
LEMMA FlattenIn ==
  ASSUME NEW E, NEW A, A \subseteq Seq(E), NEW Q \in SUBSET Seq(E), A \subseteq Q,
         \A x \in Q, y \in A : x \o y \in Q,
         NEW s \in Seq(A), s # <<>>
  PROVE  FlattenSeq(s) \in Q
<1> DEFINE N == Len(s)
           Flat(g, n) == g = [i \in 1 .. n |-> IF i = 1 THEN s[i] ELSE g[i - 1] \o s[i]]
           Some(n) == \E g : Flat(g, n) /\ g[n] \in Q
           S == {n \in Nat : n < N => Some(n + 1)}
<1>0. N \in Nat \ {0} /\ \A i \in 1 .. N : s[i] \in A
  OBVIOUS
<1>1. Some(1)
  <2> DEFINE g == [i \in 1 .. 1 |-> s[i]]
  <2>1. Flat(g, 1)
    OBVIOUS
  <2>2. g[1] \in Q
    BY <1>0
  <2> QED
    BY <2>1, <2>2
<1>2. ASSUME NEW n \in Nat \ {0}, n < N, Some(n)
      PROVE  Some(n + 1)
  <2>1. PICK h : Flat(h, n) /\ h[n] \in Q
    BY <1>2
  <2> DEFINE g == [i \in 1 .. n + 1 |-> IF i = n + 1 THEN h[n] \o s[n + 1] ELSE h[i]]
  <2>2. \A i \in 1 .. n : h[i] = IF i = 1 THEN s[i] ELSE h[i - 1] \o s[i]
    BY <2>1
  <2>3. ASSUME NEW i \in 1 .. n + 1
        PROVE  g[i] = IF i = 1 THEN s[i] ELSE g[i - 1] \o s[i]
    <3>1. CASE i = n + 1
      <4>1. i # 1 /\ i - 1 = n /\ n \in 1 .. n + 1 /\ n # n + 1
        BY <3>1
      <4>2. g[n] = h[n]
        BY <4>1
      <4>3. g[n + 1] = h[n] \o s[n + 1]
        <5>1. n + 1 \in 1 .. n + 1
          OBVIOUS
        <5> QED
          BY <5>1
      <4> HIDE DEF g
      <4> QED
        BY <3>1, <4>1, <4>2, <4>3
    <3>2. CASE i \in 1 .. n
      <4>1. i # n + 1 /\ g[i] = h[i]
        BY <3>2
      <4>2. i # 1 => i - 1 \in 1 .. n + 1 /\ i - 1 # n + 1 /\ g[i - 1] = h[i - 1]
        BY <3>2
      <4> HIDE DEF g
      <4> QED
        BY <3>2, <2>2, <4>1, <4>2
    <3>3. i = n + 1 \/ i \in 1 .. n
      OBVIOUS
    <3> QED
      BY <3>1, <3>2, <3>3
  <2>4. Flat(g, n + 1)
    BY <2>3
  <2>5. g[n + 1] \in Q
    <3>1. s[n + 1] \in A
      BY <1>0, <1>2
    <3>2. g[n + 1] = h[n] \o s[n + 1]
      <4>1. n + 1 \in 1 .. n + 1
        OBVIOUS
      <4> QED
        BY <4>1
    <3> HIDE DEF g
    <3> QED
      BY <2>1, <3>1, <3>2
  <2> QED
    BY <2>4, <2>5
<1>3. S = Nat
  <2>1. 0 \in S
    <3>1. Some(0 + 1)
      BY <1>1
    <3> HIDE DEF Some
    <3> QED
      BY <3>1
  <2>2. ASSUME NEW n \in S
        PROVE  n + 1 \in S
    <3> HIDE DEF Some
    <3>1. n \in Nat /\ n + 1 \in Nat \ {0} /\ (n < N => Some(n + 1))
      OBVIOUS
    <3>2. n + 1 < N => Some((n + 1) + 1)
      BY <3>1, <1>0, <1>2
    <3> QED
      BY <3>1, <3>2
  <2>3. S \in SUBSET Nat
    OBVIOUS
  <2> QED
    <3> HIDE DEF S
    <3> QED
      BY <2>1, <2>2, <2>3, Inductive
<1>4. PICK g : Flat(g, N) /\ g[N] \in Q
  <2> HIDE DEF Some
  <2>1. N - 1 \in S /\ (N - 1) + 1 = N
    <3> HIDE DEF S
    <3> QED
      BY <1>0, <1>3
  <2>2. Some(N)
    BY <2>1, <1>0
  <2> QED
    BY <2>2 DEF Some
<1> DEFINE f == CHOOSE x : Flat(x, N)
<1>5. Flat(f, N)
  BY <1>4
<1>6. \A i \in Nat : i < N => f[i + 1] = g[i + 1]
  <2> HIDE DEF f
  <2> DEFINE U == {n \in Nat : n < N => f[n + 1] = g[n + 1]}
  <2>0. ASSUME NEW x, Flat(x, N)
        PROVE  \A i \in 1 .. N : x[i] = IF i = 1 THEN s[i] ELSE x[i - 1] \o s[i]
    BY <2>0
  <2>1. f[1] = g[1]
    BY <1>4, <1>5, <2>0, <1>0
  <2>2. ASSUME NEW n \in Nat \ {0}, n < N, f[n] = g[n]
        PROVE  f[n + 1] = g[n + 1]
    <3>1. n + 1 \in 1 .. N /\ n + 1 # 1 /\ (n + 1) - 1 = n
      BY <2>2, <1>0
    <3>2. f[n + 1] = f[n] \o s[n + 1] /\ g[n + 1] = g[n] \o s[n + 1]
      BY <1>4, <1>5, <2>0, <3>1
    <3> QED
      BY <2>2, <3>2
  <2>3. 0 \in U
    BY <2>1
  <2>4. ASSUME NEW n \in U
        PROVE  n + 1 \in U
    <3>1. n \in Nat /\ n + 1 \in Nat \ {0} /\ (n < N => f[n + 1] = g[n + 1])
      OBVIOUS
    <3>2. n + 1 < N => f[(n + 1) + 1] = g[(n + 1) + 1]
      BY <3>1, <2>2, <1>0
    <3> QED
      BY <3>1, <3>2
  <2>5. U \in SUBSET Nat
    OBVIOUS
  <2>6. U = Nat
    <3> HIDE DEF U
    <3> QED
      BY <2>3, <2>4, <2>5, Inductive
  <2> QED
    BY <2>6
<1>7. FlattenSeq(s) = f[N]
  BY <1>0 DEF FlattenSeq
<1>8. f[N] = g[N]
  <2> HIDE DEF f
  <2>1. N - 1 \in Nat /\ N - 1 < N /\ (N - 1) + 1 = N
    BY <1>0
  <2> QED
    BY <1>6, <2>1
<1> QED
  BY <1>4, <1>7, <1>8

-----------------------------------------------------------------------------
(* Arithmetic of remainders *)

LEMMA DivMod ==
  ASSUME NEW W \in Nat \ {0}, NEW x \in Int
  PROVE  /\ x % W \in 0 .. W - 1 /\ x \div W \in Int
         /\ x % W = x - W * (x \div W)
BY SMT

(* A multiple of W between -W and W is 0. *)
LEMMA SmallMultiple ==
  ASSUME NEW W \in Nat \ {0}, NEW n \in Int, n * W < W, n * W > -W
  PROVE  n = 0
<1>1. CASE n >= 1
  <2>1. n * W >= W
    BY <1>1, SMT
  <2>2. QED
    BY <2>1, SMT
<1>2. CASE n <= -1
  <2>1. n * W <= -W
    BY <1>2, SMT
  <2>2. QED
    BY <2>1, SMT
<1>3. QED
  BY <1>1, <1>2, SMT

LEMMA Distributes ==
  ASSUME NEW W \in Int, NEW d \in Int, NEW e \in Int
  PROVE  /\ W * d \in Int /\ W * e \in Int
         /\ W * (d + e) = W * d + W * e
BY SMT

(* What is left when a multiple of W is taken away, and fits, is x % W. *)
LEMMA UniqueMod ==
  ASSUME NEW W \in Nat \ {0}, NEW x \in Int, NEW q \in Int, NEW r \in 0 .. W - 1,
         r = x - W * q
  PROVE  x % W = r
<1>1. PICK d \in Int : x % W \in 0 .. W - 1 /\ x % W = x - W * d
  BY DivMod
<1>2. (q - d) * W = W * q - W * d /\ q - d \in Int
  BY SMT
<1>3. W * q \in Int /\ W * d \in Int
  BY SMT
<1>4. (q - d) * W = (x % W) - r
  BY <1>1, <1>2, <1>3, SMT
<1>5. (q - d) * W < W /\ (q - d) * W > -W
  BY <1>1, <1>4, SMT
<1>6. q - d = 0
  BY <1>2, <1>5, SmallMultiple
<1>7. q = d
  BY <1>6, SMT
<1>8. QED
  BY <1>1, <1>7

LEMMA ModOfSum ==
  ASSUME NEW W \in Nat \ {0}, NEW a \in Int, NEW b \in Int
  PROVE  ((a % W) + b) % W = (a + b) % W
<1>1. W \in Int
  OBVIOUS
<1>2. PICK m \in 0 .. W - 1, d \in Int : m = a % W /\ m = a - W * d
  BY DivMod
<1>3. m + b \in Int
  BY SMT
<1>4. PICK x \in 0 .. W - 1, e \in Int : x = (m + b) % W /\ x = (m + b) - W * e
  BY <1>3, DivMod
<1>5. W * (d + e) = W * d + W * e /\ W * d \in Int /\ W * e \in Int
  BY <1>1, Distributes
<1>6. PICK wd \in Int, we \in Int : wd = W * d /\ we = W * e
  BY <1>5
<1>7. m = a - wd /\ x = (m + b) - we /\ W * (d + e) = wd + we
  BY <1>2, <1>4, <1>5, <1>6
<1>8. x = (a + b) - (wd + we)
  BY ONLY <1>7, a \in Int, b \in Int, m \in 0 .. W - 1, x \in 0 .. W - 1,
          wd \in Int, we \in Int, W \in Nat, SMT
<1>9. x = (a + b) - W * (d + e)
  BY <1>7, <1>8
<1>10. a + b \in Int /\ d + e \in Int
  BY SMT
<1>11. (a + b) % W = x
  BY <1>9, <1>10, UniqueMod
<1>12. QED
  BY <1>2, <1>4, <1>11

LEMMA ModSmall ==
  ASSUME NEW W \in Nat \ {0}, NEW a \in 0 .. W - 1
  PROVE  a % W = a
BY SMT

(* What a multiple adds does not matter. *)
LEMMA ModOfMultiple ==
  ASSUME NEW W \in Nat \ {0}, NEW a \in Int, NEW b \in Int, a % W = 0
  PROVE  (a + b) % W = b % W /\ (b + a) % W = b % W
<1>1. ((a % W) + b) % W = (a + b) % W
  BY ModOfSum
<1>2. a + b = b + a /\ 0 + b = b
  OBVIOUS
<1> QED
  BY <1>1, <1>2

LEMMA MultipleLess ==
  ASSUME NEW W \in Nat \ {0}, NEW a \in Int, NEW b \in Int, b % W = 0
  PROVE  (a - b) % W = a % W
<1>1. a - b \in Int /\ (a - b) + b = a
  OBVIOUS
<1>2. ((a - b) + b) % W = (a - b) % W
  BY <1>1, ModOfMultiple
<1> QED
  BY <1>1, <1>2

LEMMA ModOfModulus ==
  ASSUME NEW W \in Nat \ {0}
  PROVE  W % W = 0 /\ 0 % W = 0
BY UniqueMod

LEMMA SameMod ==
  ASSUME NEW W \in Nat \ {0}, NEW a \in Int, NEW b \in Int, a % W = b % W
  PROVE  (a - b) % W = 0
<1>1. PICK d \in Int : a % W = a - W * d /\ a % W \in 0 .. W - 1
  BY DivMod
<1>2. PICK e \in Int : b % W = b - W * e
  BY DivMod
<1>3. W * (d - e) = W * d - W * e /\ d - e \in Int /\ W * d \in Int /\ W * e \in Int
  BY SMT
<1>4. PICK wd \in Int, we \in Int : wd = W * d /\ we = W * e
  BY <1>3
<1>5. a - wd = b - we
  BY <1>1, <1>2, <1>4
<1>6. 0 = (a - b) - W * (d - e) /\ a - b \in Int /\ 0 \in 0 .. W - 1
  BY <1>5, <1>3, <1>4
<1> QED
  BY <1>3, <1>6, UniqueMod

(* Two numbers with the same rest are a whole step apart. *)
LEMMA StepApart ==
  ASSUME NEW W \in Nat \ {0}, NEW a \in Int, NEW b \in Int, a % W = b % W, a < b
  PROVE  a + W <= b
<1>1. (b - a) % W = 0
  BY SameMod
<1>2. ASSUME b - a < W PROVE FALSE
  BY <1>2, ModSmall, <1>1
<1> QED
  BY <1>2

LEMMA ModNext ==
  ASSUME NEW W \in Nat \ {0}, NEW a \in Int
  PROVE  (a + 1) % W = IF (a % W) + 1 > W - 1 THEN 0 ELSE (a % W) + 1
<1>1. PICK m \in 0 .. W - 1 : m = a % W
  BY DivMod
<1>2. (m + 1) % W = (a + 1) % W
  <2>1. 1 \in Int
    OBVIOUS
  <2>2. ((a % W) + 1) % W = (a + 1) % W
    BY <2>1, ModOfSum, Zenon
  <2> QED
    BY <1>1, <2>2
<1>3. CASE m + 1 > W - 1
  BY <1>3, <1>1, <1>2, ModOfModulus
<1>4. CASE m + 1 \in 0 .. W - 1
  BY <1>1, <1>2, <1>4, ModSmall
<1>5. m + 1 > W - 1 \/ m + 1 \in 0 .. W - 1
  OBVIOUS
<1> QED
  BY <1>3, <1>4, <1>5

(* What is left of a length after whole chunks *)
LEMMA WholeLeft ==
  ASSUME NEW W \in Nat \ {0}, NEW n \in Nat, NEW x \in Nat, x < n, x % W = 0
  PROVE  (n - x) % W = n % W /\ (n - x >= W \/ (n - x = n % W /\ n % W # 0))
<1>1. (n - x) % W = n % W
  <2>1. n \in Int /\ x \in Int
    OBVIOUS
  <2> QED
    BY <2>1, MultipleLess, Zenon
<1>2. CASE n - x \in 0 .. W - 1
  BY <1>1, <1>2, ModSmall
<1> QED
  BY <1>1, <1>2

-----------------------------------------------------------------------------
(* The assumptions, as the proofs use them. *)

LEMMA Sizes ==
  /\ Space \in Nat \ {0} /\ Spin \in Nat \ {0} /\ Width \in Nat \ {0}
  /\ ModSz \in Nat \ {0} /\ Block \in Nat \ {0} /\ Align \in Nat \ {0}
  /\ Bank \in Nat \ {0} /\ Tries \in Nat \ {0} /\ UsbEnd \in Nat
  /\ Width > 2 /\ ModSz <= Spin /\ Block <= Spin /\ Spin < Space
  /\ Spin % Width = 0 /\ Block % 4 = 0 /\ Spin % Block = 0
BY TestsAssumption

LEMMA Segments ==
  ASSUME NEW t \in Trials
  PROVE  /\ t.map \in Seq(Segment) /\ Len(t.map) \in Nat \ {0}
         /\ DOMAIN t.map = 1 .. Len(t.map)
         /\ \A i \in 1 .. Len(t.map) :
              /\ SegmentAssumption(t.map[i])
              /\ t.map[i].start \in 0 .. Space - 1 /\ t.map[i].end \in 0 .. Space - 1
              /\ t.map[i].start + ModSz < t.map[i].end
              /\ t.map[i].end + ModSz <= Space
              /\ (t.map[i].end - t.map[i].start) % Width = 0
              /\ \A i2 \in 1 .. i - 1 : t.map[i2].end < t.map[i].start
<1>1. /\ t.map \in Seq(Segment) /\ t.map # <<>>
      /\ \A i \in DOMAIN t.map :
           /\ SegmentAssumption(t.map[i])
           /\ \A i2 \in 1 .. i - 1 : t.map[i2].end < t.map[i].start
  BY TrialsAssumption
<1>2. Len(t.map) \in Nat \ {0} /\ DOMAIN t.map = 1 .. Len(t.map)
  BY <1>1
<1>3. ASSUME NEW i \in DOMAIN t.map
      PROVE  t.map[i].start \in 0 .. Space - 1 /\ t.map[i].end \in 0 .. Space - 1
  <2>1. t.map[i] \in Segment
    BY <1>1, <1>2
  <2> QED
    BY <2>1 DEF Segment
<1> QED
  BY <1>1, <1>2, <1>3 DEF SegmentAssumption

-----------------------------------------------------------------------------
(* Words and their patterns. *)

LEMMA NotNot ==
  ASSUME NEW w \in SUBSET Bits
  PROVE  Not(w) \in SUBSET Bits /\ Not(Not(w)) = w
BY DEF Not

LEMMA RolType ==
  ASSUME NEW w \in SUBSET Bits, NEW n \in Int
  PROVE  Rol(w, n) \in SUBSET Bits
<1>1. \A b \in w : (b + n) % Width \in 0 .. Width - 1
  <2> TAKE b \in w
  <2>1. b + n \in Int
    BY DEF Bits
  <2> QED
    BY <2>1, Sizes, DivMod
<1> QED
  BY <1>1 DEF Rol, Bits

LEMMA RolRol ==
  ASSUME NEW w \in SUBSET Bits, NEW m \in Int, NEW n \in Int
  PROVE  Rol(Rol(w, m), n) = Rol(w, m + n)
<1>1. \A b \in w : (((b + m) % Width) + n) % Width = (b + (m + n)) % Width
  <2> TAKE b \in w
  <2>1. b + m \in Int /\ (b + m) + n = b + (m + n)
    BY DEF Bits
  <2> QED
    BY <2>1, Sizes, ModOfSum
<1> QED
  BY <1>1 DEF Rol

(* Only the rest of the number of bits matters. *)
LEMMA RolMod ==
  ASSUME NEW w \in SUBSET Bits, NEW m \in Int, NEW n \in Int, (m - n) % Width = 0
  PROVE  Rol(w, m) = Rol(w, n)
<1>1. \A b \in w : (b + m) % Width = (b + n) % Width
  <2> TAKE b \in w
  <2>1. b + n \in Int /\ m - n \in Int /\ (m - n) + (b + n) = b + m
    BY DEF Bits
  <2>2. ((m - n) + (b + n)) % Width = (b + n) % Width
    BY <2>1, Sizes, ModOfMultiple, Zenon
  <2> QED
    BY <2>1, <2>2, Zenon
<1> QED
  BY <1>1 DEF Rol

LEMMA RolNone ==
  ASSUME NEW w \in SUBSET Bits
  PROVE  Rol(w, 0) = w
<1>1. \A b \in w : (b + 0) % Width = b
  <2> TAKE b \in w
  <2>1. b \in 0 .. Width - 1 /\ b + 0 = b
    BY DEF Bits
  <2> QED
    BY <2>1, Sizes, ModSmall
<1> QED
  BY <1>1 DEF Rol

LEMMA RolOfMod ==
  ASSUME NEW w \in SUBSET Bits, NEW m \in Int
  PROVE  Rol(w, m % Width) = Rol(w, m)
<1>1. m % Width \in Int
  BY Sizes, DivMod
<1>2. (m % Width) % Width = m % Width
  BY Sizes, DivMod, ModSmall
<1>3. ((m % Width) - m) % Width = 0
  BY <1>1, <1>2, Sizes, SameMod
<1> QED
  BY <1>1, <1>3, RolMod

-----------------------------------------------------------------------------
(* The calls of a test, and the loops of a call *)

LEMMA FlattenMany ==
  ASSUME NEW E, NEW Q \in SUBSET Seq(E), \A x, y \in Q : x \o y \in Q,
         NEW n \in Nat \ {0}, NEW s, s = [i \in 1 .. n |-> s[i]],
         \A i \in 1 .. n : s[i] \in Q
  PROVE  FlattenSeq(s) \in Q
<1>1. s \in Seq(Q) /\ Len(s) = n
  OBVIOUS
<1>2. s # <<>>
  BY <1>1
<1> QED
  BY <1>1, <1>2, FlattenIn

LEMMA TimesIn ==
  ASSUME NEW E, NEW Q \in SUBSET Seq(E), \A x, y \in Q : x \o y \in Q,
         NEW n \in Nat, NEW s \in Q
  PROVE  IF n = 0 THEN Times(n, s) = <<>> ELSE Times(n, s) \in Q
<1> DEFINE f == [i \in 1 .. n |-> s]
<1>1. CASE n = 0
  BY <1>1 DEF Times, FlattenSeq
<1>2. CASE n # 0
  <2>1. f = [i \in 1 .. n |-> f[i]] /\ \A i \in 1 .. n : f[i] \in Q
    OBVIOUS
  <2> HIDE DEF f
  <2>2. FlattenSeq(f) \in Q
    BY <1>2, <2>1, FlattenMany
  <2> QED
    BY <1>2, <2>2 DEF Times, f
<1> QED
  BY <1>1, <1>2

Some(C) == {x \in Seq(C) : x # <<>>}

LEMMA SomeAppended ==
  ASSUME NEW C
  PROVE  Some(C) \in SUBSET Seq(C) /\ \A x, y \in Some(C) : x \o y \in Some(C)
<1>1. ASSUME NEW x \in Seq(C), NEW y \in Seq(C), x # <<>>
      PROVE  x \o y \in Seq(C) /\ x \o y # <<>>
  BY <1>1
<1> QED
  BY <1>1 DEF Some

LEMMA WalkingIn ==
  ASSUME NEW C, NEW f, \A b \in Bits : f[b] \in Some(C)
  PROVE  Walking(f) \in Some(C)
<1> DEFINE g == [i \in 1 .. Width |-> f[i - 1]]
<1>1. \A i \in 1 .. Width : g[i] \in Some(C)
  BY Sizes DEF Bits
<1>2. g = [i \in 1 .. Width |-> g[i]]
  OBVIOUS
<1> HIDE DEF g
<1>3. FlattenSeq(g) \in Some(C)
  BY <1>1, <1>2, Sizes, SomeAppended, FlattenMany
<1> QED
  BY <1>3 DEF Walking, g

LEMMA BothIn ==
  ASSUME NEW C, NEW c \in C, [c EXCEPT !.p1 = Not(@)] \in C
  PROVE  Both(c) \in Some(C)
BY DEF Both, Some

LEMMA CallSets ==
  /\ CallsOf("movinv1") = [fn : {"movinv1"}, iter : Nat, p1 : SUBSET Bits]
  /\ CallsOf("modtst") =
       [fn : {"modtst"}, off : 0 .. ModSz - 1, iter : Nat, p1 : SUBSET Bits]
  /\ CallsOf("block_move") = [fn : {"block_move"}, iter : Nat]
  /\ CallsOf("bit_fade") = [fn : {"bit_fade"}, p1 : SUBSET Bits]
  /\ CallsOf("movinvr") = [fn : {"movinvr"}]
  /\ CallsOf("addr_tst1") = [fn : {"addr_tst1"}]
  /\ CallsOf("addr_tst2") = [fn : {"addr_tst2"}]
  /\ CallsOf("movinv32") =
       {c \in [fn : {"movinv32"}, iter : Nat, p1 : SUBSET Bits, lb : SUBSET Bits,
               off : Bits] : c.p1 = Rol(c.lb, c.off)}
BY DEF CallsOf

(* The calls of a test differ in their patterns only. *)
Alike(fn, n) ==
  {c \in CallsOf(fn) :
     fn \in {"movinv1", "movinv32", "modtst", "block_move"} => c.iter = n}
IterOf(t) == IF t.pat \in {10, 11} THEN 2 ELSE t.iter

LEMMA OneCall ==
  ASSUME NEW C, NEW c \in C
  PROVE  <<c>> \in Some(C)
BY DEF Some

LEMMA Both1 ==
  ASSUME NEW iter \in Nat, NEW w \in SUBSET Bits
  PROVE  Both(MovInv1(iter, w)) \in Some(Alike("movinv1", iter))
BY NotNot, CallSets, BothIn DEF MovInv1, Alike

LEMMA BothMod ==
  ASSUME NEW off \in 0 .. ModSz - 1, NEW iter \in Nat, NEW w \in SUBSET Bits
  PROVE  Both(ModTst(off, iter, w)) \in Some(Alike("modtst", iter))
BY NotNot, CallSets, BothIn DEF ModTst, Alike

LEMMA OffsetsIn ==
  ASSUME NEW iter \in Nat, NEW w \in SUBSET Bits
  PROVE  AllOffsets(iter, w) \in Some(Alike("modtst", iter))
<1> DEFINE f == [i \in 1 .. ModSz |->
                   Both(ModTst(i - 1, iter, IF i % 2 = 1 THEN w ELSE Not(w)))]
<1>1. \A i \in 1 .. ModSz : f[i] \in Some(Alike("modtst", iter))
  <2> TAKE i \in 1 .. ModSz
  <2>1. i - 1 \in 0 .. ModSz - 1
    BY Sizes
  <2>2. (IF i % 2 = 1 THEN w ELSE Not(w)) \in SUBSET Bits
    BY NotNot
  <2> QED
    BY <2>1, <2>2, BothMod
<1>2. f = [i \in 1 .. ModSz |-> f[i]]
  OBVIOUS
<1> HIDE DEF f
<1>3. FlattenSeq(f) \in Some(Alike("modtst", iter))
  BY <1>1, <1>2, Sizes, SomeAppended, FlattenMany
<1> QED
  BY <1>3 DEF AllOffsets, f

LEMMA BitsAre ==
  ASSUME NEW b \in Bits
  PROVE  {b} \in SUBSET Bits /\ {Width - 1 - b} \in SUBSET Bits /\ {0} \in SUBSET Bits
BY Sizes DEF Bits

LEMMA Patterns32 ==
  ASSUME NEW iter \in Nat, NEW b \in Bits
  PROVE  <<MovInv32(iter, {b}, {0}, b), MovInv32(iter, Not({b}), Not({0}), b)>>
           \in Some(Alike("movinv32", iter))
<1>1. Rol({0}, b) = {b}
  BY Sizes, ModSmall DEF Bits, Rol
<1>2. Rol(Not({0}), b) = Not({b})
  <2>1. ASSUME NEW c \in Bits, c # 0
        PROVE  (c + b) % Width \in Bits /\ (c + b) % Width # b
    <3>1. c + b \in Int /\ b \in Int /\ c \in 0 .. Width - 1 /\ (c + b) - b = c
      BY DEF Bits
    <3>2. ASSUME (c + b) % Width = b
          PROVE  FALSE
      <4>1. b % Width = b
        BY Sizes, ModSmall DEF Bits
      <4>2. c % Width = 0
        <5>1. PICK x \in Int : x = c + b /\ x - b = c
          BY <3>1
        <5>2. x % Width = b % Width
          BY <3>2, <4>1, <5>1
        <5>3. (x - b) % Width = 0
          BY <3>1, <5>2, Sizes, SameMod
        <5> QED
          BY <5>1, <5>3
      <4> QED
        BY <2>1, <3>1, <4>2, Sizes, ModSmall
    <3> QED
      BY <3>1, <3>2, Sizes, DivMod DEF Bits
  <2>2. ASSUME NEW d \in Bits, d # b
        PROVE  \E c \in Bits : c # 0 /\ (c + b) % Width = d
    <3> DEFINE c == (d - b) % Width
    <3>1. d - b \in Int /\ d \in 0 .. Width - 1 /\ b \in 0 .. Width - 1
      BY DEF Bits
    <3>2. c \in Bits
      BY <3>1, Sizes, DivMod DEF Bits
    <3>3. (c + b) % Width = d
      <4>1. (((d - b) % Width) + b) % Width = ((d - b) + b) % Width
        <5>1. d - b \in Int /\ b \in Int /\ Width \in Nat \ {0}
          BY <3>1, Sizes
        <5> QED
          BY <5>1, ModOfSum
      <4>2. (d - b) + b = d /\ d % Width = d
        BY <3>1, Sizes, ModSmall
      <4> QED
        BY <4>1, <4>2
    <3>4. c # 0
      <4>1. ASSUME c = 0 PROVE FALSE
        BY <3>1, Sizes, ModSmall, <3>3, <4>1, <2>2
      <4> QED
        BY <4>1
    <3> QED
      BY <3>2, <3>3, <3>4
  <2> QED
    BY <2>1, <2>2 DEF Rol, Not
<1>3. Not({b}) \in SUBSET Bits /\ Not({0}) \in SUBSET Bits
  BY DEF Not
<1>4. MovInv32(iter, {b}, {0}, b) \in Alike("movinv32", iter)
  BY <1>1, BitsAre, CallSets DEF MovInv32, Alike
<1>5. MovInv32(iter, Not({b}), Not({0}), b) \in Alike("movinv32", iter)
  BY <1>2, <1>3, CallSets DEF MovInv32, Alike
<1> QED
  BY <1>4, <1>5 DEF Some

LEMMA CallsAlike ==
  ASSUME NEW t \in Trials
  PROVE  Calls(t) \in Some(Alike(Fn(t.pat), IterOf(t)))
<1>0. /\ t.pat \in 0 .. 11 /\ t.iter \in Nat
      /\ t.pat \in {7, 9, 10, 11} => t.iter > 0
      /\ \A i \in 1 .. t.iter : Rand(i) \in SUBSET Bits
  BY TrialsAssumption
<1>e. {} \in SUBSET Bits
  OBVIOUS
<1>1. CASE t.pat = 0
  BY <1>1, <1>0, <1>e, Both1 DEF Calls, Fn, IterOf
<1>2. CASE t.pat = 1
  <2> DEFINE f == [b \in Bits |-> Both(MovInv1(t.iter, {Width - 1 - b}))]
  <2>1. \A b \in Bits : f[b] \in Some(Alike("movinv1", t.iter))
    BY <1>0, BitsAre, Both1
  <2>2. Calls(t) = Walking(f) /\ Fn(t.pat) = "movinv1" /\ IterOf(t) = t.iter
    BY <1>2 DEF Calls, Fn, IterOf
  <2> HIDE DEF f
  <2> QED
    BY <2>1, <2>2, WalkingIn
<1>3. CASE t.pat = 2
  <2> DEFINE f == [b \in Bits |-> <<MovInv32(t.iter, {b}, {0}, b),
                                    MovInv32(t.iter, Not({b}), Not({0}), b)>>]
  <2>1. \A b \in Bits : f[b] \in Some(Alike("movinv32", t.iter))
    BY <1>0, Patterns32
  <2>2. Calls(t) = Walking(f) /\ Fn(t.pat) = "movinv32" /\ IterOf(t) = t.iter
    BY <1>3 DEF Calls, Fn, IterOf
  <2> HIDE DEF f
  <2> QED
    BY <2>1, <2>2, WalkingIn
<1>4. CASE t.pat = 3
  BY <1>4, <1>0, <1>e, OffsetsIn DEF Calls, Fn, IterOf
<1>5. CASE t.pat = 4
  <2> DEFINE f == [b \in Bits |-> AllOffsets(t.iter, {Width - 1 - b})]
  <2>1. \A b \in Bits : f[b] \in Some(Alike("modtst", t.iter))
    BY <1>0, BitsAre, OffsetsIn
  <2>2. Calls(t) = Walking(f) /\ Fn(t.pat) = "modtst" /\ IterOf(t) = t.iter
    BY <1>5 DEF Calls, Fn, IterOf
  <2> HIDE DEF f
  <2> QED
    BY <2>1, <2>2, WalkingIn
<1>6. CASE t.pat = 5
  <2>1. Calls(t) = <<[fn |-> "addr_tst1"]>> /\ Fn(t.pat) = "addr_tst1" /\ IterOf(t) = t.iter
    BY <1>6 DEF Calls, Fn, IterOf
  <2>2. [fn |-> "addr_tst1"] \in Alike("addr_tst1", t.iter)
    BY CallSets DEF Alike
  <2> QED
    BY <2>1, <2>2, OneCall
<1>7. CASE t.pat = 6
  <2>1. Calls(t) = <<[fn |-> "addr_tst2"]>> /\ Fn(t.pat) = "addr_tst2" /\ IterOf(t) = t.iter
    BY <1>7 DEF Calls, Fn, IterOf
  <2>2. [fn |-> "addr_tst2"] \in Alike("addr_tst2", t.iter)
    BY CallSets DEF Alike
  <2> QED
    BY <2>1, <2>2, OneCall
<1>8. CASE t.pat = 7
  <2>1. Calls(t) = <<[fn |-> "block_move", iter |-> t.iter]>>
        /\ Fn(t.pat) = "block_move" /\ IterOf(t) = t.iter
    BY <1>8 DEF Calls, Fn, IterOf
  <2>2. [fn |-> "block_move", iter |-> t.iter] \in Alike("block_move", t.iter)
    BY <1>0, CallSets DEF Alike
  <2> QED
    BY <2>1, <2>2, OneCall
<1>9. CASE t.pat = 8
  <2>1. Calls(t) = Both([fn |-> "bit_fade", p1 |-> {}]) /\ Fn(t.pat) = "bit_fade" /\ IterOf(t) = t.iter
    BY <1>9 DEF Calls, Fn, IterOf
  <2>2. [fn |-> "bit_fade", p1 |-> {}] \in Alike("bit_fade", t.iter)
    BY CallSets DEF Alike
  <2>3. [[fn |-> "bit_fade", p1 |-> {}] EXCEPT !.p1 = Not(@)] \in Alike("bit_fade", t.iter)
    BY <1>e, CallSets, NotNot DEF Alike
  <2> QED
    BY <2>1, <2>2, <2>3, BothIn
<1>10. CASE t.pat = 9
  <2> DEFINE s == <<[fn |-> "movinvr"]>>
  <2>1. s \in Some(Alike("movinvr", t.iter))
    BY CallSets, OneCall DEF Alike
  <2>2. Calls(t) = Times(t.iter, s) /\ Fn(t.pat) = "movinvr" /\ IterOf(t) = t.iter /\ t.iter # 0
    BY <1>0, <1>10 DEF Calls, Fn, IterOf
  <2> HIDE DEF s
  <2>3. Times(t.iter, s) \in Some(Alike("movinvr", t.iter))
    BY <1>0, <2>1, <2>2, SomeAppended, TimesIn
  <2> QED
    BY <2>2, <2>3
<1>11. CASE t.pat = 10
  <2> DEFINE f == [i \in 1 .. t.iter |-> MovInv1(2, Rand(i))]
  <2>1. \A i \in 1 .. t.iter : f[i] \in Alike("movinv1", 2)
    BY <1>0, CallSets DEF MovInv1, Alike
  <2>2. f \in [1 .. t.iter -> Alike("movinv1", 2)]
    BY <2>1
  <2>3. Calls(t) = f /\ Fn(t.pat) = "movinv1" /\ IterOf(t) = 2 /\ t.iter # 0
    BY <1>0, <1>11 DEF Calls, Fn, IterOf
  <2> HIDE DEF f
  <2>4. f \in Seq(Alike("movinv1", 2)) /\ Len(f) = t.iter
    BY <1>0, <2>2
  <2>5. f # <<>>
    BY <2>3, <2>4
  <2> QED
    BY <2>3, <2>4, <2>5 DEF Some
<1>12. CASE t.pat = 11
  <2> DEFINE f == [i \in 1 .. t.iter |-> AllOffsets(2, Rand(i))]
  <2>1. \A i \in 1 .. t.iter : f[i] \in Some(Alike("modtst", 2))
    BY <1>0, OffsetsIn
  <2>2. f = [i \in 1 .. t.iter |-> f[i]]
    OBVIOUS
  <2>3. Calls(t) = FlattenSeq(f) /\ Fn(t.pat) = "modtst" /\ IterOf(t) = 2 /\ t.iter \in Nat \ {0}
    BY <1>0, <1>12 DEF Calls, Fn, IterOf
  <2> HIDE DEF f
  <2>4. FlattenSeq(f) \in Some(Alike("modtst", 2))
    BY <2>1, <2>2, <2>3, SomeAppended, FlattenMany
  <2> QED
    BY <2>3, <2>4
<1> QED
  BY <1>0, <1>1, <1>2, <1>3, <1>4, <1>5, <1>6, <1>7, <1>8, <1>9, <1>10, <1>11, <1>12

LEMMA CallsIn ==
  ASSUME NEW t \in Trials
  PROVE  Calls(t) \in Some(CallsOf(Fn(t.pat)))
<1> DEFINE A == Alike(Fn(t.pat), IterOf(t))
           C == CallsOf(Fn(t.pat))
<1>1. A \subseteq C
  BY DEF Alike
<1>2. Calls(t) \in Some(A)
  BY CallsAlike
<1> HIDE DEF A, C
<1>3. Calls(t) \in Seq(C) /\ Calls(t) # <<>>
  BY <1>1, <1>2 DEF Some
<1> QED
  BY <1>3 DEF Some, C

(* Loops that follow one another from first to last                          *)
Chains(fn, first, last) ==
  {s \in Seq(LoopNames(fn)) :
     /\ s # <<>> /\ s[1] = first /\ s[Len(s)] = last
     /\ \A i \in 1 .. Len(s) - 1 : <<s[i], s[i + 1]>> \in Following(fn)}

LEMMA ChainsAppended ==
  ASSUME NEW fn, NEW a, NEW b, NEW c, NEW d, <<b, c>> \in Following(fn),
         NEW x \in Chains(fn, a, b), NEW y \in Chains(fn, c, d)
  PROVE  x \o y \in Chains(fn, a, d)
<1> DEFINE z == x \o y
<1>1. /\ x \in Seq(LoopNames(fn)) /\ y \in Seq(LoopNames(fn)) /\ x # <<>> /\ y # <<>>
      /\ x[1] = a /\ x[Len(x)] = b /\ y[1] = c /\ y[Len(y)] = d
      /\ \A i \in 1 .. Len(x) - 1 : <<x[i], x[i + 1]>> \in Following(fn)
      /\ \A i \in 1 .. Len(y) - 1 : <<y[i], y[i + 1]>> \in Following(fn)
  BY DEF Chains
<1>2. /\ z \in Seq(LoopNames(fn)) /\ Len(z) = Len(x) + Len(y)
      /\ Len(x) \in Nat \ {0} /\ Len(y) \in Nat \ {0}
      /\ \A i \in 1 .. Len(x) : z[i] = x[i]
      /\ \A i \in 1 .. Len(y) : z[Len(x) + i] = y[i]
  BY <1>1
<1> HIDE DEF z
<1>3. z # <<>> /\ z[1] = a /\ z[Len(z)] = d
  BY <1>1, <1>2
<1>4. ASSUME NEW i \in 1 .. Len(z) - 1
      PROVE  <<z[i], z[i + 1]>> \in Following(fn)
  <2>1. CASE i \in 1 .. Len(x) - 1
    <3>1. i \in 1 .. Len(x) /\ i + 1 \in 1 .. Len(x)
      BY <1>2, <2>1
    <3>2. z[i] = x[i] /\ z[i + 1] = x[i + 1]
      BY <1>2, <3>1
    <3> QED
      BY <1>1, <2>1, <3>2
  <2>2. CASE i = Len(x)
    <3>1. z[i] = b /\ z[i + 1] = c
      BY <1>1, <1>2, <2>2
    <3> QED
      BY <3>1
  <2>3. CASE i > Len(x)
    <3> DEFINE n == i - Len(x)
    <3>1. n \in 1 .. Len(y) - 1 /\ i = Len(x) + n /\ i + 1 = Len(x) + (n + 1)
      <4>1. i \in Int /\ Len(x) \in Int /\ Len(y) \in Int /\ i <= Len(x) + Len(y) - 1
        BY <1>2
      <4> QED
        BY <2>3, <4>1
    <3>2. n \in 1 .. Len(y) /\ n + 1 \in 1 .. Len(y)
      BY <3>1, <1>2
    <3> HIDE DEF n
    <3>3. z[i] = y[n] /\ z[i + 1] = y[n + 1]
      BY <1>2, <3>1, <3>2
    <3>4. <<y[n], y[n + 1]>> \in Following(fn)
      BY <1>1, <3>1
    <3> QED
      BY <3>3, <3>4
  <2>4. i \in 1 .. Len(x) - 1 \/ i = Len(x) \/ i > Len(x)
    BY <1>2
  <2> QED
    BY <2>1, <2>2, <2>3, <2>4
<1>5. z \in Chains(fn, a, d)
  BY <1>2, <1>3, <1>4 DEF Chains
<1> QED
  BY <1>5 DEF z

LEMMA ChainOfOne ==
  ASSUME NEW fn, NEW l \in LoopNames(fn)
  PROVE  <<l>> \in Chains(fn, l, l)
BY DEF Chains

LEMMA ChainOfTwo ==
  ASSUME NEW fn, NEW l \in LoopNames(fn), NEW l2 \in LoopNames(fn), <<l, l2>> \in Following(fn)
  PROVE  <<l, l2>> \in Chains(fn, l, l2)
BY DEF Chains

LEMMA ChainTimes ==
  ASSUME NEW fn, NEW a, NEW b, <<b, a>> \in Following(fn),
         NEW x \in Chains(fn, a, b), NEW n \in Nat
  PROVE  IF n = 0 THEN Times(n, x) = <<>> ELSE Times(n, x) \in Chains(fn, a, b)
<1> DEFINE Q == Chains(fn, a, b)
<1>1. Q \in SUBSET Seq(LoopNames(fn))
  BY DEF Chains
<1>2. \A y, z \in Q : y \o z \in Q
  BY ChainsAppended
<1> HIDE DEF Q
<1>3. x \in Q
  BY DEF Q
<1>4. IF n = 0 THEN Times(n, x) = <<>> ELSE Times(n, x) \in Q
  BY <1>1, <1>2, <1>3, TimesIn
<1> QED
  BY <1>4 DEF Q

LEMMA ChainIsLoops ==
  ASSUME NEW fn, NEW a, NEW b, NEW x \in Chains(fn, a, b)
  PROVE  x \in LoopsOf(fn) /\ x # <<>> /\ Head(x) = a
BY DEF Chains, LoopsOf

LEMMA LoopsIn ==
  ASSUME NEW fn, NEW c \in CallsOf(fn),
         fn \in {"movinv1", "movinv32", "movinvr", "modtst", "addr_tst1", "addr_tst2",
                 "block_move", "bit_fade"}
  PROVE  /\ c.fn = fn
         /\ Loops(c) \in LoopsOf(fn) /\ Loops(c) # <<>> /\ Head(Loops(c)) = First(fn)
<1>1. /\ c.fn = fn
      /\ fn \in {"movinv1", "movinv32", "modtst"} => c.iter \in Nat
  <2>1. CASE fn = "movinv1"
    <3>1. c \in [fn : {"movinv1"}, iter : Nat, p1 : SUBSET Bits]
      BY <2>1, CallSets
    <3> QED
      BY <2>1, <3>1
  <2>2. CASE fn = "movinv32"
    <3>1. c \in [fn : {"movinv32"}, iter : Nat, p1 : SUBSET Bits, lb : SUBSET Bits,
                 off : Bits]
      BY <2>2, CallSets
    <3>2. c.fn = "movinv32" /\ c.iter \in Nat
      BY ONLY <3>1
    <3> QED
      BY <2>2, <3>2
  <2>3. CASE fn = "modtst"
    <3>1. c \in [fn : {"modtst"}, off : 0 .. ModSz - 1, iter : Nat, p1 : SUBSET Bits]
      BY <2>3, CallSets
    <3> QED
      BY <2>3, <3>1
  <2>4. CASE fn = "block_move"
    <3>1. c \in [fn : {"block_move"}, iter : Nat]
      BY <2>4, CallSets
    <3> QED
      BY <2>4, <3>1
  <2>5. CASE fn = "bit_fade"
    <3>1. c \in [fn : {"bit_fade"}, p1 : SUBSET Bits]
      BY <2>5, CallSets
    <3> QED
      BY <2>5, <3>1
  <2>6. CASE fn \in {"movinvr", "addr_tst1", "addr_tst2"}
    <3>1. c \in [fn : {fn}]
      BY <2>6, CallSets
    <3> QED
      BY <2>6, <3>1
  <2> QED
    BY <2>1, <2>2, <2>3, <2>4, <2>5, <2>6
<1>2. CASE fn \in {"movinv1", "movinv32"}
  <2>1. c.iter \in Nat
    BY <1>1, <1>2
  <2>2. /\ First(fn) = "fill" /\ {"fill", "up", "down"} \subseteq LoopNames(fn)
        /\ Following(fn) = {<<"fill", "up">>, <<"up", "down">>, <<"down", "up">>}
    BY <1>2 DEF First, Following, LoopNames
  <2>3. <<"fill">> \in Chains(fn, "fill", "fill")
    BY <2>2, ChainOfOne
  <2>4. <<"up", "down">> \in Chains(fn, "up", "down")
    BY <2>2, ChainOfTwo
  <2> DEFINE T == Times(c.iter, <<"up", "down">>)
  <2>5. IF c.iter = 0 THEN T = <<>> ELSE T \in Chains(fn, "up", "down")
    BY <2>1, <2>2, <2>4, ChainTimes
  <2>6. Loops(c) = <<"fill">> \o T
    BY <1>1, <1>2 DEF Loops
  <2> HIDE DEF T
  <2>7. CASE c.iter = 0
    BY <2>5, <2>6, <2>7, <1>1, <2>2, <2>3, ChainIsLoops
  <2>8. CASE c.iter # 0
    <3>1. <<"fill", "up">> \in Following(fn) /\ T \in Chains(fn, "up", "down")
      BY <2>2, <2>5, <2>8
    <3>2. Loops(c) \in Chains(fn, "fill", "down")
      BY <2>3, <2>6, <3>1, ChainsAppended
    <3> QED
      BY <1>1, <2>2, <3>2, ChainIsLoops
  <2> QED
    BY <2>7, <2>8
<1>3. CASE fn = "modtst"
  <2>1. c.iter \in Nat
    BY <1>1, <1>3
  <2>2. /\ First(fn) = "every" /\ {"every", "rest", "check"} \subseteq LoopNames(fn)
        /\ Following(fn) = {<<"every", "rest">>, <<"every", "check">>,
                            <<"rest", "rest">>, <<"rest", "check">>}
    BY <1>3 DEF First, Following, LoopNames
  <2>3. /\ <<"every">> \in Chains(fn, "every", "every")
        /\ <<"rest">> \in Chains(fn, "rest", "rest")
        /\ <<"check">> \in Chains(fn, "check", "check")
    BY <2>2, ChainOfOne
  <2> DEFINE T == Times(c.iter, <<"rest">>)
  <2>4. IF c.iter = 0 THEN T = <<>> ELSE T \in Chains(fn, "rest", "rest")
    BY <2>1, <2>2, <2>3, ChainTimes
  <2>5. Loops(c) = (<<"every">> \o T) \o <<"check">>
    BY <1>1, <1>3 DEF Loops
  <2> HIDE DEF T
  <2>6. Loops(c) \in Chains(fn, "every", "check")
    <3>1. CASE c.iter = 0
      <4>1. <<"every">> \o T = <<"every">>
        BY <2>4, <3>1
      <4>2. <<"every", "check">> \in Following(fn)
        BY <2>2
      <4>3. PICK U : U = <<"every">> \o T
        OBVIOUS
      <4>4. U \in Chains(fn, "every", "every")
        BY <2>3, <4>1, <4>3
      <4>5. U \o <<"check">> \in Chains(fn, "every", "check")
        BY <2>3, <4>2, <4>4, ChainsAppended
      <4> QED
        BY <2>5, <4>3, <4>5
    <3>2. CASE c.iter # 0
      <4>1. <<"every", "rest">> \in Following(fn) /\ <<"rest", "check">> \in Following(fn)
        BY <2>2
      <4>2. T \in Chains(fn, "rest", "rest")
        BY <2>4, <3>2
      <4>3. <<"every">> \o T \in Chains(fn, "every", "rest")
        BY <2>3, <4>1, <4>2, ChainsAppended
      <4>4. PICK U : U = <<"every">> \o T
        OBVIOUS
      <4>5. U \o <<"check">> \in Chains(fn, "every", "check")
        BY <2>3, <4>1, <4>3, <4>4, ChainsAppended
      <4> QED
        BY <2>5, <4>4, <4>5
    <3> QED
      BY <3>1, <3>2
  <2> QED
    BY <1>1, <2>2, <2>6, ChainIsLoops
<1>4. CASE fn \in {"movinvr", "addr_tst1", "addr_tst2", "block_move", "bit_fade"}
  <2>1. CASE fn = "movinvr"
    BY <1>1, <2>1 DEF Loops, LoopsOf, LoopNames, First, Following
  <2>2. CASE fn = "addr_tst1"
    BY <1>1, <2>2 DEF Loops, LoopsOf, LoopNames, First, Following
  <2>3. CASE fn = "addr_tst2"
    BY <1>1, <2>3 DEF Loops, LoopsOf, LoopNames, First, Following
  <2>4. CASE fn = "block_move"
    BY <1>1, <2>4 DEF Loops, LoopsOf, LoopNames, First, Following
  <2>5. CASE fn = "bit_fade"
    BY <1>1, <2>5 DEF Loops, LoopsOf, LoopNames, First, Following
  <2> QED
    BY <1>4, <2>1, <2>2, <2>3, <2>4, <2>5
<1> QED
  BY <1>2, <1>3, <1>4

-----------------------------------------------------------------------------
(* Where a step finds the program *)

LoopTable(fn) ==
  CASE fn \in {"movinv1", "movinv32"} -> {"fill", "up", "down"}
    [] fn = "movinvr" -> {"fill", "up", "upNot"}
    [] fn = "modtst" -> {"every", "rest", "check"}
    [] fn = "addr_tst1" -> {"line", "bank"}
    [] fn = "addr_tst2" -> {"own", "check"}
    [] fn = "block_move" -> {"blocks", "move", "pairs"}
    [] fn = "bit_fade" -> {"fill", "sleep", "check"}

Fns == {"movinv1", "movinv32", "movinvr", "modtst", "addr_tst1", "addr_tst2",
               "block_move", "bit_fade"}

LEMMA FnIn ==
  ASSUME NEW t \in Trials
  PROVE  Fn(t.pat) \in Fns /\ (Fn(t.pat) = "block_move") = (t.pat = 7)
BY TrialsAssumption DEF Fn, Fns

LEMMA NamesAre ==
  ASSUME NEW fn \in Fns
  PROVE  LoopNames(fn) \subseteq LoopTable(fn)
<1>1. First(fn) \in LoopTable(fn)
  BY DEF Fns, First, LoopTable
<1>2. ASSUME NEW q \in Following(fn)
      PROVE  q[2] \in LoopTable(fn)
  BY <1>2 DEF Following, LoopTable, Fns
<1> QED
  BY <1>1, <1>2 DEF LoopNames

LEMMA CallNow ==
  ASSUME Shape
  PROVE  /\ call \in CallsOf(Fn(trial.pat)) /\ call.fn = Fn(trial.pat)
         /\ call.fn \in Fns
         /\ (call.fn = "block_move") = (trial.pat = 7)
BY FnIn, LoopsIn DEF Shape, call, Fns

LEMMA CallFields ==
  ASSUME Shape
  PROVE  /\ call.fn \in {"movinv1", "movinv32", "modtst", "bit_fade"} =>
              call.p1 \in SUBSET Bits
         /\ call.fn = "movinv32" => /\ call.lb \in SUBSET Bits /\ call.off \in Bits
                                    /\ call.p1 = Rol(call.lb, call.off)
         /\ call.fn = "modtst" => call.off \in 0 .. ModSz - 1
         /\ call.fn \in {"movinv1", "movinv32", "modtst", "block_move"} => call.iter \in Nat
<1>1. call \in CallsOf(call.fn) /\ call.fn \in Fns
  BY CallNow
<1>2. CASE call.fn = "movinv1"
  <2>1. call \in [fn : {"movinv1"}, iter : Nat, p1 : SUBSET Bits]
    BY <1>1, <1>2, CallSets
  <2> QED
    BY <1>2, <2>1
<1>3. CASE call.fn = "movinv32"
  BY <1>1, <1>3, CallSets
<1>4. CASE call.fn = "modtst"
  <2>1. call \in [fn : {"modtst"}, off : 0 .. ModSz - 1, iter : Nat, p1 : SUBSET Bits]
    BY <1>1, <1>4, CallSets
  <2> QED
    BY <1>4, <2>1
<1>5. CASE call.fn = "bit_fade"
  <2>1. call \in [fn : {"bit_fade"}, p1 : SUBSET Bits]
    BY <1>1, <1>5, CallSets
  <2> QED
    BY <1>5, <2>1
<1>6. CASE call.fn = "block_move"
  <2>1. call \in [fn : {"block_move"}, iter : Nat]
    BY <1>1, <1>6, CallSets
  <2> QED
    BY <1>6, <2>1
<1> QED
  BY <1>2, <1>3, <1>4, <1>5, <1>6

LEMMA LoopNow ==
  ASSUME Shape, Looping
  PROVE  loop \in LoopTable(call.fn)
BY CallNow, NamesAre DEF Shape, loop, LoopsOf

LEMMA Here ==
  ASSUME Shape
  PROVE  /\ segs \in Nat \ {0} /\ j \in 1 .. segs
         /\ start \in 0 .. Space - 1 /\ end \in 0 .. Space - 1
         /\ start + ModSz < end /\ end + ModSz <= Space
         /\ (end - start) % Width = 0
         /\ SegmentAssumption(trial.map[j])
BY Segments DEF Shape, segs, start, end

(* block_move() *)
LEMMA FirstHere ==
  ASSUME NEW t \in Trials, NEW i \in 1 .. Len(t.map), t.pat = 7
  PROVE  /\ FirstOf(t, i) \in Nat /\ t.map[i].start <= FirstOf(t, i)
         /\ FirstOf(t, i) < t.map[i].end
         /\ LET last == (t.map[i].end - FirstOf(t, i)) % Spin
            IN  last % 4 = 0 /\ (last = 0 \/ last >= Block)
<1>1. DOMAIN t.map = 1 .. Len(t.map) /\ t.map[i].start \in 0 .. Space - 1
  BY Segments
<1>2. BlocksAssumption(t.map[i])
  BY <1>1, TrialsAssumption
<1> QED
  BY <1>1, <1>2, Sizes DEF BlocksAssumption, FirstOf

LEMMA StartHere ==
  ASSUME Shape
  PROVE  /\ SegmentStart \in Nat /\ start <= SegmentStart /\ SegmentStart < end
         /\ call.fn # "block_move" => SegmentStart = start
         /\ call.fn = "block_move" => SegmentStart = FirstOf(trial, j)
<1>1. CASE call.fn = "block_move"
  BY <1>1, CallNow, FirstHere DEF Shape, segs, SegmentStart, FirstOf, start, end
<1>2. CASE call.fn # "block_move"
  BY <1>2, Here, Sizes DEF SegmentStart
<1> QED
  BY <1>1, <1>2

LEMMA OneTime ==
  ASSUME NEW n \in Int
  PROVE  n * 1 = n /\ n * (-1) = -n
OBVIOUS

(* Up, the chunk ends a whole chunk further or at the end of the segment ... *)
LEMMA ChunkUp ==
  ASSUME Shape, ~Down, call.fn # "bit_fade", pe < end
  PROVE  /\ ChunkEnd = IF pe + Spin < end THEN pe + Spin ELSE end
         /\ LastChunk = (ChunkEnd = end)
<1>1. pe \in 0 .. Space - 1 /\ end \in 0 .. Space - 1
  BY Here DEF Shape
<1>2. CASE pe + Spin < Space
  BY <1>1, <1>2, Sizes, ModSmall DEF ChunkEnd, LastChunk
<1>3. CASE pe + Spin >= Space
  <2>1. (pe + Spin) % Space = pe + Spin - Space
    <3> DEFINE y == pe + Spin - Space
    <3>1. y \in 0 .. Space - 1 /\ y \in Int /\ Space \in Int /\ Space + y = pe + Spin
      BY <1>1, <1>3, Sizes
    <3> HIDE DEF y
    <3>2. (Space + y) % Space = y % Space
      BY <3>1, Sizes, ModOfModulus, ModOfMultiple
    <3>3. (pe + Spin) % Space = y
      BY <3>1, <3>2, Sizes, ModSmall
    <3> QED
      BY <3>3 DEF y
  <2>2. ~(pe + Spin - Space > pe)
    BY <1>1, Sizes
  <2> QED
    BY <1>1, <1>3, <2>1, <2>2, Sizes DEF ChunkEnd, LastChunk
<1> QED
  BY <1>1, <1>2, <1>3, Sizes

(* ... and down likewise. *)
LEMMA ChunkDown ==
  ASSUME Shape, Down, start < pe
  PROVE  /\ ChunkEnd = IF start < pe - Spin THEN pe - Spin ELSE start
         /\ LastChunk = (ChunkEnd = start)
<1>1. pe \in 0 .. Space - 1 /\ start \in 0 .. Space - 1
  BY Here DEF Shape
<1>2. CASE pe - Spin >= 0
  BY <1>1, <1>2, Sizes, ModSmall DEF ChunkEnd, LastChunk
<1>3. CASE pe - Spin < 0
  BY <1>1, <1>3, Sizes, OneTime, UniqueMod DEF ChunkEnd, LastChunk
<1> QED
  BY <1>1, <1>2, <1>3, Sizes

(* The segments follow one another. *)
LEMMA Ordered ==
  ASSUME NEW t \in Trials, NEW i \in 1 .. Len(t.map), NEW i2 \in 1 .. Len(t.map),
         NEW a \in WordsOf(t, i)
  PROVE  /\ a \in 0 .. Space - 1
         /\ t.map[i].start <= a /\ a < t.map[i].end
         /\ i < i2 => a < t.map[i2].start
         /\ i2 < i => t.map[i2].end <= a
<1>1. /\ t.map[i].start \in 0 .. Space - 1 /\ t.map[i].end \in 0 .. Space - 1
      /\ t.map[i2].start \in 0 .. Space - 1 /\ t.map[i2].end \in 0 .. Space - 1
  BY Segments
<1>2. a \in t.map[i].start .. t.map[i].end - 1
  BY DEF WordsOf
<1>3. a \in 0 .. Space - 1 /\ t.map[i].start <= a /\ a < t.map[i].end
  BY <1>1, <1>2, Sizes
<1>4. ASSUME i < i2
      PROVE  a < t.map[i2].start
  BY <1>4, Segments, <1>1, <1>3
<1>5. ASSUME i2 < i
      PROVE  t.map[i2].end <= a
  BY <1>5, Segments, <1>1, <1>3
<1> QED
  BY <1>3, <1>4, <1>5

LEMMA OrderedHere ==
  ASSUME Shape, NEW i \in 1 .. segs, NEW a \in WordsOf(trial, i)
  PROVE  /\ a \in 0 .. Space - 1
         /\ i < j => a < start
         /\ i = j => start <= a /\ a < end
         /\ j < i => end <= a
         /\ start <= a /\ a < end => i = j
<1>1. trial \in Trials /\ i \in 1 .. Len(trial.map) /\ j \in 1 .. Len(trial.map)
  BY DEF Shape, segs
<1>2. /\ a \in 0 .. Space - 1
      /\ trial.map[i].start <= a /\ a < trial.map[i].end
      /\ i < j => a < start
      /\ j < i => end <= a
  BY <1>1, Ordered DEF start, end
<1>3. start \in Nat /\ end \in Nat
  BY Here
<1>4. i < j \/ i = j \/ j < i
  BY <1>1
<1> QED
  BY <1>2, <1>3, <1>4 DEF start, end

-----------------------------------------------------------------------------
(* Steps within a loop *)

LEMMA SameLoop ==
  ASSUME UNCHANGED <<trial, calls, loops>>
  PROVE  /\ call' = call /\ loop' = loop /\ segs' = segs
         /\ Down' <=> Down
         /\ Modular' <=> Modular
         /\ Stepwise' <=> Stepwise
         /\ Good' <=> Good
BY DEF call, loop, segs, Down, Modular, Stepwise, Good

LEMMA SameSegment ==
  ASSUME UNCHANGED <<trial, calls, loops, j>>
  PROVE  start' = start /\ end' = end /\ SegmentStart' = SegmentStart
BY SameLoop DEF start, end, SegmentStart

(* Memory without a fault *)
LEMMA GoodMemory ==
  ASSUME NEW f, f.kind = "none", NEW m, NEW a, NEW w
  PROVE  /\ Cell(f, a) = a /\ Load(m, f, a) = m[a] /\ Held(f, a, w) = w
         /\ Store(m, f, a, w) = [m EXCEPT ![a] = w] /\ Faded(m, f) = m
BY DEF Cell, Load, Held, Store, Flips, Faded

Memory(m) == m = [b \in 0 .. Space - 1 |-> m[b]]

LEMMA StoreShape ==
  ASSUME NEW m, Memory(m), NEW f, NEW a, NEW w
  PROVE  Memory(Store(m, f, a, w))
BY DEF Memory, Store

(* When a loop enters a segment no word of its own is dealt with. *)
LEMMA EnterDealt ==
  ASSUME IInv, EnterSegment, call.fn # "block_move",
         NEW i \in 1 .. segs, NEW a \in WordsOf(trial, i),
         Modular => Relevant(call, trial, i, a)
  PROVE  Dealt(a)' <=> Dealt(a)
<1> USE DEF EnterSegment
<1>1. /\ Shape /\ Looping /\ Looping' /\ pc = "segment" /\ pc' = "chunk"
      /\ call.fn # "addr_tst1" /\ loop # "sleep"
      /\ UNCHANGED <<trial, calls, loops, j, mask, mem, reported>>
      /\ p' = FirstWord /\ (pe' = IF Down THEN (end - 1) % Space ELSE SegmentStart)
      /\ Registers
  BY DEF IInv, Looping, history
<1>2. /\ call' = call /\ loop' = loop /\ segs' = segs /\ start' = start /\ end' = end
      /\ SegmentStart' = SegmentStart
      /\ (Down' <=> Down) /\ (Modular' <=> Modular) /\ (Stepwise' <=> Stepwise)
      /\ (Good' <=> Good)
  BY <1>1, SameLoop, SameSegment
<1>3. /\ start \in Nat /\ end \in Nat /\ end < Space /\ start + ModSz < end
      /\ (end - 1) % Space = end - 1
  <2>1. start \in Nat /\ end \in Nat /\ end < Space /\ start + ModSz < end
    BY <1>1, Here, Sizes
  <2>2. end - 1 \in 0 .. Space - 1
    BY <2>1, Sizes
  <2>3. (end - 1) % Space = end - 1
    BY <2>2, Sizes, ModSmall
  <2> QED
    BY <2>1, <2>3
<1>4. /\ SegmentStart \in Nat /\ start <= SegmentStart /\ SegmentStart < end
      /\ call.fn # "block_move" => SegmentStart = start
  BY <1>1, StartHere
<1>5. call.fn \in Fns /\ loop \in LoopTable(call.fn)
  BY <1>1, CallNow, LoopNow
<1>6. /\ Modular => p' = start + call.off /\ call.off \in 0 .. ModSz - 1 /\ pe' = start
      /\ Down => p' = end - 1 /\ pe' = end - 1 /\ call.fn # "block_move"
      /\ Stepwise => p' = start /\ pe' = start
      /\ call.fn = "block_move" => p' = SegmentStart /\ pe' = SegmentStart
  <2>1. Down => call.fn \in {"movinv1", "movinv32"}
    BY <1>5 DEF Down, LoopTable, Fns
  <2>2. Modular => p' = start + call.off /\ call.off \in 0 .. ModSz - 1 /\ pe' = start
    BY <1>1, <1>4, <2>1, CallFields DEF Modular, FirstWord, Down
  <2>3. Stepwise => p' = start /\ pe' = start
    BY <1>1, <1>4, <1>5 DEF Stepwise, Modular, FirstWord, LoopTable, Down, Fns
  <2>4. call.fn = "block_move" => p' = SegmentStart /\ pe' = SegmentStart
    BY <1>1, <1>5, <2>1 DEF FirstWord, LoopTable
  <2>5. Down => p' = end - 1 /\ pe' = end - 1 /\ call.fn # "block_move"
    <3> SUFFICES ASSUME Down
                 PROVE  p' = end - 1 /\ pe' = end - 1 /\ call.fn # "block_move"
      OBVIOUS
    <3>1. FirstWord = (end - 1) % Space
      BY DEF FirstWord, Down
    <3> QED
      BY <1>1, <1>3, <2>1, <3>1
  <2> QED
    BY <2>2, <2>3, <2>4, <2>5
<1>7. call.fn = "block_move" \/ Modular \/ Down \/ Stepwise
  BY <1>1 DEF Stepwise
<1>20. a \in Nat
  BY <1>1, OrderedHere
<1>21. CASE Down
  BY <1>1, <1>2, <1>3, <1>6, <1>20, <1>21 DEF Dealt
<1>22. CASE Stepwise
  BY <1>1, <1>2, <1>3, <1>6, <1>20, <1>22 DEF Dealt, Stepwise
<1>23. CASE Modular
  <2>1. ~Down /\ p' = start + call.off /\ call.off \in 0 .. ModSz - 1
    BY <1>6, <1>23 DEF Modular, Down
  <2>2. ASSUME start <= a, a < start + call.off
        PROVE  FALSE
    BY <1>3, <1>20, <2>1, <2>2, Sizes, <1>1, OrderedHere, <1>23, ModSmall
    DEF Relevant, Modular, start
  <2> QED
    BY <1>1, <1>2, <1>3, <1>20, <2>1, <2>2 DEF Dealt
<1> QED
  BY <1>7, <1>21, <1>22, <1>23

LEMMA EnterKeeps ==
  ASSUME IInv, EnterSegment
  PROVE  IInv'
<1> USE DEF EnterSegment
<1>1. /\ Shape /\ Looping /\ Looping' /\ pc = "segment" /\ pc' = "chunk"
      /\ call.fn # "addr_tst1" /\ loop # "sleep"
      /\ UNCHANGED <<trial, calls, loops, j, mask, mem, reported>>
      /\ p' = FirstWord /\ (pe' = IF Down THEN (end - 1) % Space ELSE SegmentStart)
      /\ Registers
  BY DEF IInv, Looping, history
<1> HIDE DEF EnterSegment
<1>2. /\ call' = call /\ loop' = loop /\ segs' = segs /\ start' = start /\ end' = end
      /\ SegmentStart' = SegmentStart
      /\ (Down' <=> Down) /\ (Modular' <=> Modular) /\ (Stepwise' <=> Stepwise)
      /\ (Good' <=> Good)
  BY <1>1, SameLoop, SameSegment
<1>3. /\ start \in Nat /\ end \in Nat /\ end < Space /\ start + ModSz < end
      /\ (end - 1) % Space = end - 1
  BY <1>1, Here, Sizes, ModSmall
<1>4. /\ SegmentStart \in Nat /\ start <= SegmentStart /\ SegmentStart < end
      /\ call.fn # "block_move" => SegmentStart = start
  BY <1>1, StartHere
<1>5. call.fn \in Fns /\ loop \in LoopTable(call.fn)
  BY <1>1, CallNow, LoopNow
<1>6. /\ Modular => p' = start + call.off /\ call.off \in 0 .. ModSz - 1 /\ pe' = start
      /\ Down => p' = end - 1 /\ pe' = end - 1 /\ call.fn # "block_move"
      /\ Stepwise => p' = start /\ pe' = start
      /\ call.fn = "block_move" => p' = SegmentStart /\ pe' = SegmentStart
  <2>1. Down => call.fn \in {"movinv1", "movinv32"}
    BY <1>5 DEF Down, LoopTable, Fns
  <2>2. Modular => p' = start + call.off /\ call.off \in 0 .. ModSz - 1 /\ pe' = start
    BY <1>1, <1>4, <2>1, CallFields DEF Modular, FirstWord, Down
  <2>3. Stepwise => p' = start /\ pe' = start
    BY <1>1, <1>4, <1>5 DEF Stepwise, Modular, FirstWord, LoopTable, Down, Fns
  <2>4. call.fn = "block_move" => p' = SegmentStart /\ pe' = SegmentStart
    BY <1>1, <1>5, <2>1 DEF FirstWord, LoopTable
  <2>5. Down => p' = end - 1 /\ pe' = end - 1 /\ call.fn # "block_move"
    <3> SUFFICES ASSUME Down
                 PROVE  p' = end - 1 /\ pe' = end - 1 /\ call.fn # "block_move"
      OBVIOUS
    <3>1. FirstWord = (end - 1) % Space
      BY DEF FirstWord, Down
    <3> QED
      BY <1>1, <1>3, <2>1, <3>1
  <2> QED
    BY <2>2, <2>3, <2>4, <2>5
<1>7. call.fn = "block_move" \/ Modular \/ Down \/ Stepwise
  BY <1>1 DEF Stepwise
<1>8. p' \in Nat /\ pe' \in 0 .. Space - 1
  BY <1>3, <1>4, <1>6, <1>7, Sizes
<1>9. pat' \subseteq Bits /\ k' \in Nat
  BY <1>1, CallFields DEF Registers, Shape, Bits
<1>10. Shape'
  BY <1>1, <1>2, <1>8, <1>9 DEF Shape
<1>11. UpPlace'
  BY <1>1, <1>2, <1>3, <1>6, Sizes DEF UpPlace
<1>12. ModPlace'
  <2>1. ASSUME Modular
        PROVE  /\ (p' - start) % ModSz = call.off /\ p' < pe' + ModSz
               /\ Whole(pe' - start)
    <3>1. p' - start = call.off /\ pe' - start = 0 /\ call.off \in 0 .. ModSz - 1
      BY <1>3, <1>6, <2>1
    <3>2. call.off % ModSz = call.off /\ 0 % Spin = 0
      BY <3>1, Sizes, ModSmall, ModOfModulus
    <3>3. p' < pe' + ModSz
      BY <1>3, <1>6, <2>1, Sizes
    <3> QED
      BY <3>1, <3>2, <3>3 DEF Whole
  <2> QED
    BY <1>1, <1>2, <1>3, <1>6, <2>1, Sizes DEF ModPlace, Whole
<1>13. DownPlace'
  BY <1>3, <1>6, Sizes, ModOfModulus, <1>1, <1>2 DEF DownPlace
<1>14. BlockPlace'
  <2>1. ASSUME call.fn = "block_move"
        PROVE  Whole(pe' - SegmentStart) /\ (pe' - p') % 2 = 0 /\ k' = 0
    BY <1>4, <1>6, <2>1, <1>1, Sizes, ModOfModulus DEF Registers, Whole
  <2> SUFFICES ASSUME call.fn = "block_move"
               PROVE  BlockPlace'
    BY <1>1, <1>2 DEF BlockPlace
  <2>2. SegmentStart <= p' /\ p' = pe' /\ pe' < end /\ Whole(pe' - SegmentStart)
    BY <1>3, <1>4, <1>6, <2>1
  <2>3. pe' - p' = 0 /\ 0 % 2 = 0 /\ p' <= pe' /\ pe' <= end
    BY <1>3, <1>4, <1>6
  <2> QED
    BY <1>1, <1>2, <2>1, <2>2, <2>3 DEF BlockPlace, Whole
<1>15. AddrPlace'
  BY <1>1, <1>2 DEF AddrPlace
<1>16. Registers32'
  <2>1. ASSUME call.fn = "movinv32", ~Down
        PROVE  k' = (call.off + (p' - start)) % Width /\ pat' = Rol(call.lb, k')
    BY <1>1, <1>7, <2>1, CallFields, <1>3, <1>6, Sizes, ModSmall
    DEF Modular, Registers, Bits
  <2>2. ASSUME call.fn = "movinv32", Down
        PROVE  pat' = Rol(call.lb, call.off + (p' - start))
    BY <1>1, <2>2, CallFields, <1>6, <1>3, Here, RolMod
    DEF Registers, IInv, Marked, Registers32, Bits
  <2> QED
    BY <1>1, <1>2, <2>1, <2>2 DEF Registers32
<1>17. RegistersR'
  <2>1. ASSUME call.fn = "movinvr"
        PROVE  k' = Before(trial, p')
    BY <1>1, <1>5, <2>1, <1>6
    DEF Stepwise, Modular, Down, LoopTable, Registers, IInv, Marked, RegistersR
  <2> QED
    BY <1>1, <1>2, <2>1 DEF RegistersR
<1>18. RegistersMod'
  <2>1. ASSUME call.fn = "modtst", loop = "rest"
        PROVE  k' = (p' - start) % ModSz
    BY <1>1, <2>1, <1>3, <1>6, Sizes, ModOfModulus
    DEF Stepwise, Modular, Down, Registers
  <2> QED
    BY <1>1, <1>2, <2>1 DEF RegistersMod
<1>19. Filled'
  <2> SUFFICES ASSUME Good, call.fn \notin {"addr_tst1", "block_move"},
                      NEW i \in 1 .. segs, NEW a \in WordsOf(trial, i),
                      Relevant(call, trial, i, a)
               PROVE  /\ Dealt(a)' => mem[a] = Left(loop, call, trial, i, a)
                      /\ ~Dealt(a)' /\ loop \notin Filling =>
                           mem[a] = Found(loop, call, trial, i, a)
    BY <1>1, <1>2 DEF Filled
  <2>1. /\ Dealt(a) => mem[a] = Left(loop, call, trial, i, a)
        /\ ~Dealt(a) /\ loop \notin Filling => mem[a] = Found(loop, call, trial, i, a)
    BY <1>1 DEF IInv, Filled
  <2>2. a \in Nat
    BY <1>1, OrderedHere
  <2>3. Dealt(a)' <=> Dealt(a)
    BY EnterDealt
  <2> QED
    BY <2>1, <2>3
<1>20. Planted'
  BY <1>1 DEF Planted
<1>21. Blocked'
  <2> SUFFICES ASSUME Good, call.fn = "block_move"
               PROVE  Blocked'
    BY <1>1, <1>2 DEF Blocked
  <2>0. p' = SegmentStart /\ SegmentStart = FirstOf(trial, j) /\ k' = 0 /\ loop # "down"
    BY <1>6, <1>1, StartHere DEF Registers, Down
  <2> SUFFICES ASSUME NEW i \in 1 .. segs
               PROVE  /\ \A c \in FirstOf(trial, i) .. trial.map[i].end - 1 :
                           /\ Whole(c - FirstOf(trial, i))
                           /\ loop = "blocks" => i < j \/ (i = j /\ c < p')
                           => LowerPaired(mem, trial, i, c)
                      /\ loop = "pairs" \/ (loop = "move" /\ i < j) =>
                           Paired(mem, FirstOf(trial, i), FirstOf(trial, i),
                                  trial.map[i].end)
                      /\ loop = "move" /\ i = j =>
                           Paired(mem, FirstOf(trial, i), FirstOf(trial, i), p')
    BY <1>1, <1>2, <2>0 DEF Blocked
  <2>1. /\ \A c \in FirstOf(trial, i) .. trial.map[i].end - 1 :
             /\ Whole(c - FirstOf(trial, i))
             /\ loop = "blocks" => i < j
             => LowerPaired(mem, trial, i, c)
        /\ loop = "pairs" \/ (loop = "move" /\ i < j) =>
             Paired(mem, FirstOf(trial, i), FirstOf(trial, i), trial.map[i].end)
    BY <1>1 DEF IInv, Blocked
  <2>2. ASSUME i = j, NEW c \in FirstOf(trial, i) .. trial.map[i].end - 1
        PROVE  ~(c < p')
    BY <1>3, <1>4, <2>0, <2>2 DEF end
  <2>3. i = j => Paired(mem, FirstOf(trial, i), FirstOf(trial, i), p')
    BY <1>4, <2>0 DEF Paired
  <2> QED
    BY <2>1, <2>2, <2>3
<1>22. NoFalseAlarm'
  BY <1>1 DEF IInv, NoFalseAlarm
<1> QED
  BY <1>10, <1>11, <1>12, <1>13, <1>14, <1>15, <1>16, <1>17, <1>18, <1>19, <1>20, <1>21,
     <1>22 DEF IInv, Places, Marked

(* From a multiple to a multiple of a divisor *)
LEMMA ModOfDivisor ==
  ASSUME NEW a \in Nat \ {0}, NEW b \in Nat \ {0}, NEW x \in Int, x % a = 0, a % b = 0
  PROVE  x % b = 0
<1>1. PICK d \in Int : 0 = x - a * d
  BY DivMod
<1>0. a \in Int
  OBVIOUS
<1>2. PICK e \in Int : 0 = a - b * e
  BY <1>0, DivMod
<1>3. a * d \in Int /\ b * e \in Int /\ e * d \in Int
  OBVIOUS
<1>4. x = a * d /\ a = b * e
  BY <1>1, <1>2, <1>3
<1>5. (b * e) * d = b * (e * d)
  OBVIOUS
<1>6. x = b * (e * d)
  BY <1>4, <1>5
<1>7. 0 = x - b * (e * d) /\ 0 \in 0 .. b - 1
  BY <1>6
<1> QED
  BY <1>3, <1>7, UniqueMod

LEMMA ModSizes ==
  Spin % 4 = 0 /\ Spin % 2 = 0 /\ Spin >= Width
<1>1. Spin % 4 = 0
  <2>1. Spin \in Int /\ Block \in Nat \ {0} /\ 4 \in Nat \ {0}
    BY Sizes
  <2> QED
    BY <2>1, Sizes, ModOfDivisor
<1>2. Spin % 2 = 0
  BY <1>1, Sizes
<1>3. ASSUME Spin < Width PROVE FALSE
  BY <1>3, Sizes, ModSmall
<1> QED
  BY <1>1, <1>2, <1>3, Sizes

LEMMA WholeMore ==
  ASSUME NEW a \in Int, NEW b \in Int, (a - b) % Spin = 0
  PROVE  (Spin + (a - b)) % Spin = 0
<1>1. PICK n \in Int : n = a - b
  OBVIOUS
<1>2. Spin \in Int /\ Spin % Spin = 0
  BY Sizes, ModOfModulus
<1>3. (Spin + n) % Spin = n % Spin
  BY <1>2, Sizes, ModOfMultiple
<1> QED
  BY <1>1, <1>3

(* How long the chunks of block_move() are *)
LEMMA ChunkLength ==
  ASSUME NEW t \in Trials, NEW i \in 1 .. Len(t.map), t.pat = 7,
         NEW c \in FirstOf(t, i) .. t.map[i].end - 1, Whole(c - FirstOf(t, i))
  PROVE  /\ c \in Nat /\ UpTo(t, i, c) \in Nat /\ UpTo(t, i, c) <= t.map[i].end
         /\ (UpTo(t, i, c) - c) % 4 = 0 /\ UpTo(t, i, c) - c >= Block
<1> DEFINE F == FirstOf(t, i)
           E == t.map[i].end
<1>1. /\ F \in Nat /\ E \in Nat /\ F < E
      /\ (E - F) % Spin = 0 \/ (E - F) % Spin >= Block
      /\ ((E - F) % Spin) % 4 = 0
  BY FirstHere, Segments
<1>2. c \in Nat /\ F <= c /\ c < E /\ (c - F) % Spin = 0
  BY <1>1 DEF Whole
<1>3. UpTo(t, i, c) = IF c + Spin < E THEN c + Spin ELSE E
  BY DEF UpTo
<1> HIDE DEF F, E
<1>4. CASE c + Spin < E
  <2>1. UpTo(t, i, c) = c + Spin /\ (c + Spin) - c = Spin
    BY <1>2, <1>3, <1>4, Sizes
  <2>2. UpTo(t, i, c) \in Nat /\ UpTo(t, i, c) <= E /\ Spin >= Block
    BY <1>1, <1>2, <1>3, <1>4, Sizes
  <2>3. UpTo(t, i, c) - c = Spin
    BY <2>1
  <2> QED
    BY <1>2, <2>2, <2>3, ModSizes DEF E
<1>5. CASE ~(c + Spin < E)
  <2>1. UpTo(t, i, c) = E
    BY <1>3, <1>5
  <2>2. /\ E - F \in Nat /\ c - F \in Nat /\ c - F < E - F /\ (E - F) - (c - F) = E - c
        /\ E - c <= Spin
    BY <1>1, <1>2, <1>5, Sizes
  <2>3. E - c >= Spin \/ (E - c = (E - F) % Spin /\ (E - F) % Spin # 0)
    <3>1. PICK n \in Nat, x \in Nat : n = E - F /\ x = c - F /\ x < n /\ n - x = E - c
      BY <2>2
    <3>2. x % Spin = 0
      BY <1>2, <3>1
    <3>4. Spin \in Nat \ {0} /\ x < n
      BY <3>1, Sizes
    <3>3. n - x >= Spin \/ (n - x = n % Spin /\ n % Spin # 0)
      BY <3>2, <3>4, WholeLeft
    <3> QED
      BY <3>1, <3>3
  <2>0. UpTo(t, i, c) - c = E - c /\ UpTo(t, i, c) <= t.map[i].end /\ UpTo(t, i, c) \in Nat
    BY <1>1, <2>1 DEF E
  <2>4. CASE E - c = Spin
    BY Sizes, <1>2, <2>0, <2>4, ModSizes
  <2>5. CASE E - c = (E - F) % Spin /\ (E - F) % Spin # 0
    BY <1>1, <1>2, <2>0, <2>5
  <2>6. E - c = Spin \/ (E - c = (E - F) % Spin /\ (E - F) % Spin # 0)
    BY <1>1, <1>2, Sizes, <2>2, <2>3
  <2> QED
    BY <2>4, <2>5, <2>6
<1> QED
  BY <1>4, <1>5

LEMMA ChunkEndUp ==
  ASSUME Shape, ~Down, pe < end
  PROVE  pe < ChunkEnd /\ ChunkEnd <= end /\ LastChunk = (ChunkEnd = end)
<1>1. pe \in Nat /\ end \in Nat
  BY Here DEF Shape
<1>2. CASE call.fn = "bit_fade"
  BY <1>1, <1>2 DEF ChunkEnd, LastChunk
<1>3. CASE call.fn # "bit_fade"
  BY <1>1, <1>3, Sizes, ChunkUp
<1> QED
  BY <1>2, <1>3

(* Before a chunk there is something left to deal with. *)
LEMMA SomethingUp ==
  ASSUME IInv, pc = "chunk", Stepwise
  PROVE  start <= p /\ p < ChunkEnd /\ ChunkEnd <= end /\ LastChunk = (ChunkEnd = end)
BY ChunkEndUp DEF IInv, Places, UpPlace, Looping, Stepwise

LEMMA SomethingMod ==
  ASSUME IInv, pc = "chunk", Modular
  PROVE  /\ start <= p /\ p < ChunkEnd /\ ChunkEnd <= end /\ start < ChunkEnd
         /\ LastChunk = (ChunkEnd = end)
         /\ LastChunk \/ Whole(ChunkEnd - start)
<1>1. /\ Shape /\ Looping /\ ~Down /\ start <= pe /\ pe < end /\ pe <= p
      /\ p < pe + ModSz /\ Whole(pe - start) /\ start <= p
  BY DEF IInv, Places, ModPlace, Looping, Modular, Down
<1>2. /\ start \in Nat /\ end \in Nat /\ pe \in Nat /\ p \in Nat /\ end < Space
      /\ LET last == (end - start) % Spin IN last = 0 \/ last >= ModSz
  <2>1. start \in Nat /\ end \in Nat /\ pe \in Nat /\ p \in Nat /\ end < Space
    <3>1. Shape
      BY <1>1
    <3>2. start \in 0 .. Space - 1 /\ end \in 0 .. Space - 1
      BY <3>1, Here
    <3>3. pe \in 0 .. Space - 1 /\ p \in Nat
      BY <3>1 DEF Shape
    <3> QED
      BY <3>2, <3>3, Sizes
  <2>2. SegmentAssumption(trial.map[j])
    BY <1>1, Here
  <2> QED
    BY <2>1, <2>2 DEF SegmentAssumption, start, end
<1>3. /\ ChunkEnd = (IF pe + Spin < end THEN pe + Spin ELSE end)
      /\ LastChunk = (ChunkEnd = end)
  BY <1>1, ChunkUp DEF Modular
<1>4. end - pe >= ModSz
  <2>1. /\ end - start \in Nat /\ pe - start \in Nat /\ pe - start < end - start
        /\ (end - start) - (pe - start) = end - pe
    BY <1>1, <1>2
  <2>2. end - pe >= Spin \/ (end - pe = (end - start) % Spin /\ (end - start) % Spin # 0)
    <3>1. PICK n \in Nat, x \in Nat :
            n = end - start /\ x = pe - start /\ x < n /\ n - x = end - pe
      BY <2>1
    <3>2. x % Spin = 0
      BY <1>1, <3>1 DEF Whole
    <3>4. Spin \in Nat \ {0} /\ x < n
      BY <3>1, Sizes
    <3>3. n - x >= Spin \/ (n - x = n % Spin /\ n % Spin # 0)
      BY <3>2, <3>4, WholeLeft
    <3> QED
      BY <3>1, <3>3
  <2> QED
    BY <1>2, <2>1, <2>2, Sizes
<1>5. p < ChunkEnd
  BY <1>1, <1>2, <1>3, <1>4, Sizes
<1>6. ASSUME ~LastChunk
      PROVE  Whole(ChunkEnd - start)
  <2>0. ChunkEnd # end
    BY <1>3, <1>6
  <2>1. ChunkEnd = pe + Spin /\ Spin + (pe - start) = (pe + Spin) - start
    BY <1>3, <2>0, <1>2, Sizes
  <2>2. (Spin + (pe - start)) % Spin = 0
    <3>1. pe \in Int /\ start \in Int /\ (pe - start) % Spin = 0
      BY <1>1, <1>2 DEF Whole
    <3> QED
      BY <3>1, WholeMore
  <2> QED
    BY <2>1, <2>2 DEF Whole
<1> QED
  BY <1>1, <1>2, <1>3, <1>5, <1>6, Sizes

LEMMA SomethingDown ==
  ASSUME IInv, pc = "chunk", Down
  PROVE  /\ start <= ChunkEnd /\ ChunkEnd < p /\ p < end
         /\ LastChunk = (ChunkEnd = start)
         /\ LastChunk \/ (end - 1 - ChunkEnd) % Width = 0
<1>1. /\ Shape /\ Looping /\ start < pe /\ pe < end
      /\ p = pe - 1 \/ (p = pe /\ pe = end - 1)
      /\ (end - 1 - pe) % Width = 0
  BY Here DEF IInv, Places, Looping, Shape, DownPlace
<1>2. start \in Nat /\ end \in Nat /\ pe \in Nat /\ (end - start) % Width = 0
  BY <1>1, Here DEF Shape
<1>3. /\ ChunkEnd = (IF start < pe - Spin THEN pe - Spin ELSE start)
      /\ LastChunk = (ChunkEnd = start)
  BY <1>1, ChunkDown
<1>4. ChunkEnd < pe /\ start <= ChunkEnd /\ ChunkEnd \in Nat
  BY <1>1, <1>2, <1>3, Sizes
<1>5. ASSUME p = pe - 1, ChunkEnd = p
      PROVE  FALSE
  <2>1. CASE start < pe - Spin
    BY <1>2, <1>3, <1>5, <2>1, Sizes, ModSizes
  <2>2. CASE ~(start < pe - Spin)
    <3>1. start = pe - 1
      BY <1>3, <1>5, <2>2
    <3>2. end - 1 - pe \in Int /\ (end - start) - (end - 1 - pe) = 2
      BY <1>2, <3>1
    <3>3. 2 % Width = 0
      <4>1. PICK n \in Int, n2 \in Int : n = end - start /\ n2 = end - 1 - pe
        BY <1>2
      <4>2. n % Width = 0 /\ n2 % Width = 0 /\ n - n2 = 2
        BY <1>1, <1>2, <3>2, <4>1
      <4>3. (n - n2) % Width = n % Width
        BY <4>2, Sizes, MultipleLess
      <4> QED
        BY <4>2, <4>3
    <3>4. 2 \in 0 .. Width - 1
      BY Sizes
    <3> QED
      BY <3>3, <3>4, Sizes, ModSmall
  <2> QED
    BY <2>1, <2>2
<1>6. ChunkEnd < p
  BY <1>1, <1>2, <1>4, <1>5
<1>7. ASSUME ~LastChunk
      PROVE  (end - 1 - ChunkEnd) % Width = 0
  <2>1. ChunkEnd = pe - Spin
    BY <1>3, <1>7
  <2>2. PICK n \in Int : n = end - 1 - pe
    BY <1>2
  <2>3. end - 1 - ChunkEnd = Spin + n /\ n % Width = 0 /\ Spin \in Int
    BY <1>1, <1>2, <2>1, <2>2, Sizes
  <2>4. (Spin + n) % Width = n % Width
    BY <2>3, Sizes, ModOfMultiple
  <2> QED
    BY <2>3, <2>4
<1> QED
  BY <1>1, <1>2, <1>3, <1>4, <1>6, <1>7

LEMMA SomethingBlock ==
  ASSUME IInv, pc = "chunk", call.fn = "block_move"
  PROVE  /\ SegmentStart <= p /\ p < ChunkEnd /\ ChunkEnd <= end
         /\ LastChunk = (ChunkEnd = end) /\ ~Down
         /\ LastChunk \/ Whole(ChunkEnd - SegmentStart)
         /\ Whole(p - SegmentStart)
         /\ ChunkEnd = p + Spin \/ (ChunkEnd = end /\ end <= p + Spin)
         /\ (ChunkEnd - p) % 2 = 0
<1>1. /\ Shape /\ Looping /\ SegmentStart <= p /\ pe < end /\ p = pe
      /\ Whole(pe - SegmentStart)
  BY DEF IInv, Places, BlockPlace, Looping
<1>2. ~Down
  BY <1>1, LoopNow DEF Down, LoopTable
<1>3. p \in Nat /\ end \in Nat /\ SegmentStart \in Nat
  BY <1>1, Here, StartHere DEF Shape
<1>4. /\ ChunkEnd = (IF p + Spin < end THEN p + Spin ELSE end)
      /\ LastChunk = (ChunkEnd = end)
  BY <1>1, <1>2, ChunkUp
<1>5. ASSUME ~LastChunk
      PROVE  Whole(ChunkEnd - SegmentStart)
  <2>0. ChunkEnd # end
    BY <1>4, <1>5
  <2>1. ChunkEnd = p + Spin /\ Spin + (p - SegmentStart) = (p + Spin) - SegmentStart
    BY <1>4, <2>0, <1>3, Sizes
  <2>2. (Spin + (p - SegmentStart)) % Spin = 0
    <3>1. p \in Int /\ SegmentStart \in Int /\ (p - SegmentStart) % Spin = 0
      BY <1>1, <1>3 DEF Whole
    <3> QED
      BY <3>1, WholeMore
  <2> QED
    BY <2>1, <2>2 DEF Whole
<1>6. (ChunkEnd - p) % 2 = 0
  <2>1. /\ trial \in Trials /\ trial.pat = 7 /\ j \in 1 .. Len(trial.map)
        /\ SegmentStart = FirstOf(trial, j)
    BY <1>1, CallNow, StartHere DEF Shape, segs
  <2>2. p \in FirstOf(trial, j) .. trial.map[j].end - 1
    BY <1>1, <1>3, <2>1 DEF end
  <2>3. UpTo(trial, j, p) = ChunkEnd
    BY <1>4 DEF UpTo, end
  <2>4. (ChunkEnd - p) % 4 = 0 /\ ChunkEnd \in Nat
    BY <1>1, <2>1, <2>2, <2>3, ChunkLength
  <2> QED
    BY <1>3, <2>4
<1> QED
  BY <1>1, <1>2, <1>3, <1>4, <1>5, <1>6, Sizes

-----------------------------------------------------------------------------
(* From chunk to chunk and from segment to segment *)

(* A test that is over, or stopped, keeps what it has. *)
LEMMA DoneKeeps ==
  ASSUME IInv, pc' = "done", UNCHANGED <<trial, calls, loops, j, p, pe, mem, reported>>,
         k' \in Nat, mask' \in Nat, pat' \subseteq Bits
  PROVE  IInv'
<1>1. /\ ~Looping' /\ call' = call /\ loop' = loop /\ segs' = segs /\ (Good' <=> Good)
  BY SameLoop DEF Looping
<1>2. Shape'
  BY <1>1 DEF IInv, Shape
<1>3. Places'
  BY <1>1 DEF Places, UpPlace, ModPlace, DownPlace, BlockPlace, AddrPlace
<1>4. Marked'
  BY <1>1 DEF Marked, Registers32, RegistersR, RegistersMod
<1>5. Filled' /\ Planted' /\ Blocked'
  BY <1>1 DEF Filled, Planted, Blocked
<1>6. NoFalseAlarm'
  BY DEF IInv, NoFalseAlarm
<1> QED
  BY <1>2, <1>3, <1>4, <1>5, <1>6 DEF IInv

(* Every loop but addr_tst1()'s and the sleep goes up, down or in steps. *)
LEMMA Kinds ==
  ASSUME Shape, Looping, call.fn # "addr_tst1", loop # "sleep"
  PROVE  /\ call.fn = "block_move" \/ Modular \/ Down \/ Stepwise
         /\ Down => call.fn \in {"movinv1", "movinv32"} /\ ~Modular /\ ~Stepwise
         /\ Modular => call.fn = "modtst" /\ ~Down /\ ~Stepwise
         /\ Stepwise => ~Down /\ ~Modular
         /\ call.fn = "block_move" => ~Down /\ ~Modular /\ ~Stepwise
         /\ call.fn = "movinvr" => Stepwise
BY CallNow, LoopNow DEF Down, LoopTable, Fns, Modular, Stepwise

LEMMA SomethingToDo ==
  ASSUME IInv, pc = "chunk"
  PROVE  ~Nothing
BY Kinds, Here, SomethingBlock, SomethingMod, SomethingDown, SomethingUp
DEF IInv, Places, AddrPlace, Looping, Shape, Nothing

LEMMA NextChunkKeeps ==
  ASSUME IInv, NextChunk
  PROVE  IInv'
<1>1. /\ Shape /\ Looping /\ Looping' /\ pc = "chunk"
      /\ call.fn # "addr_tst1" /\ loop # "sleep"
  BY DEF NextChunk, IInv, Places, NextSegment, AddrPlace, Looping
<1>2. /\ call.fn = "block_move" \/ Modular \/ Down \/ Stepwise
      /\ Down => call.fn \in {"movinv1", "movinv32"} /\ ~Modular /\ ~Stepwise
      /\ Modular => call.fn = "modtst" /\ ~Down /\ ~Stepwise
      /\ Stepwise => ~Down /\ ~Modular
      /\ call.fn = "block_move" => ~Down /\ ~Modular /\ ~Stepwise
      /\ call.fn = "movinvr" => Stepwise
  BY <1>1, Kinds
<1>3. start \in 0 .. Space - 1 /\ end \in 0 .. Space - 1 /\ p \in Nat /\ start < end
  <2>1. /\ start \in 0 .. Space - 1 /\ end \in 0 .. Space - 1 /\ start + ModSz < end
    BY <1>1, Here
  <2>2. p \in Nat
    BY <1>1 DEF Shape
  <2> QED
    BY <2>1, <2>2, Sizes
<1>4. Stepwise =>
        start <= p /\ p < ChunkEnd /\ ChunkEnd <= end /\ LastChunk = (ChunkEnd = end)
  BY <1>1, SomethingUp
<1>5. Modular =>
        /\ start <= p /\ p < ChunkEnd /\ ChunkEnd <= end /\ start < ChunkEnd
        /\ LastChunk = (ChunkEnd = end)
        /\ LastChunk \/ Whole(ChunkEnd - start)
  BY <1>1, SomethingMod
<1>6. Down =>
        /\ start <= ChunkEnd /\ ChunkEnd < p /\ p < end
        /\ LastChunk = (ChunkEnd = start)
        /\ LastChunk \/ (end - 1 - ChunkEnd) % Width = 0
  BY <1>1, SomethingDown
<1>7. call.fn = "block_move" =>
        /\ SegmentStart <= p /\ p < ChunkEnd /\ ChunkEnd <= end
        /\ LastChunk = (ChunkEnd = end)
        /\ LastChunk \/ Whole(ChunkEnd - SegmentStart)
        /\ Whole(p - SegmentStart)
        /\ ChunkEnd = p + Spin \/ (ChunkEnd = end /\ end <= p + Spin)
        /\ (ChunkEnd - p) % 2 = 0
  BY <1>1, SomethingBlock
<1>8. SegmentStart \in Nat /\ start <= SegmentStart
  BY <1>1, StartHere
<1>9. ChunkEnd \in 0 .. Space - 1
  <2>1. ChunkEnd \in Int
    <3>1. pe \in Int /\ Spin \in Int
      BY <1>1, Sizes DEF Shape
    <3>2. (pe - Spin) % Space \in Int /\ (pe + Spin) % Space \in Int
      BY <3>1, Sizes, DivMod
    <3> QED
      BY <1>3, <3>2 DEF ChunkEnd
  <2> QED
    BY <1>2, <1>3, <1>4, <1>5, <1>6, <1>7, <1>8, <2>1, Sizes
<1>10. ~Nothing
  BY <1>2, <1>3, <1>4, <1>9, Sizes, <1>5, <1>6, <1>7 DEF Nothing
<1>11. /\ pc' = "word" /\ pe' = ChunkEnd /\ done' = LastChunk
       /\ UNCHANGED <<trial, calls, loops, j, p, pat, k, mask, mem, reported>>
  BY <1>10 DEF NextChunk, registers
<1>12. /\ call' = call /\ loop' = loop /\ segs' = segs /\ start' = start /\ end' = end
       /\ SegmentStart' = SegmentStart
       /\ (Down' <=> Down) /\ (Modular' <=> Modular) /\ (Stepwise' <=> Stepwise)
       /\ (Good' <=> Good)
  BY <1>11, SameLoop, SameSegment
<1>13. Shape'
  BY <1>1, <1>9, <1>11, <1>12 DEF Shape
<1>14. UpPlace'
  BY <1>4, <1>11, <1>12 DEF UpPlace
<1>15. ModPlace'
  BY <1>1, <1>5, <1>11, <1>12 DEF IInv, Places, ModPlace, Whole
<1>16. DownPlace'
  <2>1. Down => ChunkEnd <= p /\ ChunkEnd < end
    BY <1>3, <1>6, <1>9
  <2> QED
    BY <1>6, <1>11, <1>12, <2>1 DEF DownPlace
<1>17. BlockPlace'
  BY <1>3, <1>7, <1>8, <1>9, <1>11, <1>12 DEF BlockPlace, Whole
<1>18. AddrPlace'
  BY <1>1, <1>11, <1>12 DEF AddrPlace
<1>19. Registers32'
  BY <1>1, <1>11, <1>12 DEF IInv, Marked, Registers32
<1>20. RegistersR' /\ RegistersMod'
  BY <1>1, <1>11, <1>12 DEF IInv, Marked, RegistersR, RegistersMod
<1>21. Filled'
  BY <1>1, <1>11, <1>12 DEF IInv, Dealt, Filled
<1>22. Planted'
  BY <1>11 DEF Planted
<1>23. Blocked'
  <2>1. Blocked
    BY DEF IInv
  <2>2. call.fn = "block_move" /\ loop = "move" => k = 0
    BY <1>1 DEF IInv, Places, BlockPlace
  <2>3. k > 0 => k # 0
    BY <1>1 DEF Shape
  <2> QED
    BY <1>1, <1>11, <1>12, <2>1, <2>2, <2>3 DEF Blocked
<1>24. NoFalseAlarm'
  BY <1>11 DEF IInv, NoFalseAlarm
<1> QED
  BY <1>13, <1>14, <1>15, <1>16, <1>17, <1>18, <1>19, <1>20, <1>21, <1>22, <1>23, <1>24
  DEF IInv, Places, Marked

LEMMA SegmentOrder ==
  ASSUME NEW t \in Trials, NEW i \in 1 .. Len(t.map)
  PROVE  /\ t.map[i].start \in Nat /\ t.map[i].end \in Nat
         /\ t.map[i].start < t.map[i].end /\ t.map[i].end < Space
<1>1. t.map[i].start \in 0 .. Space - 1 /\ t.map[i].end \in 0 .. Space - 1
  BY Segments
<1>2. t.map[i].start + ModSz < t.map[i].end
  BY Segments
<1>3. PICK s \in Nat, e \in Nat :
        s = t.map[i].start /\ e = t.map[i].end /\ s + ModSz < e /\ e < Space
  BY <1>1, <1>2, Sizes
<1>4. s < e
  BY <1>3, Sizes
<1> QED
  BY <1>3, <1>4

(* After a chunk that is not the last there is room for another step. *)
LEMMA ModRoom ==
  ASSUME Shape, start <= pe, pe < end, Whole(pe - start)
  PROVE  pe + ModSz <= end
<1>1. /\ start \in Nat /\ end \in Nat /\ pe \in Nat
      /\ LET last == (end - start) % Spin IN last = 0 \/ last >= ModSz
  <2>1. start \in 0 .. Space - 1 /\ end \in 0 .. Space - 1
    BY Here
  <2>2. pe \in 0 .. Space - 1
    BY DEF Shape
  <2>3. SegmentAssumption(trial.map[j])
    BY Here
  <2> QED
    BY <2>1, <2>2, <2>3, Sizes DEF SegmentAssumption, start, end
<1>2. /\ end - start \in Nat /\ pe - start \in Nat /\ pe - start < end - start
      /\ (end - start) - (pe - start) = end - pe
  BY <1>1
<1>3. end - pe >= Spin \/ (end - pe = (end - start) % Spin /\ (end - start) % Spin # 0)
  <2>1. PICK n \in Nat, x \in Nat :
          n = end - start /\ x = pe - start /\ x < n /\ n - x = end - pe
    BY <1>2
  <2>2. x % Spin = 0
    BY <2>1 DEF Whole
  <2>4. Spin \in Nat \ {0} /\ x < n
    BY <2>1, Sizes
  <2>3. n - x >= Spin \/ (n - x = n % Spin /\ n % Spin # 0)
    BY <2>2, <2>4, WholeLeft
  <2> QED
    BY <2>1, <2>3
<1> QED
  BY <1>1, <1>3, Sizes

(* What lies before the end of a segment lies before the start of the next. *)
LEMMA BeforeNext ==
  ASSUME NEW t \in Trials, NEW i \in 1 .. Len(t.map), i + 1 \in 1 .. Len(t.map)
  PROVE  Before(t, t.map[i + 1].start) = Before(t, t.map[i].end)
<1>1. /\ DOMAIN t.map = 1 .. Len(t.map) /\ Len(t.map) \in Nat
      /\ t.map[i].end \in Nat /\ t.map[i + 1].start \in Nat
      /\ t.map[i].end < t.map[i + 1].start
  BY Segments
<1>2. ASSUME NEW b \in Nat, NEW i2 \in DOMAIN t.map, b \in WordsOf(t, i2),
             b < t.map[i + 1].start
      PROVE  b < t.map[i].end
  <2>1. i2 \in 1 .. Len(t.map)
    BY <1>1
  <2>2. i2 < i + 1
    BY <2>1, <1>2, Ordered, SegmentOrder, <1>1
  <2>3. CASE i2 = i
    BY <1>2, <2>1, <2>3, Ordered
  <2>4. CASE i2 < i
    BY <1>2, <2>1, <2>4, Ordered, SegmentOrder, <1>1
  <2> QED
    BY <2>1, <2>2, <2>3, <2>4
<1>3. WordsBefore(t, t.map[i + 1].start) = WordsBefore(t, t.map[i].end)
  <2>1. ASSUME NEW b, b \in WordsBefore(t, t.map[i + 1].start)
        PROVE  b \in WordsBefore(t, t.map[i].end)
    <3>1. b \in 0 .. t.map[i + 1].start - 1
      BY <2>1 DEF WordsBefore
    <3>2. PICK i2 \in DOMAIN t.map : b \in WordsOf(t, i2)
      BY <2>1 DEF WordsBefore
    <3>3. b \in Nat /\ b < t.map[i + 1].start
      BY <1>1, <3>1
    <3>4. b < t.map[i].end
      BY <1>2, <3>2, <3>3
    <3>5. b \in 0 .. t.map[i].end - 1
      BY <1>1, <3>3, <3>4
    <3> QED
      BY <3>2, <3>5 DEF WordsBefore
  <2>2. ASSUME NEW b, b \in WordsBefore(t, t.map[i].end)
        PROVE  b \in WordsBefore(t, t.map[i + 1].start)
    BY <2>2, <1>1 DEF WordsBefore
  <2> QED
    BY <2>1, <2>2
<1> QED
  BY <1>3 DEF Before

(* The next chunk of the segment *)
(* Between two chunks no word of the loop is dealt with. *)
LEMMA MoreDealt ==
  ASSUME IInv, pc = "tick", pc' = "chunk", ~done, call.fn \notin {"addr_tst1", "block_move"},
         UNCHANGED <<trial, calls, loops, j, p, pe>>,
         NEW i \in 1 .. segs, NEW a \in WordsOf(trial, i),
         Modular => Relevant(call, trial, i, a)
  PROVE  Dealt(a)' <=> Dealt(a)
<1>1. Shape /\ Looping /\ Looping' /\ loop # "sleep"
  BY DEF IInv, Places, AddrPlace, Looping
<1>2. /\ call.fn = "block_move" \/ Modular \/ Down \/ Stepwise
      /\ Down => call.fn \in {"movinv1", "movinv32"} /\ ~Modular /\ ~Stepwise
      /\ Modular => call.fn = "modtst" /\ ~Down /\ ~Stepwise
      /\ Stepwise => ~Down /\ ~Modular
      /\ call.fn = "block_move" => ~Down /\ ~Modular /\ ~Stepwise
      /\ call.fn = "movinvr" => Stepwise
  BY <1>1, Kinds
<1>3. start \in Nat /\ end \in Nat /\ p \in Nat /\ pe \in Nat /\ SegmentStart \in Nat
  <2>1. start \in 0 .. Space - 1 /\ end \in 0 .. Space - 1 /\ SegmentStart \in Nat
    BY <1>1, Here, StartHere
  <2>2. p \in Nat /\ pe \in 0 .. Space - 1
    BY <1>1 DEF Shape
  <2> QED
    BY <2>1, <2>2, Sizes
<1>4. Stepwise => start < pe /\ pe < end /\ p = pe
  <2>1. Stepwise => start < pe /\ pe <= end /\ p = pe /\ pe # end
    BY <1>1 DEF IInv, Places, UpPlace
  <2> QED
    BY <1>3, <2>1
<1>5. Modular =>
        /\ start <= p /\ (p - start) % ModSz = call.off /\ call.off \in 0 .. ModSz - 1
        /\ start < pe /\ pe < end /\ pe <= p /\ p < pe + ModSz /\ Whole(pe - start)
        /\ pe + ModSz <= end
  <2> SUFFICES ASSUME Modular
               PROVE  /\ start <= p /\ (p - start) % ModSz = call.off
                      /\ call.off \in 0 .. ModSz - 1
                      /\ start < pe /\ pe < end /\ pe <= p /\ p < pe + ModSz
                      /\ Whole(pe - start) /\ pe + ModSz <= end
    OBVIOUS
  <2>1. /\ start <= p /\ (p - start) % ModSz = call.off
        /\ start < pe /\ pe <= end /\ pe # end /\ pe <= p /\ p < pe + ModSz
        /\ Whole(pe - start)
    BY <1>1 DEF IInv, Places, ModPlace
  <2>2. start <= pe /\ pe < end
    BY <1>3, <2>1
  <2> QED
    BY <1>1, <1>2, <2>1, <2>2, ModRoom, CallFields
<1>6. Down => /\ start < pe /\ pe < end /\ (end - 1 - pe) % Width = 0 /\ p = pe - 1
  <2>1. Down => /\ start <= pe /\ pe < end /\ pe # start /\ p = pe - 1
                /\ pe = start \/ (end - 1 - pe) % Width = 0
    BY <1>1 DEF IInv, Places, DownPlace
  <2> QED
    BY <1>3, <2>1
<1>8. /\ call' = call /\ loop' = loop /\ segs' = segs /\ start' = start /\ end' = end
      /\ SegmentStart' = SegmentStart
      /\ (Down' <=> Down) /\ (Modular' <=> Modular) /\ (Stepwise' <=> Stepwise)
      /\ (Good' <=> Good)
  BY SameLoop, SameSegment
<1>20. a \in Nat
  BY <1>1, OrderedHere
<1>21. CASE Down
  BY <1>3, <1>6, <1>8, <1>20, <1>21 DEF Dealt
<1>22. CASE Stepwise
  BY <1>2, <1>3, <1>4, <1>8, <1>20, <1>22 DEF Dealt
<1>23. CASE Modular
  <2>2. ASSUME pe <= a, a < p
        PROVE  FALSE
    <3>1. start <= a /\ a < end
      BY <1>3, <1>5, <1>20, <1>23, <2>2, Sizes
    <3>2. i = j
      BY <1>1, <3>1, OrderedHere
    <3>3. (a - start) % ModSz = call.off
      BY <1>2, <1>23, <3>2 DEF Relevant, start
    <3>4. PICK n \in Int, n2 \in Int : n = a - start /\ n2 = p - start
      BY <1>3, <1>20
    <3>5. n % ModSz = n2 % ModSz /\ n < n2
      BY <1>3, <1>5, <1>20, <1>23, <2>2, <3>3, <3>4
    <3>6. n + ModSz <= n2
      BY <3>5, Sizes, StepApart
    <3> QED
      BY <1>3, <1>5, <1>20, <1>23, <2>2, <3>4, <3>6, Sizes
  <2> QED
    BY <1>2, <1>3, <1>5, <1>8, <1>20, <1>23, <2>2 DEF Dealt
<1> QED
  BY <1>2, <1>21, <1>22, <1>23

LEMMA MoreKeeps ==
  ASSUME IInv, pc = "tick", loop # "move", call.fn # "addr_tst1", ~done, pc' = "chunk",
         UNCHANGED <<trial, calls, loops, j, p, pe, done, pat, k, mask, mem, reported>>
  PROVE  IInv'
<1>1. Shape /\ Looping /\ Looping' /\ loop # "sleep"
  BY DEF IInv, Places, AddrPlace, Looping
<1>2. /\ call.fn = "block_move" \/ Modular \/ Down \/ Stepwise
      /\ Down => call.fn \in {"movinv1", "movinv32"} /\ ~Modular /\ ~Stepwise
      /\ Modular => call.fn = "modtst" /\ ~Down /\ ~Stepwise
      /\ Stepwise => ~Down /\ ~Modular
      /\ call.fn = "block_move" => ~Down /\ ~Modular /\ ~Stepwise
      /\ call.fn = "movinvr" => Stepwise
  BY <1>1, Kinds
<1>3. start \in Nat /\ end \in Nat /\ p \in Nat /\ pe \in Nat /\ SegmentStart \in Nat
  <2>1. start \in 0 .. Space - 1 /\ end \in 0 .. Space - 1 /\ SegmentStart \in Nat
    BY <1>1, Here, StartHere
  <2>2. p \in Nat /\ pe \in 0 .. Space - 1
    BY <1>1 DEF Shape
  <2> QED
    BY <2>1, <2>2, Sizes
<1>4. Stepwise => start < pe /\ pe < end /\ p = pe
  <2>1. Stepwise => start < pe /\ pe <= end /\ p = pe /\ pe # end
    BY <1>1 DEF IInv, Places, UpPlace
  <2> QED
    BY <1>3, <2>1
<1>5. Modular =>
        /\ start <= p /\ (p - start) % ModSz = call.off /\ call.off \in 0 .. ModSz - 1
        /\ start < pe /\ pe < end /\ pe <= p /\ p < pe + ModSz /\ Whole(pe - start)
        /\ pe + ModSz <= end
  <2> SUFFICES ASSUME Modular
               PROVE  /\ start <= p /\ (p - start) % ModSz = call.off
                      /\ call.off \in 0 .. ModSz - 1
                      /\ start < pe /\ pe < end /\ pe <= p /\ p < pe + ModSz
                      /\ Whole(pe - start) /\ pe + ModSz <= end
    OBVIOUS
  <2>1. /\ start <= p /\ (p - start) % ModSz = call.off
        /\ start < pe /\ pe <= end /\ pe # end /\ pe <= p /\ p < pe + ModSz
        /\ Whole(pe - start)
    BY <1>1 DEF IInv, Places, ModPlace
  <2>2. start <= pe /\ pe < end
    BY <1>3, <2>1
  <2> QED
    BY <1>1, <1>2, <2>1, <2>2, ModRoom, CallFields
<1>6. Down => /\ start < pe /\ pe < end /\ (end - 1 - pe) % Width = 0 /\ p = pe - 1
  <2>1. Down => /\ start <= pe /\ pe < end /\ pe # start /\ p = pe - 1
                /\ pe = start \/ (end - 1 - pe) % Width = 0
    BY <1>1 DEF IInv, Places, DownPlace
  <2> QED
    BY <1>3, <2>1
<1>7. call.fn = "block_move" =>
        /\ SegmentStart < pe /\ p = pe /\ pe < end /\ Whole(pe - SegmentStart)
  <2>1. call.fn = "block_move" =>
          /\ SegmentStart < pe /\ p = pe /\ pe <= end /\ pe # end
          /\ Whole(pe - SegmentStart)
    BY DEF IInv, Places, BlockPlace
  <2> QED
    BY <1>3, <2>1
<1>8. /\ call' = call /\ loop' = loop /\ segs' = segs /\ start' = start /\ end' = end
      /\ SegmentStart' = SegmentStart
      /\ (Down' <=> Down) /\ (Modular' <=> Modular) /\ (Stepwise' <=> Stepwise)
      /\ (Good' <=> Good)
  BY SameLoop, SameSegment
<1>9. Shape'
  BY <1>1, <1>8 DEF Shape
<1>10. UpPlace'
  BY <1>3, <1>4, <1>8 DEF UpPlace
<1>11. ModPlace'
  BY <1>3, <1>5, <1>8 DEF ModPlace, Whole
<1>12. DownPlace'
  BY <1>3, <1>6, <1>8 DEF DownPlace
<1>13. BlockPlace'
  BY <1>3, <1>7, <1>8 DEF BlockPlace, Whole
<1>14. AddrPlace'
  BY <1>1, <1>8 DEF AddrPlace
<1>15. Registers32'
  BY <1>6, <1>1, <1>8 DEF IInv, Marked, Registers32
<1>16. RegistersR' /\ RegistersMod'
  BY <1>1, <1>8 DEF IInv, Marked, RegistersR, RegistersMod
<1>17. Filled'
  <2> SUFFICES ASSUME Good, call.fn \notin {"addr_tst1", "block_move"},
                      NEW i \in 1 .. segs, NEW a \in WordsOf(trial, i),
                      Relevant(call, trial, i, a)
               PROVE  /\ Dealt(a)' => mem[a] = Left(loop, call, trial, i, a)
                      /\ ~Dealt(a)' /\ loop \notin Filling =>
                           mem[a] = Found(loop, call, trial, i, a)
    BY <1>1, <1>8 DEF Filled
  <2>1. /\ Dealt(a) => mem[a] = Left(loop, call, trial, i, a)
        /\ ~Dealt(a) /\ loop \notin Filling => mem[a] = Found(loop, call, trial, i, a)
    BY <1>1 DEF IInv, Filled
  <2>2. a \in Nat
    BY <1>1, OrderedHere
  <2>3. Dealt(a)' <=> Dealt(a)
    BY MoreDealt
  <2> QED
    BY <2>1, <2>3
<1>18. Planted'
  BY DEF Planted
<1>19. Blocked'
  BY <1>1, <1>7, <1>8 DEF IInv, Blocked
<1>20. NoFalseAlarm'
  BY DEF IInv, NoFalseAlarm
<1> QED
  BY <1>9, <1>10, <1>11, <1>12, <1>13, <1>14, <1>15, <1>16, <1>17, <1>18, <1>19, <1>20
  DEF IInv, Places, Marked

(* Between two segments no word is dealt with. *)
LEMMA OverDealt ==
  ASSUME IInv, pc = "tick", call.fn \notin {"addr_tst1", "block_move"}, done, NextSegment,
         UNCHANGED <<trial, calls, loops, pe>>,
         NEW i \in 1 .. segs, NEW a \in WordsOf(trial, i)
  PROVE  Dealt(a)' <=> Dealt(a)
<1>1. /\ Shape /\ Looping /\ Looping' /\ loop # "sleep"
      /\ pc' \in {"over", "segment"}
  BY DEF IInv, Places, AddrPlace, Looping, NextSegment
<1>2. /\ call.fn = "block_move" \/ Modular \/ Down \/ Stepwise
      /\ Down => call.fn \in {"movinv1", "movinv32"} /\ ~Modular /\ ~Stepwise
      /\ Modular => call.fn = "modtst" /\ ~Down /\ ~Stepwise
      /\ Stepwise => ~Down /\ ~Modular
      /\ call.fn = "block_move" => ~Down /\ ~Modular /\ ~Stepwise
      /\ call.fn = "movinvr" => Stepwise
  BY <1>1, Kinds
<1>3. /\ start \in Nat /\ end \in Nat /\ p \in Nat /\ pe \in Nat /\ start < end
      /\ trial \in Trials /\ segs = Len(trial.map) /\ segs \in Nat /\ j \in 1 .. segs
  <2>1. start \in 0 .. Space - 1 /\ end \in 0 .. Space - 1 /\ start + ModSz < end
    BY <1>1, Here
  <2>2. p \in Nat /\ pe \in 0 .. Space - 1 /\ j \in 1 .. segs /\ trial \in Trials
    BY <1>1 DEF Shape
  <2>3. segs \in Nat
    BY <1>1, Here
  <2> QED
    BY <2>1, <2>2, <2>3, Sizes DEF segs
<1>4. Stepwise => pe = end /\ p = end
  BY <1>1 DEF IInv, Places, UpPlace
<1>5. Modular => pe = end
  BY <1>1 DEF IInv, Places, ModPlace
<1>6. Down => pe = start
  BY <1>1 DEF IInv, Places, DownPlace
<1>8. /\ call' = call /\ loop' = loop /\ segs' = segs
      /\ (Down' <=> Down) /\ (Modular' <=> Modular) /\ (Stepwise' <=> Stepwise)
      /\ (Good' <=> Good)
  BY SameLoop
<1>9. \/ pc' = "over" /\ j' = j /\ j = (IF Down THEN 1 ELSE segs)
      \/ /\ pc' = "segment" /\ j' = (IF Down THEN j - 1 ELSE j + 1)
         /\ j' \in 1 .. segs
  BY <1>3 DEF NextSegment
<1>20. a \in Nat
  BY <1>1, OrderedHere
<1>21. CASE Down
  <2>1. Dealt(a) <=> a >= start
    BY <1>6, <1>21 DEF Dealt
  <2>2. a >= start <=> i >= j
    BY <1>1, <1>3, <1>20, OrderedHere
  <2>3. CASE pc' = "over"
    BY <1>3, <1>9, <1>21, <2>1, <2>2, <2>3 DEF Dealt
  <2>4. CASE pc' = "segment"
    <3>1. j' = j - 1 /\ j' \in 1 .. segs
      BY <1>9, <1>21, <2>4
    <3>2. end' = trial.map[j'].end
      BY DEF end
    <3>3. i < j' => a < end'
      <4>1. i < j' => a < trial.map[j'].start
        BY <1>3, <3>1, Ordered
      <4>2. trial.map[j'].start < trial.map[j'].end /\ trial.map[j'].start \in Nat
            /\ trial.map[j'].end \in Nat
        BY <1>3, <3>1, SegmentOrder
      <4> QED
        BY <1>20, <3>2, <4>1, <4>2
    <3>4. i = j' => a < end'
      BY <1>3, <3>1, <3>2, Ordered
    <3>5. j' < i => end' <= a
      BY <1>3, <3>1, <3>2, Ordered
    <3>6. end' \in Nat
      BY <1>3, <3>1, <3>2, SegmentOrder
    <3>7. a >= end' <=> i >= j
      BY <1>3, <1>20, <3>1, <3>3, <3>4, <3>5, <3>6
    <3> QED
      BY <1>8, <1>21, <2>1, <2>2, <2>4, <3>7 DEF Dealt
  <2> QED
    BY <1>1, <2>3, <2>4
<1>22. CASE ~Down
  <2>1. Dealt(a) <=> a < end
    BY <1>2, <1>4, <1>5, <1>22 DEF Dealt
  <2>2. a < end <=> i <= j
    <3>1. i < j => a < start
      BY <1>1, OrderedHere
    <3>2. i = j => a < end
      BY <1>1, OrderedHere
    <3>3. j < i => end <= a
      BY <1>1, OrderedHere
    <3> QED
      BY <1>3, <1>20, <3>1, <3>2, <3>3
  <2>3. CASE pc' = "over"
    BY <1>3, <1>9, <1>22, <2>1, <2>2, <2>3 DEF Dealt
  <2>4. CASE pc' = "segment"
    <3>1. j' = j + 1 /\ j' \in 1 .. segs
      BY <1>9, <1>22, <2>4
    <3>2. start' = trial.map[j'].start
      BY DEF start
    <3>3. i < j' => a < start'
      BY <1>3, <3>1, <3>2, Ordered
    <3>4. i = j' => start' <= a
      BY <1>3, <3>1, <3>2, Ordered
    <3>5. j' < i => start' <= a
      <4>1. j' < i => trial.map[j'].end <= a
        BY <1>3, <3>1, Ordered
      <4>2. trial.map[j'].start < trial.map[j'].end /\ trial.map[j'].start \in Nat
            /\ trial.map[j'].end \in Nat
        BY <1>3, <3>1, SegmentOrder
      <4> QED
        BY <1>20, <3>2, <4>1, <4>2
    <3>6. start' \in Nat
      BY <1>3, <3>1, <3>2, SegmentOrder
    <3>7. a < start' <=> i <= j
      BY <1>3, <1>20, <3>1, <3>3, <3>4, <3>5, <3>6
    <3> QED
      BY <1>8, <1>22, <2>1, <2>2, <2>4, <3>7 DEF Dealt
  <2> QED
    BY <1>1, <2>3, <2>4
<1> QED
  BY <1>21, <1>22

LEMMA SegmentOverKeeps ==
  ASSUME IInv, pc = "tick", call.fn # "addr_tst1", done, NextSegment,
         p' \in Nat, k' \in Nat, loop # "move" => k' = k,
         UNCHANGED <<trial, calls, loops, pe, pat, mask, mem, reported>>
  PROVE  IInv'
<1>1. /\ Shape /\ Looping /\ Looping' /\ loop # "sleep"
      /\ pc' \in {"over", "segment"}
  BY DEF IInv, Places, AddrPlace, Looping, NextSegment
<1>2. /\ call.fn = "block_move" \/ Modular \/ Down \/ Stepwise
      /\ Down => call.fn \in {"movinv1", "movinv32"} /\ ~Modular /\ ~Stepwise
      /\ Modular => call.fn = "modtst" /\ ~Down /\ ~Stepwise
      /\ Stepwise => ~Down /\ ~Modular
      /\ call.fn = "block_move" => ~Down /\ ~Modular /\ ~Stepwise
      /\ call.fn = "movinvr" => Stepwise
  BY <1>1, Kinds
<1>3. /\ start \in Nat /\ end \in Nat /\ p \in Nat /\ pe \in Nat /\ start < end
      /\ trial \in Trials /\ segs = Len(trial.map) /\ segs \in Nat /\ j \in 1 .. segs
  <2>1. start \in 0 .. Space - 1 /\ end \in 0 .. Space - 1 /\ start + ModSz < end
    BY <1>1, Here
  <2>2. p \in Nat /\ pe \in 0 .. Space - 1 /\ j \in 1 .. segs /\ trial \in Trials
    BY <1>1 DEF Shape
  <2>3. segs \in Nat
    BY <1>1, Here
  <2> QED
    BY <2>1, <2>2, <2>3, Sizes DEF segs
<1>4. Stepwise => pe = end /\ p = end
  BY <1>1 DEF IInv, Places, UpPlace
<1>5. Modular => pe = end
  BY <1>1 DEF IInv, Places, ModPlace
<1>6. Down => pe = start
  BY <1>1 DEF IInv, Places, DownPlace
<1>7. call.fn = "block_move" => pe = end
  BY DEF IInv, Places, BlockPlace
<1>8. /\ call' = call /\ loop' = loop /\ segs' = segs
      /\ (Down' <=> Down) /\ (Modular' <=> Modular) /\ (Stepwise' <=> Stepwise)
      /\ (Good' <=> Good)
  BY SameLoop
<1>9. \/ pc' = "over" /\ j' = j /\ j = (IF Down THEN 1 ELSE segs)
      \/ /\ pc' = "segment" /\ j' = (IF Down THEN j - 1 ELSE j + 1)
         /\ j' \in 1 .. segs
  BY <1>3 DEF NextSegment
<1>10. Shape'
  BY <1>1, <1>3, <1>8, <1>9 DEF Shape
<1>11. Places'
  BY <1>1, <1>8 DEF Places, UpPlace, ModPlace, DownPlace, BlockPlace, AddrPlace
<1>12. Registers32'
  <2>1. ASSUME call.fn = "movinv32", loop = "up"
        PROVE  k' = call.off
    <3>1. ~Down /\ Stepwise
      BY <1>2, <2>1 DEF Down, Modular
    <3>2. k = (call.off + (p - start)) % Width /\ k' = k
      BY <1>1, <2>1, <3>1 DEF IInv, Marked, Registers32
    <3>3. (end - start) % Width = 0 /\ call.off \in 0 .. Width - 1
      BY <1>1, <2>1, Here, CallFields DEF Bits
    <3>4. PICK n \in Int, off \in Int : n = end - start /\ off = call.off
      BY <1>3, <3>3
    <3>5. (off + n) % Width = off % Width
      BY <3>3, <3>4, Sizes, ModOfMultiple
    <3>6. call.off % Width = call.off
      BY <3>3, Sizes, ModSmall
    <3> QED
      BY <1>4, <3>1, <3>2, <3>4, <3>5, <3>6
  <2>2. ASSUME call.fn = "movinv32", Down
        PROVE  pat' = Rol(call.lb, call.off - 1)
    BY <1>1, <2>2, CallFields, <1>3, <1>6 DEF IInv, Marked, Registers32, Bits
  <2> QED
    BY <1>1, <1>8, <2>1, <2>2 DEF Registers32
<1>13. RegistersR'
  <2> SUFFICES ASSUME call.fn = "movinvr", pc' = "segment"
               PROVE  k' = Before(trial, start')
    BY <1>1, <1>8 DEF RegistersR
  <2>1. Stepwise /\ loop # "move" /\ ~Down
    BY <1>1, <1>2, LoopNow DEF LoopTable
  <2>2. k' = Before(trial, end)
    BY <1>1, <1>4, <2>1 DEF IInv, Marked, RegistersR
  <2>3. j' = j + 1 /\ j + 1 \in 1 .. Len(trial.map)
    BY <1>3, <1>9, <2>1
  <2>4. start' = trial.map[j + 1].start
    BY <2>3 DEF start
  <2> QED
    BY <1>3, <2>2, <2>3, <2>4, BeforeNext DEF end
<1>14. RegistersMod'
  BY <1>1 DEF RegistersMod
<1>15. Filled'
  <2> SUFFICES ASSUME Good, call.fn \notin {"addr_tst1", "block_move"},
                      NEW i \in 1 .. segs, NEW a \in WordsOf(trial, i),
                      Relevant(call, trial, i, a)
               PROVE  /\ Dealt(a)' => mem[a] = Left(loop, call, trial, i, a)
                      /\ ~Dealt(a)' /\ loop \notin Filling =>
                           mem[a] = Found(loop, call, trial, i, a)
    BY <1>1, <1>8 DEF Filled
  <2>1. /\ Dealt(a) => mem[a] = Left(loop, call, trial, i, a)
        /\ ~Dealt(a) /\ loop \notin Filling => mem[a] = Found(loop, call, trial, i, a)
    BY <1>1 DEF IInv, Filled
  <2>2. a \in Nat
    BY <1>1, OrderedHere
  <2>3. Dealt(a)' <=> Dealt(a)
    BY OverDealt
  <2> QED
    BY <2>1, <2>3
<1>16. Planted'
  BY <1>1 DEF Planted
<1>17. Blocked'
  <2> SUFFICES ASSUME Good, call.fn = "block_move"
               PROVE  Blocked'
    BY <1>8 DEF Blocked
  <2>1. /\ loop \in {"blocks", "move", "pairs"} /\ ~Down
        /\ \/ pc' = "over" /\ j = segs
           \/ pc' = "segment" /\ j' = j + 1 /\ j' \in 1 .. segs
    BY <1>1, <1>2, <1>9, LoopNow DEF LoopTable
  <2>2. ASSUME NEW i \in 1 .. segs, i <= j \/ loop # "blocks",
               NEW c \in FirstOf(trial, i) .. trial.map[i].end - 1,
               Whole(c - FirstOf(trial, i))
        PROVE  LowerPaired(mem, trial, i, c)
    <3>1. i < j \/ (i = j /\ c < pe) \/ loop # "blocks"
      <4>1. CASE i = j
        BY <1>7, <1>3, SegmentOrder, Sizes, <4>1 DEF FirstOf, end
      <4> QED
        BY <1>3, <2>2, <4>1
    <3> QED
      BY <1>1, <2>2, <3>1 DEF IInv, Blocked
  <2>3. ASSUME NEW i \in 1 .. segs, loop = "pairs" \/ (loop = "move" /\ i <= j)
        PROVE  Paired(mem, FirstOf(trial, i), FirstOf(trial, i), trial.map[i].end)
    BY <1>7, <1>1, <1>3, <2>3 DEF IInv, Places, BlockPlace, end, Blocked
  <2>4. CASE pc' = "over"
    BY <1>3, <2>1, <2>4, <1>8, <2>2, <2>3 DEF Blocked
  <2>5. CASE pc' = "segment"
    BY <1>3, <2>1, <2>5, <1>8, <2>2, <2>3 DEF Blocked
  <2> QED
    BY <1>1, <2>4, <2>5
<1>18. NoFalseAlarm'
  BY DEF IInv, NoFalseAlarm
<1> QED
  BY <1>10, <1>11, <1>12, <1>13, <1>14, <1>15, <1>16, <1>17, <1>18 DEF IInv, Marked

LEMMA TickChunkKeeps ==
  ASSUME IInv, TickChunk
  PROVE  IInv'
BY DoneKeeps, SegmentOverKeeps, MoreKeeps
DEF TickChunk, Tick, registers, IInv, Shape, pointers

-----------------------------------------------------------------------------
(* From loop to loop and from call to call *)

LEMMA NoneBefore ==
  ASSUME NEW t \in Trials
  PROVE  Before(t, t.map[1].start) = 0
<1>1. WordsBefore(t, t.map[1].start) = {}
  <2> SUFFICES ASSUME NEW b, b \in WordsBefore(t, t.map[1].start)
               PROVE  FALSE
    OBVIOUS
  <2>1. DOMAIN t.map = 1 .. Len(t.map) /\ Len(t.map) \in Nat \ {0}
    BY Segments
  <2>2. PICK i \in 1 .. Len(t.map) : b \in WordsOf(t, i) /\ b \in 0 .. t.map[1].start - 1
    BY <2>1 DEF WordsBefore
  <2>3. 1 \in 1 .. Len(t.map)
    BY <2>1
  <2>4. t.map[1].start \in Nat /\ t.map[i].start \in Nat
        /\ t.map[1].end \in Nat /\ t.map[1].start < t.map[1].end
    BY <2>3, SegmentOrder
  <2>5. i = 1 => t.map[1].start <= b
    BY <2>2, Ordered
  <2>6. 1 < i => t.map[1].end <= b
    BY <2>2, <2>3, Ordered
  <2> QED
    BY <2>1, <2>2, <2>4, <2>5, <2>6
<1> QED
  BY <1>1, FS_EmptySet DEF Before

(* What a loop leaves is what the one that follows it finds. *)
LEMMA LeftIsFound ==
  ASSUME NEW fn \in Fns \ {"addr_tst1", "block_move"}, NEW l, NEW l2,
         <<l, l2>> \in Following(fn), NEW c, NEW t, NEW i, NEW a
  PROVE  Left(l, c, t, i, a) = Found(l2, c, t, i, a)
BY DEF Following, Left, Found, Fns

LEMMA TailIs ==
  ASSUME NEW S, NEW s \in Seq(S), s # <<>>, Len(s) # 1
  PROVE  /\ Tail(s) \in Seq(S) /\ Len(Tail(s)) = Len(s) - 1 /\ Tail(s) # <<>>
         /\ Len(s) - 1 >= 1 /\ 1 \in 1 .. Len(s) - 1
         /\ Tail(s)[1] = s[2] /\ Head(Tail(s)) = s[2]
<1>a. Len(s) \in Nat \ {0}
  OBVIOUS
<1>0. PICK n \in Nat : n = Len(s) /\ n # 0 /\ n # 1
  BY <1>a, Zenon
<1>1. Len(s) \in Nat
  BY <1>0
<1>2. Len(s) - 1 >= 1 /\ 1 \in 1 .. Len(s) - 1
  <2>1. n - 1 >= 1 /\ 1 \in 1 .. n - 1
    BY <1>0
  <2> QED
    BY <1>0, <2>1, Zenon
<1>3. PICK u : u = Tail(s)
  OBVIOUS
<1>8. u \in Seq(S)
  BY <1>3
<1>9. Len(u) = Len(s) - 1
  BY <1>3
<1>4. \A i \in 1 .. Len(s) - 1 : Tail(s)[i] = s[i + 1]
  BY <1>1
<1>5. u[1] = s[2]
  <2>1. Tail(s)[1] = s[1 + 1]
    BY <1>2, <1>4
  <2>2. 1 + 1 = 2
    OBVIOUS
  <2> QED
    BY <1>3, <2>1, <2>2, Zenon
<1>6. u # <<>>
  BY <1>0, <1>9
<1>7. Head(u) = u[1]
  BY <1>6
<1> QED
  BY <1>2, <1>3, <1>5, <1>6, <1>7, <1>8, <1>9

LEMMA LoopOverKeeps ==
  ASSUME IInv, LoopOver
  PROVE  IInv'
<1>1. /\ Shape /\ Looping /\ pc = "over" /\ loops' = Tail(loops)
      /\ IF Len(loops) = 1 THEN pc' = "call" /\ UNCHANGED j
         ELSE pc' = "segment" /\ j' = IF loops[2] = "down" THEN segs ELSE 1
      /\ pat' = (IF call.fn = "movinv32" /\ loop = "up" THEN BackUp[1] ELSE pat)
      /\ call.fn = "movinv32" /\ loop = "up" => k' = BackUp[2]
      /\ call.fn = "movinvr" => k' = 0
      /\ ~(call.fn = "movinv32" /\ loop = "up") /\ call.fn # "movinvr" => k' = k
      /\ UNCHANGED <<trial, calls, p, pe, mask, mem, reported>>
  BY DEF LoopOver, IInv, Looping
<1>2. /\ call' = call /\ segs' = segs /\ (Good' <=> Good)
  BY <1>1 DEF call, segs, Good
<1>3. /\ trial \in Trials /\ segs = Len(trial.map) /\ segs \in Nat \ {0}
      /\ 1 \in 1 .. segs /\ segs \in 1 .. segs /\ j \in 1 .. segs
  BY <1>1, Here DEF Shape, segs
<1>4. call.fn \in Fns /\ call.fn = Fn(trial.pat) /\ loops \in LoopsOf(call.fn)
      /\ loops # <<>>
  BY <1>1, CallNow DEF Shape
<1>5. /\ loops \in Seq(LoopNames(call.fn)) /\ Len(loops) \in Nat \ {0} /\ loop = loops[1]
      /\ \A i \in 1 .. Len(loops) - 1 : <<loops[i], loops[i + 1]>> \in Following(call.fn)
  BY <1>4 DEF LoopsOf, loop
<1>6. loops' \in LoopsOf(call.fn)
  <2>1. /\ loops' \in Seq(LoopNames(call.fn)) /\ Len(loops') = Len(loops) - 1
        /\ \A i \in 1 .. Len(loops') : loops'[i] = loops[i + 1]
    BY <1>1, <1>5
  <2>2. ASSUME NEW i \in 1 .. Len(loops') - 1
        PROVE  <<loops'[i], loops'[i + 1]>> \in Following(call.fn)
    <3>1. i \in 1 .. Len(loops') /\ i + 1 \in 1 .. Len(loops') /\ i + 1 \in 1 .. Len(loops) - 1
      BY <1>5, <2>1
    <3>2. loops'[i] = loops[i + 1] /\ loops'[i + 1] = loops[(i + 1) + 1]
      BY <2>1, <3>1
    <3>3. <<loops[i + 1], loops[(i + 1) + 1]>> \in Following(call.fn)
      BY <1>5, <3>1
    <3> QED
      BY <3>2, <3>3
  <2> QED
    BY <2>1, <2>2 DEF LoopsOf
<1>7. ASSUME pc' = "segment"
      PROVE  /\ Len(loops) # 1 /\ loops' # <<>> /\ loop' = loops[2]
             /\ <<loop, loop'>> \in Following(call.fn)
             /\ j' = IF loop' = "down" THEN segs ELSE 1
  BY <1>1, <1>7, <1>4, <1>5, TailIs DEF loop
<1>8. pc' \in {"call", "segment"} /\ (Looping' <=> pc' = "segment")
  BY <1>1 DEF Looping
<1>9. /\ k \in Nat /\ mask \in Nat /\ pat \in SUBSET Bits /\ p \in Nat /\ pe \in 0 .. Space - 1
  BY <1>1 DEF Shape
<1>10. (k - 1) % Width \in Nat
  BY <1>9, Sizes, DivMod
<1>11. pat' \subseteq Bits
  BY <1>1, CallFields, <1>10, RolType, <1>9 DEF BackUp
<1>12. k' \in Nat
  BY <1>1, <1>10, <1>9 DEF BackUp
<1>13. Shape'
  BY <1>1, <1>3, <1>7, <1>8, <1>4, <1>6, <1>2, <1>9, <1>11, <1>12 DEF Shape
<1>14. Places'
  BY <1>8 DEF Places, UpPlace, ModPlace, DownPlace, BlockPlace, AddrPlace
<1>15. Registers32'
  <2> SUFFICES ASSUME call.fn = "movinv32", pc' = "segment", loop' = "down"
               PROVE  pat' = Rol(call.lb, call.off - 1)
    BY <1>2, <1>8 DEF Registers32, Down
  <2>1. loop = "up"
    BY <1>7 DEF Following
  <2>2. k = call.off
    BY <1>1, <2>1 DEF IInv, Marked, Registers32
  <2>3. pat' = Rol(call.lb, (call.off - 1) % Width)
    BY <1>1, <2>1, <2>2 DEF BackUp
  <2>4. call.lb \in SUBSET Bits /\ call.off - 1 \in Int
    BY <1>1, CallFields DEF Bits
  <2> QED
    BY <2>3, <2>4, RolOfMod
<1>16. RegistersR'
  <2>1. ASSUME call.fn = "movinvr", pc' = "segment"
        PROVE  k' = Before(trial, start')
    BY <1>7, <2>1, <1>1, <1>3, NoneBefore DEF Following, start
  <2> QED
    BY <1>1, <1>2, <1>8, <2>1 DEF RegistersR
<1>17. RegistersMod'
  BY <1>8 DEF RegistersMod
<1>18. Filled'
  <2> SUFFICES ASSUME Good, call.fn \notin {"addr_tst1", "block_move"}, pc' = "segment",
                      NEW i \in 1 .. segs, NEW a \in WordsOf(trial, i),
                      Relevant(call, trial, i, a)
               PROVE  /\ ~Dealt(a)'
                      /\ mem[a] = Found(loop', call, trial, i, a)
    BY <1>1, <1>2, <1>8 DEF Filled
  <2>1. mem[a] = Left(loop, call, trial, i, a)
    BY <1>1 DEF IInv, Filled, Dealt
  <2>2. mem[a] = Found(loop', call, trial, i, a)
    BY <1>4, <1>7, <2>1, LeftIsFound
  <2>3. a \in Nat /\ trial.map[i].start <= a /\ a < trial.map[i].end
    BY <1>3, Ordered
  <2>4. CASE loop' = "down"
    <3>1. end' = trial.map[segs].end
      BY <1>1, <1>7, <2>4 DEF end
    <3>2. i < segs => a < trial.map[segs].start
      BY <1>3, Ordered
    <3>3. /\ trial.map[segs].start \in Nat /\ trial.map[segs].end \in Nat
          /\ trial.map[segs].start < trial.map[segs].end
      BY <1>3, SegmentOrder
    <3>4. ~(a >= end')
      BY <1>3, <2>3, <3>1, <3>2, <3>3
    <3> QED
      BY <2>2, <2>4, <3>4 DEF Dealt, Down
  <2>5. CASE loop' # "down"
    <3>1. start' = trial.map[1].start
      BY <1>1, <1>7, <2>5 DEF start
    <3>2. 1 < i => trial.map[1].end <= a
      BY <1>3, Ordered
    <3>3. /\ trial.map[1].start \in Nat /\ trial.map[1].end \in Nat
          /\ trial.map[1].start < trial.map[1].end
      BY <1>3, SegmentOrder
    <3>4. ~(a < start')
      BY <1>3, <2>3, <3>1, <3>2, <3>3
    <3> QED
      BY <2>2, <2>5, <3>4 DEF Dealt, Down
  <2> QED
    BY <2>4, <2>5
<1>19. Planted'
  BY <1>8 DEF Planted
<1>20. Blocked'
  <2> SUFFICES ASSUME Good, call.fn = "block_move", pc' = "segment"
               PROVE  Blocked'
    BY <1>2, <1>8 DEF Blocked
  <2>1. <<loop, loop'>> \in {<<"blocks", "move">>, <<"move", "pairs">>}
    BY <1>7 DEF Following
  <2>2. j' = 1
    BY <1>7, <2>1
  <2>3. \A i \in 1 .. segs : ~(i < j')
    BY <1>3, <2>2
  <2>4. \A i \in 1 .. segs :
          /\ \A c \in FirstOf(trial, i) .. trial.map[i].end - 1 :
               Whole(c - FirstOf(trial, i)) => LowerPaired(mem, trial, i, c)
          /\ loop = "move" =>
               Paired(mem, FirstOf(trial, i), FirstOf(trial, i), trial.map[i].end)
    BY <1>1 DEF IInv, Blocked
  <2> QED
    BY <1>1, <1>2, <2>1, <2>3, <2>4 DEF Blocked
<1>21. NoFalseAlarm'
  BY <1>1 DEF IInv, NoFalseAlarm
<1> QED
  BY <1>13, <1>14, <1>15, <1>16, <1>17, <1>18, <1>19, <1>20, <1>21 DEF IInv, Marked

(* A call begins with a loop that does not look at what is there. *)
LEMMA FirstIs ==
  ASSUME NEW fn \in Fns
  PROVE  /\ First(fn) # "down"
         /\ fn \notin {"addr_tst1", "block_move"} => First(fn) \in Filling
         /\ fn = "block_move" => First(fn) = "blocks"
BY DEF Fns, First, Filling

(* Where a call begins *)
Begun ==
  /\ pc = "segment" /\ j = 1 /\ trial \in Trials
  /\ calls \in Seq(CallsOf(Fn(trial.pat))) /\ calls # <<>> /\ loops = Loops(call)
  /\ Fn(trial.pat) = "movinvr" => k = 0
  /\ p \in Nat /\ pe \in 0 .. Space - 1 /\ k \in Nat /\ mask \in Nat
  /\ pat \subseteq Bits /\ mem = [a \in 0 .. Space - 1 |-> mem[a]]
  /\ NoFalseAlarm

LEMMA BegunHolds == Begun => IInv
<1> SUFFICES ASSUME Begun PROVE IInv
  OBVIOUS
<1> USE DEF Begun
<1>1. /\ trial \in Trials /\ segs = Len(trial.map) /\ segs \in Nat \ {0}
      /\ 1 \in 1 .. segs /\ j \in 1 .. segs /\ Looping
  BY Segments DEF segs, Looping
<1>2. call \in CallsOf(Fn(trial.pat))
  BY DEF call
<1>3. Fn(trial.pat) \in Fns
  BY <1>1, FnIn
<1>4. /\ call.fn = Fn(trial.pat)
      /\ loops \in LoopsOf(Fn(trial.pat)) /\ loops # <<>>
      /\ Head(loops) = First(Fn(trial.pat))
  BY <1>2, <1>3, LoopsIn DEF Fns
<1>5. /\ loop # "down" /\ ~Down
      /\ call.fn \notin {"addr_tst1", "block_move"} => loop \in Filling
      /\ call.fn = "block_move" => loop = "blocks"
  BY <1>3, <1>4, FirstIs DEF loop, Down
<1>6. Shape
  BY <1>1, <1>4 DEF Shape
<1>7. Places
  BY DEF Places, UpPlace, ModPlace, DownPlace, BlockPlace, AddrPlace
<1>8. Marked
  BY <1>1, NoneBefore, <1>4, <1>5
  DEF start, RegistersR, Marked, Registers32, RegistersMod
<1>9. Filled
  <2> SUFFICES ASSUME (call.fn \notin {"addr_tst1", "block_move"}),
                      NEW i \in 1 .. segs, NEW a \in WordsOf(trial, i)
               PROVE  ~Dealt(a) /\ loop \in Filling
    BY DEF Filled
  <2>1. start = trial.map[1].start
    BY DEF start
  <2>2. a \in Nat /\ trial.map[i].start <= a
    BY <1>1, Ordered
  <2>3. 1 < i => trial.map[1].end <= a
    BY <1>1, Ordered
  <2>4. /\ trial.map[1].start \in Nat /\ trial.map[1].end \in Nat
        /\ trial.map[1].start < trial.map[1].end
    BY <1>1, SegmentOrder
  <2>5. ~(a < start)
    BY <2>1, <2>2, <2>4, <2>3, <1>1
  <2> QED
    BY <1>5, <2>5 DEF Dealt
<1>10. Planted
  BY DEF Planted
<1>11. Blocked
  BY <1>1, <1>5 DEF Blocked
<1> QED
  BY <1>6, <1>7, <1>8, <1>9, <1>10, <1>11 DEF IInv

LEMMA BegunNext == Begun' => IInv'
BY BegunHolds, PTL

LEMMA NextCallKeeps ==
  ASSUME IInv, NextCall
  PROVE  IInv'
<1>1. /\ Shape /\ pc = "call"
      /\ UNCHANGED <<trial, p, pe, pat, k, mask, mem, reported>>
      /\ IF Len(calls) = 1 THEN pc' = "done" /\ UNCHANGED <<calls, loops, j>>
         ELSE /\ calls' = Tail(calls)
              /\ loops' = Loops(calls[2])
              /\ pc' = "segment" /\ j' = 1
  BY DEF IInv, NextCall, registers
<1>2. /\ p \in Nat /\ pe \in 0 .. Space - 1 /\ k \in Nat /\ mask \in Nat /\ pat \subseteq Bits
      /\ mem = [a \in 0 .. Space - 1 |-> mem[a]] /\ trial \in Trials
  BY <1>1 DEF Shape
<1>3. CASE Len(calls) = 1
  BY <1>1, <1>2, <1>3, DoneKeeps
<1>4. CASE Len(calls) # 1
  BY <1>1, <1>4, TailIs, CallNow, <1>2, BegunNext
  DEF Shape, call, IInv, Marked, RegistersR, NoFalseAlarm, Begun
<1> QED
  BY <1>3, <1>4

LEMMA InitHolds ==
  ASSUME Init
  PROVE  IInv
<1>1. /\ pc = "segment" /\ trial \in Trials /\ j = 1 /\ p = 0 /\ pe = 0
      /\ calls = Calls(trial) /\ loops = Loops(Head(Calls(trial)))
      /\ pat = {} /\ k = 0 /\ mask = 0 /\ reported = {}
  BY DEF Init
<1>2. calls \in Seq(CallsOf(Fn(trial.pat))) /\ calls # <<>>
  BY <1>1, CallsIn DEF Some
<1>3. mem = [a \in 0 .. Space - 1 |-> mem[a]]
  <2>1. PICK m \in Contents : mem = [a \in DOMAIN m |-> Held(trial.fault, a, m[a])]
    BY DEF Init
  <2>2. DOMAIN m = 0 .. Space - 1
    BY TestsAssumption
  <2> QED
    BY <2>1, <2>2
<1>4. NoFalseAlarm /\ loops = Loops(call)
  BY <1>1 DEF NoFalseAlarm, call
<1> QED
  BY <1>1, <1>2, <1>3, <1>4, Sizes, BegunHolds DEF Begun

-----------------------------------------------------------------------------
(* What a loop does with a word *)

StepOf == IF Down THEN -1 ELSE IF Modular THEN ModSz ELSE 1

(* Where the pointer goes from a word *)
LEMMA WordStep ==
  ASSUME IInv, pc = "word", call.fn \notin {"addr_tst1", "block_move"},
         NEW read, NEW write, ReadWrite(read, write, StepOf)
  PROVE  /\ start \in Nat /\ end \in Nat /\ p \in Nat /\ pe \in Nat /\ p' \in Nat
         /\ start <= p /\ p < end /\ end < Space
         /\ Down \/ Modular \/ Stepwise
         /\ Stepwise => /\ ~Down /\ ~Modular /\ p' = p + 1 /\ p + 1 <= pe /\ pe <= end
                        /\ done = (pe = end)
                        /\ pc' = IF p + 1 = pe THEN "tick" ELSE "word"
         /\ Modular => /\ ~Down /\ p' = p + ModSz /\ p < pe /\ pe <= end /\ start < pe
                       /\ call.off \in 0 .. ModSz - 1
                       /\ (p - start) % ModSz = call.off /\ (p' - start) % ModSz = call.off
                       /\ done = (pe = end) /\ (done \/ Whole(pe - start))
                       /\ pc' = IF p + ModSz < pe THEN "word" ELSE "tick"
         /\ Down => /\ ~Modular /\ start <= pe /\ pe <= p /\ done = (pe = start)
                    /\ pe = start \/ (end - 1 - pe) % Width = 0
                    /\ pc' = IF p = pe THEN "tick" ELSE "word"
                    /\ p > start => p' = p - 1
<1>1. Shape /\ Looping /\ loop # "sleep"
  BY DEF IInv, Places, AddrPlace, Looping
<1>2. /\ Modular \/ Down \/ Stepwise
      /\ Down => call.fn \in {"movinv1", "movinv32"} /\ ~Modular /\ ~Stepwise
      /\ Modular => call.fn = "modtst" /\ ~Down /\ ~Stepwise
      /\ Stepwise => ~Down /\ ~Modular
  BY <1>1, Kinds
<1>3. /\ start \in Nat /\ end \in Nat /\ p \in Nat /\ pe \in Nat
      /\ end < Space /\ end + ModSz <= Space
  <2>1. start \in 0 .. Space - 1 /\ end \in 0 .. Space - 1 /\ end + ModSz <= Space
    BY <1>1, Here
  <2>2. p \in Nat /\ pe \in 0 .. Space - 1
    BY <1>1 DEF Shape
  <2> QED
    BY <2>1, <2>2, Sizes
<1>4. p' = (p + StepOf) % Space
      /\ pc' = IF (IF Down THEN p # pe ELSE p' < pe) THEN "word" ELSE "tick"
  BY DEF ReadWrite
<1>5. CASE Stepwise
  <2>1. start <= p /\ p < pe /\ pe <= end /\ done = (pe = end)
    BY <1>1, <1>5 DEF IInv, Places, UpPlace
  <2>2. p + 1 \in 0 .. Space - 1
    BY <1>3, <2>1, Sizes
  <2>3. p' = p + 1
    BY <1>2, <1>4, <1>5, <2>2, Sizes, ModSmall DEF StepOf
  <2>4. p + 1 <= pe /\ (p + 1 < pe <=> ~(p + 1 = pe)) /\ p < end
    BY <1>3, <2>1
  <2>5. pc' = IF p + 1 = pe THEN "tick" ELSE "word"
    BY <1>2, <1>4, <1>5, <2>3, <2>4
  <2>6. p' \in Nat
    BY <1>3, <2>3
  <2> QED
    BY <1>2, <1>3, <1>5, <2>1, <2>3, <2>4, <2>5, <2>6
<1>6. CASE Modular
  <2>1. /\ start <= p /\ (p - start) % ModSz = call.off /\ p < pe /\ start < pe
        /\ pe <= end /\ done = (pe = end) /\ (done \/ Whole(pe - start))
    BY <1>1, <1>6 DEF IInv, Places, ModPlace
  <2>2. p + ModSz \in 0 .. Space - 1
    BY <1>3, <2>1, Sizes
  <2>3. p' = p + ModSz
    BY <1>2, <1>4, <1>6, <2>2, Sizes, ModSmall DEF StepOf
  <2>4. (p' - start) % ModSz = call.off
    <3>1. PICK n \in Int : n = p - start
      BY <1>3
    <3>2. p' - start = ModSz + n /\ ModSz \in Int
      BY <1>3, <2>3, <3>1, Sizes
    <3>3. (ModSz + n) % ModSz = n % ModSz
      BY <3>2, Sizes, ModOfMultiple, ModOfModulus
    <3> QED
      BY <2>1, <3>1, <3>2, <3>3
  <2>5. pc' = IF p + ModSz < pe THEN "word" ELSE "tick"
    BY <1>2, <1>4, <1>6, <2>3
  <2>6. p' \in Nat /\ p < end
    BY <1>3, <2>1, <2>3, Sizes
  <2>7. call.off \in 0 .. ModSz - 1
    BY <1>1, <1>2, <1>6, CallFields
  <2> QED
    BY <1>2, <1>3, <1>6, <2>1, <2>3, <2>4, <2>5, <2>6, <2>7
<1>7. CASE Down
  <2>1. /\ start <= pe /\ pe < end /\ pe <= p /\ p < end /\ done = (pe = start)
        /\ pe = start \/ (end - 1 - pe) % Width = 0
    BY <1>1, <1>7 DEF IInv, Places, DownPlace
  <2>2. p' = (p - 1) % Space /\ p - 1 \in Int
    BY <1>3, <1>7, <1>4 DEF StepOf
  <2>3. p' \in Nat
    <3>1. PICK n \in Int : n = p - 1
      BY <2>2
    <3>2. n % Space \in 0 .. Space - 1
      BY Sizes, DivMod
    <3> QED
      BY <2>2, <3>1, <3>2, Sizes
  <2>4. p > start => p' = p - 1
    BY <1>3, <2>1, Sizes, <2>2, ModSmall
  <2>5. pc' = IF p = pe THEN "tick" ELSE "word"
    BY <1>4, <1>7
  <2>6. start <= p
    BY <1>3, <2>1
  <2> QED
    BY <1>2, <1>3, <1>7, <2>1, <2>3, <2>4, <2>5, <2>6
<1> QED
  BY <1>2, <1>5, <1>6, <1>7

(* This word, and no other that matters, is dealt with in the step. *)
LEMMA DealtNext ==
  ASSUME IInv, pc = "word", call.fn \notin {"addr_tst1", "block_move"},
         NEW read, NEW write, ReadWrite(read, write, StepOf),
         NEW i \in 1 .. segs, NEW a \in WordsOf(trial, i),
         Modular => Relevant(call, trial, i, a)
  PROVE  /\ Dealt(a)' <=> Dealt(a) \/ a = p
         /\ ~Dealt(p) /\ (a = p => i = j)
<1>1. Shape /\ UNCHANGED <<trial, calls, loops, j, pe>>
  BY DEF IInv, ReadWrite
<1>2. Down' <=> Down
  BY <1>1, SameLoop
<1>3. /\ start \in Nat /\ end \in Nat /\ p \in Nat /\ pe \in Nat /\ p' \in Nat
      /\ start <= p /\ p < end
      /\ Down \/ Modular \/ Stepwise
  BY WordStep
<1>4. /\ a \in Nat
      /\ start <= a /\ a < end => i = j
  BY <1>1, OrderedHere
<1>5. ~Dealt(p)
  BY <1>3 DEF Dealt
<1>6. a = p => i = j
  BY <1>3, <1>4
<1>7. CASE Stepwise
  BY <1>7, WordStep, <1>1, <1>2, <1>3, <1>4, <1>5, <1>6 DEF Dealt
<1>8. CASE Modular
  <2>1. /\ ~Down /\ p' = p + ModSz /\ pc' = (IF p + ModSz < pe THEN "word" ELSE "tick")
        /\ p < pe /\ pe <= end /\ (p - start) % ModSz = call.off
    BY <1>8, WordStep
  <2>2. Dealt(a) <=> a < p
    BY <2>1 DEF Dealt
  <2>3. Dealt(a)' <=> IF p + ModSz < pe THEN a < p + ModSz ELSE a < pe
    BY <1>1, <1>2, <2>1 DEF Dealt
  <2>4. ASSUME p < a, a < p + ModSz, a < pe
        PROVE  FALSE
    <3>1. start <= a /\ a < end
      BY <1>3, <1>4, <2>1, <2>4
    <3>2. i = j
      BY <1>4, <3>1
    <3>3. (a - start) % ModSz = call.off
      BY <1>8, <3>2 DEF Relevant, start, Modular
    <3>4. PICK n \in Int, n2 \in Int : n = p - start /\ n2 = a - start
      BY <1>3, <1>4
    <3>5. n % ModSz = n2 % ModSz /\ n < n2
      BY <1>3, <1>4, <2>1, <2>4, <3>3, <3>4
    <3>6. n + ModSz <= n2
      BY <3>5, Sizes, StepApart
    <3> QED
      BY <1>3, <1>4, <2>4, <3>4, <3>6, Sizes
  <2> QED
    BY <1>3, <1>4, <1>5, <1>6, <2>1, <2>2, <2>3, <2>4, Sizes
<1>9. CASE Down
  <2>1. /\ start <= pe /\ pe <= p /\ pc' = IF p = pe THEN "tick" ELSE "word"
        /\ p > start => p' = p - 1
    BY <1>9, WordStep
  <2>2. Dealt(a) <=> a > p
    BY <1>9 DEF Dealt
  <2>3. CASE p = pe
    BY <1>1, <1>2, <1>9, <2>1, <2>3, <1>3, <1>4, <1>5, <1>6, <2>2 DEF Dealt
  <2>4. CASE p # pe
    BY <1>3, <2>1, <2>4, <1>2, <1>9, <1>4, <1>5, <1>6, <2>2 DEF Dealt
  <2> QED
    BY <2>3, <2>4
<1> QED
  BY <1>3, <1>7, <1>8, <1>9

LEMMA WordPlaces ==
  ASSUME IInv, pc = "word", call.fn \notin {"addr_tst1", "block_move"},
         NEW read, NEW write, ReadWrite(read, write, StepOf)
  PROVE  Places'
<1>1. /\ UNCHANGED <<trial, calls, loops, j, pe, done>> /\ loop # "sleep"
      /\ pc' \in {"word", "tick"}
  BY DEF ReadWrite, IInv, Places, AddrPlace
<1>2. /\ call' = call /\ loop' = loop /\ start' = start /\ end' = end
      /\ (Down' <=> Down) /\ (Modular' <=> Modular) /\ (Stepwise' <=> Stepwise)
  BY <1>1, SameLoop, SameSegment
<1>3. /\ start \in Nat /\ end \in Nat /\ p \in Nat /\ pe \in Nat /\ p' \in Nat
      /\ start <= p /\ p < end /\ end < Space
  BY WordStep
<1>4. UpPlace'
  <2> SUFFICES ASSUME Stepwise
               PROVE  UpPlace'
    BY <1>2 DEF UpPlace
  <2>1. /\ p' = p + 1 /\ p + 1 <= pe /\ pe <= end /\ done = (pe = end)
        /\ pc' = IF p + 1 = pe THEN "tick" ELSE "word"
    BY WordStep
  <2>2. start <= p' /\ start < pe /\ (p' # pe => p' < pe)
    BY <1>3, <2>1
  <2> QED
    BY <1>1, <1>2, <2>1, <2>2 DEF UpPlace
<1>5. ModPlace'
  <2> SUFFICES ASSUME Modular
               PROVE  ModPlace'
    BY <1>2 DEF ModPlace
  <2>1. /\ p' = p + ModSz /\ p < pe /\ pe <= end /\ start < pe
        /\ (p' - start) % ModSz = call.off
        /\ done = (pe = end) /\ (done \/ Whole(pe - start))
        /\ pc' = IF p + ModSz < pe THEN "word" ELSE "tick"
    BY WordStep
  <2>2. start <= p' /\ p' < pe + ModSz /\ (~(p' < pe) => pe <= p')
    BY <1>3, <2>1, Sizes
  <2> QED
    BY <1>1, <1>2, <2>1, <2>2 DEF ModPlace, Whole
<1>6. DownPlace'
  <2> SUFFICES ASSUME Down
               PROVE  DownPlace'
    BY <1>2 DEF DownPlace
  <2>1. /\ start <= pe /\ pe <= p /\ done = (pe = start)
        /\ pe = start \/ (end - 1 - pe) % Width = 0
        /\ pc' = IF p = pe THEN "tick" ELSE "word"
        /\ p > start => p' = p - 1
    BY WordStep
  <2>2. pe < end
    BY <1>3, <2>1
  <2>3. ASSUME p # pe
        PROVE  pe <= p' /\ p' < end
    BY <1>3, <2>1, <2>3
  <2>4. ASSUME p = pe, ~done
        PROVE  p' = pe - 1
    <3>1. pe # start
      BY <2>1, <2>4
    <3>2. p > start
      BY <1>3, <2>1, <2>4, <3>1
    <3> QED
      BY <2>1, <2>4, <3>2
  <2> QED
    BY <1>1, <1>2, <2>1, <2>2, <2>3, <2>4 DEF DownPlace
<1>7. BlockPlace' /\ AddrPlace'
  BY <1>1, <1>2 DEF BlockPlace, AddrPlace
<1> QED
  BY <1>4, <1>5, <1>6, <1>7 DEF Places

(* What is read is what is there, and what is written is what the loop leaves. *)
LEMMA WordKeeps ==
  ASSUME IInv, pc = "word", call.fn \notin {"addr_tst1", "block_move"},
         NEW read, NEW write, ReadWrite(read, write, StepOf),
         pat' \subseteq Bits, k' \in Nat, Marked',
         read # NoWord =>
           /\ Relevant(call, trial, j, p) /\ loop \notin Filling
           /\ read = Found(loop, call, trial, j, p),
         Relevant(call, trial, j, p) =>
           IF write = NoWord
           THEN /\ loop \notin Filling
                /\ Left(loop, call, trial, j, p) = Found(loop, call, trial, j, p)
           ELSE write = Left(loop, call, trial, j, p)
  PROVE  IInv'
<1>1. /\ Shape /\ Looping /\ Looping' /\ pc' \in {"word", "tick"}
      /\ UNCHANGED <<trial, calls, loops, j, pe, done, mask>>
  BY DEF IInv, ReadWrite, Looping
<1>2. /\ call' = call /\ loop' = loop /\ segs' = segs /\ (Good' <=> Good)
  BY <1>1, SameLoop
<1>3. /\ start \in Nat /\ end \in Nat /\ p \in Nat /\ p' \in Nat
      /\ start <= p /\ p < end /\ end < Space
  BY WordStep
<1>4. Shape'
  <2>1. mem' = [a \in 0 .. Space - 1 |-> mem'[a]]
    <3>1. Memory(mem)
      BY <1>1 DEF Shape, Memory
    <3>2. Memory(Store(mem, trial.fault, p, write))
      BY <3>1, StoreShape
    <3>3. mem' = mem \/ mem' = Store(mem, trial.fault, p, write)
      BY DEF ReadWrite, Write
    <3>4. Memory(mem')
      BY <3>1, <3>2, <3>3
    <3> QED
      BY <3>4 DEF Memory
  <2> QED
    BY <1>1, <1>2, <1>3, <2>1 DEF Shape
<1>5. Places'
  BY WordPlaces
<1>6. ASSUME Good
      PROVE  /\ read # NoWord => mem[p] = read
             /\ reported' = {}
             /\ mem' = IF write = NoWord THEN mem ELSE [mem EXCEPT ![p] = write]
  <2>1. j \in 1 .. segs /\ p \in WordsOf(trial, j)
    BY <1>1, <1>3 DEF Shape, WordsOf, start, end
  <2>2. read # NoWord => mem[p] = read
    <3> SUFFICES ASSUME read # NoWord
                 PROVE  mem[p] = read
      OBVIOUS
    <3>1. ~Dealt(p)
      BY <2>1, DealtNext
    <3> QED
      BY <1>1, <1>6, <2>1, <3>1 DEF IInv, Filled
  <2>3. Load(mem, trial.fault, p) = mem[p]
        /\ Store(mem, trial.fault, p, write) = [mem EXCEPT ![p] = write]
    BY <1>6, GoodMemory DEF Good
  <2>4. reported = {}
    BY <1>6 DEF IInv, NoFalseAlarm, Good
  <2> QED
    BY <2>2, <2>3, <2>4 DEF ReadWrite, Compare, Write
<1>7. Filled'
  <2> SUFFICES ASSUME Good,
                      NEW i \in 1 .. segs, NEW a \in WordsOf(trial, i),
                      Relevant(call, trial, i, a)
               PROVE  /\ Dealt(a)' => mem'[a] = Left(loop, call, trial, i, a)
                      /\ ~Dealt(a)' /\ loop \notin Filling =>
                           mem'[a] = Found(loop, call, trial, i, a)
    BY <1>1, <1>2 DEF Filled
  <2>1. /\ Dealt(a) => mem[a] = Left(loop, call, trial, i, a)
        /\ ~Dealt(a) /\ loop \notin Filling => mem[a] = Found(loop, call, trial, i, a)
    BY <1>1 DEF IInv, Filled
  <2>2. /\ Dealt(a)' <=> Dealt(a) \/ a = p
        /\ ~Dealt(p) /\ (a = p => i = j)
    BY DealtNext
  <2>3. a \in 0 .. Space - 1
    BY <1>1, OrderedHere
  <2>4. CASE a = p
    <3>1. i = j
      BY <2>2, <2>4
    <3>2. CASE write = NoWord
      BY <1>6, <2>1, <2>2, <2>4, <3>1, <3>2
    <3>3. CASE write # NoWord
      BY <1>1, <1>6, <3>3, <2>3, <2>4, <2>2, <3>1 DEF Shape
    <3> QED
      BY <3>2, <3>3
  <2>5. CASE a # p
    BY <1>1, <1>6, <2>3, <2>5, <2>1, <2>2 DEF Shape
  <2> QED
    BY <2>4, <2>5
<1>8. Planted'
  BY <1>1 DEF Planted
<1>9. Blocked'
  BY <1>2 DEF Blocked
<1>10. NoFalseAlarm'
  BY <1>1, <1>2, <1>6 DEF NoFalseAlarm, Good
<1> QED
  BY <1>4, <1>5, <1>7, <1>8, <1>9, <1>10 DEF IInv

LEMMA NoWordIsNone ==
  /\ \A w \in SUBSET Bits : w # NoWord
  /\ \A a \in Nat : Own(a) # NoWord
<1>1. ASSUME NEW w \in SUBSET Bits, w = NoWord
      PROVE  FALSE
  BY <1>1, Sizes DEF NoWord, Bits
<1>2. ASSUME NEW a \in Nat, Own(a) = NoWord
      PROVE  FALSE
  <2>1. Width + a = -1
    BY <1>2 DEF Own, NoWord
  <2> QED
    BY <2>1, Sizes
<1> QED
  BY <1>1, <1>2

(* Where a step on a word finds the registers *)
LEMMA WordNow ==
  ASSUME IInv, pc = "word"
  PROVE  /\ Shape /\ Looping /\ pat \subseteq Bits /\ k \in Nat
         /\ call.fn \in Fns /\ loop \in LoopTable(call.fn)
BY CallNow, LoopNow DEF IInv, Shape, Looping

(* The loops that carry nothing along *)
LEMMA PlainKeeps ==
  ASSUME IInv, pc = "word", loop # "rest",
         call.fn \notin {"addr_tst1", "block_move", "movinv32", "movinvr"},
         NEW read, NEW write, ReadWrite(read, write, StepOf), UNCHANGED <<pat, k>>,
         read # NoWord =>
           /\ Relevant(call, trial, j, p) /\ loop \notin Filling
           /\ read = Found(loop, call, trial, j, p),
         Relevant(call, trial, j, p) =>
           IF write = NoWord
           THEN /\ loop \notin Filling
                /\ Left(loop, call, trial, j, p) = Found(loop, call, trial, j, p)
           ELSE write = Left(loop, call, trial, j, p)
  PROVE  IInv'
BY SameLoop, WordNow, WordKeeps
DEF ReadWrite, Marked, Registers32, RegistersR, RegistersMod

LEMMA MovInv1Keeps ==
  ASSUME IInv, MovInv1Fill \/ MovInv1Up \/ MovInv1Down
  PROVE  IInv'
BY WordNow, CallFields, NotNot, NoWordIsNone, PlainKeeps
DEF MovInv1Fill, MovInv1Up, MovInv1Down, In, Holds, Relevant, Modular, StepOf, Down,
   Left, Found, Filling

LEMMA OwnKeeps ==
  ASSUME IInv, AddrOwn \/ AddrOwnCheck
  PROVE  IInv'
<1>1. /\ pc = "word" /\ call.fn = "addr_tst2" /\ UNCHANGED <<pat, k>>
  BY DEF AddrOwn, AddrOwnCheck, In
<1>2. Own(p) # NoWord
  BY NoWordIsNone DEF IInv, Shape
<1>3. Holds(call, trial, j, p) = Own(p) /\ Relevant(call, trial, j, p) /\ ~Modular
  BY <1>1 DEF Holds, Relevant, Modular
<1>4. CASE AddrOwn
  BY <1>3, <1>4, <1>1, <1>2, PlainKeeps DEF AddrOwn, In, StepOf, Down, Left
<1>5. CASE AddrOwnCheck
  BY <1>3, <1>5, <1>1, <1>2, PlainKeeps
  DEF AddrOwnCheck, In, StepOf, Down, Left, Found, Filling
<1> QED
  BY <1>4, <1>5

LEMMA FadeKeeps ==
  ASSUME IInv, FadeFill \/ FadeCheck
  PROVE  IInv'
BY WordNow, CallFields, NoWordIsNone, PlainKeeps
DEF FadeFill, FadeCheck, In, Holds, Relevant, Modular, StepOf, Down, Left, Found,
   Filling

(* Asleep: good memory keeps what it has. *)
LEMMA SleepKeeps ==
  ASSUME IInv, FadeSleep
  PROVE  IInv'
<1>1. /\ Shape /\ Looping /\ Looping' /\ pc = "segment" /\ pc' = "over" /\ loop = "sleep"
      /\ UNCHANGED <<trial, calls, loops, j, p, pe, done, pat, k, mask, reported>>
      /\ mem' = mem \/ mem' = Faded(mem, trial.fault)
  BY DEF IInv, FadeSleep, Looping, pointers, registers
<1>2. /\ call' = call /\ loop' = loop /\ segs' = segs /\ (Good' <=> Good) /\ (Down' <=> Down)
  BY <1>1, SameLoop
<1>3. call.fn = "bit_fade"
  BY <1>1, CallNow, LoopNow DEF LoopTable, Fns
<1>4. Good => mem' = mem
  BY <1>1, GoodMemory DEF Good
<1>5. Shape'
  BY <1>1, <1>2 DEF Shape, Memory, Faded
<1>6. Places'
  BY <1>1 DEF Places, UpPlace, ModPlace, DownPlace, BlockPlace, AddrPlace
<1>7. Marked'
  BY <1>1, <1>2, <1>3 DEF Marked, Registers32, RegistersR, RegistersMod
<1>8. Filled'
  <2> SUFFICES ASSUME Good,
                      NEW i \in 1 .. segs, NEW a \in WordsOf(trial, i),
                      Relevant(call, trial, i, a)
               PROVE  mem[a] = Left(loop, call, trial, i, a)
    BY <1>1, <1>2, <1>4 DEF Filled, Dealt
  <2>1. /\ Dealt(a) => mem[a] = Left(loop, call, trial, i, a)
        /\ ~Dealt(a) /\ loop \notin Filling => mem[a] = Found(loop, call, trial, i, a)
    BY <1>1, <1>3 DEF IInv, Filled
  <2> QED
    BY <1>1, <2>1 DEF Left, Found, Filling
<1>9. Planted' /\ Blocked'
  BY <1>1, <1>2, <1>3 DEF Planted, Blocked
<1>10. NoFalseAlarm'
  BY <1>1 DEF IInv, NoFalseAlarm
<1> QED
  BY <1>5, <1>6, <1>7, <1>8, <1>9, <1>10 DEF IInv

(* modtst(): the words of the offset, and all but those *)
LEMMA ModKeeps ==
  ASSUME IInv, ModEvery \/ ModRest \/ ModCheck
  PROVE  IInv'
<1>1. pc = "word" /\ call.fn = "modtst"
  BY DEF ModEvery, ModRest, ModCheck, In
<1>2. /\ Shape /\ Looping
      /\ call.p1 \in SUBSET Bits /\ Not(call.p1) \in SUBSET Bits
      /\ call.off \in 0 .. ModSz - 1
  BY <1>1, WordNow, CallFields, NotNot
<1>3. call.p1 # NoWord /\ Not(call.p1) # NoWord
  BY <1>2, NoWordIsNone
<1>4. /\ Holds(call, trial, j, p) = call.p1
      /\ Relevant(call, trial, j, p) <=> (p - start) % ModSz = call.off
  BY <1>1 DEF Holds, Relevant, start
<1>5. CASE ModEvery
  BY <1>5, <1>1, <1>3, <1>4, PlainKeeps DEF ModEvery, In, StepOf, Down, Modular, Left
<1>6. CASE ModCheck
  BY <1>6, <1>1, <1>2, <1>4, PlainKeeps
  DEF ModCheck, In, StepOf, Down, Modular, IInv, Places, ModPlace, Left, Found, Filling
<1>7. CASE ModRest
  <2> DEFINE write == IF k = call.off THEN NoWord ELSE Not(call.p1)
  <2>1. /\ loop = "rest" /\ ReadWrite(NoWord, write, StepOf)
        /\ k' = (IF k + 1 > ModSz - 1 THEN 0 ELSE k + 1) /\ UNCHANGED pat
    BY <1>7 DEF ModRest, In, StepOf, Down, Modular
  <2>2. k = (p - start) % ModSz
    BY <1>1, <1>2, <2>1 DEF IInv, Marked, RegistersMod
  <2>3. Relevant(call, trial, j, p) <=> k = call.off
    BY <1>4, <2>2
  <2>4. Relevant(call, trial, j, p) =>
           IF write = NoWord
           THEN /\ loop \notin Filling
                /\ Left(loop, call, trial, j, p) = Found(loop, call, trial, j, p)
           ELSE write = Left(loop, call, trial, j, p)
    BY <2>1, <2>3 DEF Left, Found, Filling
  <2> HIDE DEF write
  <2>5. /\ call' = call /\ loop' = loop /\ start' = start
    BY <2>1, SameLoop, SameSegment DEF ReadWrite
  <2>6. Stepwise
    BY <1>1, <2>1 DEF Stepwise, Down, Modular
  <2>7. /\ start \in Nat /\ p \in Nat /\ p' = p + 1
    BY <1>1, <2>1, <2>6, WordStep
  <2>8. k' = (p' - start) % ModSz
    <3>1. PICK n \in Int : n = p - start
      BY <2>7
    <3>2. p' - start = n + 1
      BY <2>7, <3>1
    <3>3. (n + 1) % ModSz = IF (n % ModSz) + 1 > ModSz - 1 THEN 0 ELSE (n % ModSz) + 1
      BY Sizes, ModNext
    <3> QED
      BY <2>1, <2>2, <3>1, <3>2, <3>3
  <2>9. Marked'
    BY <1>1, <2>5, <2>8 DEF Marked, Registers32, RegistersR, RegistersMod
  <2>10. pat' \subseteq Bits /\ k' \in Nat
    BY <1>2, <2>1 DEF Shape
  <2> QED
    BY <1>1, <2>1, <2>4, <2>9, <2>10, WordKeeps
<1> QED
  BY <1>5, <1>6, <1>7

(* movinv32(): the pattern goes with the pointer, in both directions. *)
LEMMA MovInv32Keeps ==
  ASSUME IInv, MovInv32Fill \/ MovInv32Up \/ MovInv32Down
  PROVE  IInv'
<1>1. pc = "word" /\ call.fn = "movinv32"
  BY DEF MovInv32Fill, MovInv32Up, MovInv32Down, In
<1>2. /\ Shape /\ Looping /\ pat \in SUBSET Bits /\ Not(pat) \in SUBSET Bits
      /\ call.lb \in SUBSET Bits /\ call.off \in Int /\ k \in Int
  BY <1>1, WordNow, CallFields, NotNot DEF Bits
<1>3. pat # NoWord /\ Not(pat) # NoWord
  BY <1>2, NoWordIsNone
<1>4. /\ Holds(call, trial, j, p) = Rol(call.lb, call.off + (p - start))
      /\ Relevant(call, trial, j, p) /\ ~Modular
  BY <1>1 DEF Holds, Relevant, Modular, start
<1>5. start \in Nat /\ p \in Nat
  BY <1>2, Here DEF Shape
<1>6. PICK n \in Int : n = call.off + (p - start)
  BY <1>2, <1>5
<1>7. pat = Rol(call.lb, n)
  BY <1>1, <1>2, <1>6, RolOfMod DEF IInv, Marked, Registers32
<1>8. CASE ~Down
  <2> DEFINE read == IF loop = "fill" THEN NoWord ELSE pat
             write == IF loop = "fill" THEN pat ELSE Not(pat)
  <2>1. /\ loop \in {"fill", "up"} /\ ReadWrite(read, write, StepOf)
        /\ pat' = Rol(pat, 1) /\ k' = (k + 1) % Width
    BY <1>4, <1>8 DEF MovInv32Fill, MovInv32Up, MovInv32Down, In, StepOf, Down, Rotate
  <2>2. read # NoWord =>
           /\ Relevant(call, trial, j, p) /\ loop \notin Filling
           /\ read = Found(loop, call, trial, j, p)
    BY <1>4, <1>6, <1>7, <2>1 DEF Found, Filling
  <2>3. write # NoWord /\ write = Left(loop, call, trial, j, p)
    BY <1>3, <1>4, <1>6, <1>7, <2>1 DEF Left
  <2> HIDE DEF read, write
  <2>4. /\ call' = call /\ loop' = loop /\ start' = start /\ (Down' <=> Down)
    BY <2>1, SameLoop, SameSegment DEF ReadWrite
  <2>5. Stepwise
    BY <1>1, <1>4, <1>8, <2>1 DEF Stepwise
  <2>6. p' = p + 1 /\ pc' \in {"word", "tick"}
    BY <1>1, <2>1, <2>5, WordStep
  <2>7. call.off + (p' - start) = n + 1
    BY <1>2, <1>5, <1>6, <2>6
  <2>8. k' = (n + 1) % Width
    <3>1. k = n % Width
      BY <1>1, <1>2, <1>6, <1>8 DEF IInv, Marked, Registers32
    <3>2. ((n % Width) + 1) % Width = (n + 1) % Width
      <4>1. 1 \in Int
        OBVIOUS
      <4> QED
        BY <4>1, Sizes, ModOfSum
    <3> QED
      BY <2>1, <3>1, <3>2
  <2>9. pat' = Rol(call.lb, k')
    BY <1>2, RolRol, RolOfMod, <1>7, <2>1, <2>8
  <2>10. Marked'
    BY <1>1, <1>8, <2>4, <2>6, <2>7, <2>8, <2>9 DEF Marked, Registers32, RegistersR, RegistersMod
  <2>11. pat' \subseteq Bits /\ k' \in Nat
    BY <1>2, RolType, Sizes, DivMod, <2>1
  <2> QED
    BY <1>1, <2>1, <2>2, <2>3, <2>10, <2>11, WordKeeps
<1>9. CASE Down
  <2>1. /\ loop = "down" /\ ReadWrite(Not(pat), pat, StepOf)
        /\ pat' = Rol(pat, -1) /\ k' = (k + (-1)) % Width
    BY <1>9 DEF MovInv32Fill, MovInv32Up, MovInv32Down, In, StepOf, Down, Rotate
  <2>2. /\ Not(pat) = Found(loop, call, trial, j, p) /\ loop \notin Filling
        /\ pat = Left(loop, call, trial, j, p)
    BY <1>4, <1>6, <1>7, <2>1 DEF Found, Left, Filling
  <2>4. /\ call' = call /\ loop' = loop /\ start' = start /\ (Down' <=> Down) /\ pe' = pe
    BY <2>1, SameLoop, SameSegment DEF ReadWrite
  <2>5. /\ start <= pe /\ pe <= p /\ pc' = (IF p = pe THEN "tick" ELSE "word")
        /\ p > start => p' = p - 1
        /\ pe \in Nat
    BY <1>1, <1>9, <2>1, WordStep
  <2>6. pat' = Rol(call.lb, n - 1)
    BY <1>2, RolRol, <1>7, <2>1
  <2>9. pat' \subseteq Bits /\ k' \in Nat
    BY <1>2, RolType, Sizes, DivMod, <2>1
  <2>7. CASE p = pe
    <3>1. call.off + (pe - 1 - start) = n - 1
      BY <1>2, <1>5, <1>6, <2>7
    <3>2. Registers32'
      BY <1>9, <2>4, <2>5, <2>6, <2>7, <3>1 DEF Registers32
    <3>3. Marked'
      BY <1>1, <2>4, <3>2 DEF Marked, RegistersR, RegistersMod
    <3> QED
      BY <1>1, <1>3, <1>4, <2>1, <2>2, <2>9, <3>3, WordKeeps
  <2>8. CASE p # pe
    <3>1. p' = p - 1
      BY <1>5, <2>5, <2>8
    <3>2. call.off + (p' - start) = n - 1
      BY <1>2, <1>5, <1>6, <3>1
    <3>3. Registers32'
      BY <1>9, <2>4, <2>5, <2>6, <2>8, <3>2 DEF Registers32
    <3>4. Marked'
      BY <1>1, <2>4, <3>3 DEF Marked, RegistersR, RegistersMod
    <3> QED
      BY <1>1, <1>3, <1>4, <2>1, <2>2, <2>9, <3>4, WordKeeps
  <2> QED
    BY <2>7, <2>8
<1> QED
  BY <1>8, <1>9

(* movinvr(): the next word gets the next random number. *)
LEMMA BeforeStep ==
  ASSUME NEW t \in Trials, NEW i \in 1 .. Len(t.map), NEW a \in WordsOf(t, i)
  PROVE  Before(t, a) \in 0 .. Space - 1 /\ Before(t, a + 1) = Before(t, a) + 1
<1>1. DOMAIN t.map = 1 .. Len(t.map) /\ a \in 0 .. Space - 1
  BY Segments, Ordered
<1>2. /\ IsFiniteSet(0 .. a - 1) /\ Cardinality(0 .. a - 1) = a
  <2>1. 0 \in Int /\ a - 1 \in Int /\ a \in Nat
    BY <1>1
  <2>2. /\ IsFiniteSet(0 .. a - 1)
        /\ Cardinality(0 .. a - 1) = IF 0 > a - 1 THEN 0 ELSE (a - 1) - 0 + 1
    BY <2>1, FS_Interval
  <2> QED
    BY <2>1, <2>2
<1>3. /\ IsFiniteSet(WordsBefore(t, a)) /\ Cardinality(WordsBefore(t, a)) <= a
  BY <1>2, FS_Subset DEF WordsBefore
<1>4. Cardinality(WordsBefore(t, a)) \in Nat
  BY <1>3, FS_CardinalityType
<1>5. WordsBefore(t, a + 1) = WordsBefore(t, a) \cup {a}
  BY <1>1 DEF WordsBefore
<1>6. a \notin WordsBefore(t, a)
  BY <1>1 DEF WordsBefore
<1>7. Cardinality(WordsBefore(t, a) \cup {a}) = Cardinality(WordsBefore(t, a)) + 1
  BY <1>3, <1>6, FS_AddElement
<1>8. PICK n \in Nat : n = Cardinality(WordsBefore(t, a))
  BY <1>4
<1>9. n \in 0 .. Space - 1
  BY <1>1, <1>3, <1>8, Sizes
<1> QED
  BY <1>5, <1>7, <1>8, <1>9 DEF Before

LEMMA MovInvRKeeps ==
  ASSUME IInv, MovInvRFill \/ MovInvRUp
  PROVE  IInv'
<1>1. /\ pc = "word" /\ call.fn = "movinvr" /\ loop \in {"fill", "up", "upNot"}
      /\ k' = k + 1 /\ pat' = pat
  BY DEF MovInvRFill, MovInvRUp, In
<1>2. Shape /\ Looping /\ pat \subseteq Bits /\ k \in Nat
  BY <1>1, WordNow
<1>3. ~Down /\ ~Modular /\ Stepwise /\ StepOf = 1
  BY <1>1 DEF Down, Modular, Stepwise, StepOf
<1>4. k = Before(trial, p)
  BY <1>1 DEF IInv, Marked, RegistersR
<1>5. PICK read, write : /\ ReadWrite(read, write, StepOf)
                         /\ loop = "fill" => read = NoWord /\ write = Rand(k)
                         /\ loop = "up" => read = Rand(k) /\ write = Not(Rand(k))
                         /\ loop = "upNot" => read = Not(Rand(k)) /\ write = Not(Not(Rand(k)))
  BY <1>3, <1>1 DEF MovInvRFill, MovInvRUp, In
<1>6. /\ start <= p /\ p < end /\ start \in Nat /\ p \in Nat /\ end \in Nat
      /\ p' = p + 1 /\ pc' \in {"word", "tick"}
  BY <1>1, <1>3, <1>5, WordStep
<1>7. trial \in Trials /\ j \in 1 .. Len(trial.map) /\ p \in WordsOf(trial, j)
  BY <1>2, <1>6 DEF Shape, segs, WordsOf, start, end
<1>8. k \in 0 .. Space - 1 /\ k' = Before(trial, p')
  BY <1>1, <1>4, <1>6, <1>7, BeforeStep
<1>9. Rand(k) \in SUBSET Bits /\ Not(Rand(k)) \in SUBSET Bits /\ Not(Not(Rand(k))) = Rand(k)
  BY <1>8, TestsAssumption, NotNot
<1>10. Rand(k) # NoWord /\ Not(Rand(k)) # NoWord
  BY <1>9, NoWordIsNone
<1>11. /\ Holds(call, trial, j, p) = Rand(k) /\ Relevant(call, trial, j, p)
  BY <1>1, <1>4 DEF Holds, Relevant
<1>12. read # NoWord =>
         /\ Relevant(call, trial, j, p) /\ loop \notin Filling
         /\ read = Found(loop, call, trial, j, p)
  BY <1>1, <1>5, <1>11 DEF Found, Filling
<1>13. write # NoWord /\ write = Left(loop, call, trial, j, p)
  BY <1>1, <1>5, <1>9, <1>10, <1>11 DEF Left
<1>14. trial' = trial /\ call' = call /\ loop' = loop
  BY <1>5, SameLoop DEF ReadWrite
<1>15. Marked'
  BY <1>1, <1>6, <1>8, <1>14 DEF Marked, Registers32, RegistersR, RegistersMod
<1>16. pat' \subseteq Bits /\ k' \in Nat
  BY <1>1, <1>2
<1> QED
  BY <1>1, <1>5, <1>12, <1>13, <1>15, <1>16, WordKeeps

-----------------------------------------------------------------------------
(* addr_tst1() *)

LEMMA AddrKeeps ==
  ASSUME IInv, Looping, call.fn = "addr_tst1", UNCHANGED <<trial, calls, loops>>,
         Shape', AddrPlace', Planted', NoFalseAlarm'
  PROVE  IInv'
<1>1. Shape /\ loop # "down"
  BY LoopNow DEF IInv, LoopTable
<1>2. call'.fn = "addr_tst1" /\ ~Down' /\ ~Modular' /\ ~Stepwise'
  BY <1>1, SameLoop DEF Down, Modular, Stepwise
<1>3. Places'
  BY <1>2 DEF Places, UpPlace, ModPlace, DownPlace, BlockPlace
<1>4. Marked'
  BY <1>2 DEF Marked, Registers32, RegistersR, RegistersMod
<1>5. Filled' /\ Blocked'
  BY <1>2 DEF Filled, Blocked
<1> QED
  BY <1>3, <1>4, <1>5 DEF IInv

(* The whole blocks of a chunk are at least half of it. *)
LEMMA BlocksOf ==
  ASSUME NEW W \in Nat \ {0}, NEW n \in Nat
  PROVE  /\ (n \div W) * W \in Nat /\ (n \div W) * W <= n
         /\ n >= W => n \div 2 <= (n \div W) * W /\ (n \div W) * W > 0
         /\ n % W = 0 => (n \div W) * W = n
<1>1. PICK m \in 0 .. W - 1, d \in Int : m = n % W /\ d = n \div W /\ m = n - W * d
  <2>1. n \in Int
    OBVIOUS
  <2> QED
    BY <2>1, DivMod
<1>2. PICK y \in Int : y = d * W /\ y = W * d
  BY SMT
<1>3. y = n - m /\ y <= n
  BY <1>1, <1>2
<1>4. ASSUME d < 0 PROVE FALSE
  <2>1. d * W <= -W
    BY <1>4, SMT
  <2> QED
    BY <1>2, <1>3, <2>1
<1>5. y >= 0
  <2>1. d >= 0 => d * W >= 0
    BY SMT
  <2> QED
    BY <1>2, <1>4, <2>1
<1>6. ASSUME n >= W
      PROVE  n \div 2 <= y /\ y > 0
  <2>1. d # 0
    <3>1. d = 0 => d * W = 0
      BY SMT
    <3> QED
      BY <1>2, <1>3, <1>6, <3>1
  <2>2. d >= 1
    BY <1>4, <2>1
  <2>3. d * W >= W
    BY <2>2, SMT
  <2> QED
    BY <1>2, <1>3, <2>3
<1>7. n % W = 0 => y = n
  BY <1>1, <1>3
<1> QED
  BY <1>1, <1>2, <1>3, <1>5, <1>6, <1>7

LEMMA RoundedUp ==
  ASSUME NEW a \in 0 .. Space - 1, NEW n \in Nat \ {0}
  PROVE  /\ RoundUp(a, n) \in Nat /\ RoundUp(a, n) < Space
         /\ a + n <= Space => a <= RoundUp(a, n)
<1>1. a \in Nat /\ a < Space
  BY Sizes
<1>2. PICK x \in Nat : x = a + n - 1
  BY <1>1
<1>3. x % Space \in 0 .. Space - 1
  BY Sizes, DivMod
<1>4. PICK y \in Nat : y = x % Space /\ y < Space
  BY <1>3, Sizes
<1>5. (y \div n) * n \in Nat /\ (y \div n) * n <= y
  BY BlocksOf
<1>6. PICK z \in Nat : z = (y \div n) * n /\ z <= y
  BY <1>5
<1>7. RoundUp(a, n) = z
  BY <1>2, <1>4, <1>6 DEF RoundUp
<1>8. ASSUME a + n <= Space
      PROVE  a <= z
  <2>1. x \in 0 .. Space - 1
    BY <1>1, <1>2, <1>8, Sizes
  <2>2. y = x
    BY <1>4, <2>1, Sizes, ModSmall
  <2>3. PICK m \in 0 .. n - 1, d \in Int : m = y - n * d /\ d = y \div n
    <3>1. y \in Int
      OBVIOUS
    <3> QED
      BY <3>1, DivMod
  <2>4. n * d = z
    BY <1>6, <2>3
  <2> QED
    BY <1>1, <1>2, <2>2, <2>3, <2>4
<1> QED
  BY <1>4, <1>6, <1>7, <1>8, Sizes

LEMMA PlantKeeps ==
  ASSUME IInv, Looping, call.fn = "addr_tst1", UNCHANGED <<trial, calls, loops, reported>>,
         NEW a \in Nat, Plant(a), a < Space,
         j' \in 1 .. segs, pe' \in 0 .. Space - 1,
         loop = "bank" => Ahead' /\ pe' = end' /\ a < pe'
  PROVE  IInv'
<1>1. /\ Shape /\ p' = a /\ Write(a, pat) /\ pat' = Not(pat) /\ k' = 0 /\ mask' = 1
      /\ pc' = "mask"
  BY DEF Plant, IInv
<1>2. call' = call /\ loop' = loop /\ segs' = segs /\ (Good' <=> Good)
  BY SameLoop
<1>3. pat \in SUBSET Bits /\ Not(pat) \in SUBSET Bits /\ Not(Not(pat)) = pat
      /\ pat # NoWord /\ Memory(mem)
  BY <1>1, NotNot, NoWordIsNone DEF Shape, Memory
<1>4. mem' = Store(mem, trial.fault, a, pat)
  BY <1>1, <1>3 DEF Write
<1>5. Memory(mem')
  BY <1>3, <1>4, StoreShape
<1>6. Shape'
  BY <1>1, <1>2, <1>3, <1>5, Sizes DEF Shape, Memory, Looping
<1>7. AddrPlace'
  BY <1>1, <1>2 DEF AddrPlace
<1>8. Planted'
  <2>1. ASSUME Good
        PROVE  mem'[a] = pat
    <3>1. mem' = [mem EXCEPT ![a] = pat]
      BY <1>4, <2>1, GoodMemory DEF Good
    <3>2. a \in 0 .. Space - 1 /\ mem = [b \in 0 .. Space - 1 |-> mem[b]]
      BY <1>3, Sizes DEF Memory
    <3> QED
      BY <3>1, <3>2
  <2> QED
    BY <1>1, <1>2, <1>3, <2>1 DEF Planted
<1>9. NoFalseAlarm'
  BY DEF IInv, NoFalseAlarm
<1> QED
  BY <1>6, <1>7, <1>8, <1>9, AddrKeeps

LEMMA LinesKeep ==
  ASSUME IInv, AddrLines
  PROVE  IInv'
<1> DEFINE a == RoundUp(trial.map[1].start, Align)
<1>1. /\ Shape /\ Looping /\ call.fn = "addr_tst1" /\ loop = "line"
      /\ Plant(a) /\ pe' = trial.map[segs].end
      /\ UNCHANGED <<trial, calls, loops, j, reported>>
  BY DEF IInv, AddrLines, Looping
<1>2. trial \in Trials /\ segs = Len(trial.map) /\ 1 \in 1 .. segs /\ segs \in 1 .. segs
      /\ j \in 1 .. segs
  BY <1>1, Here DEF Shape, segs
<1>3. trial.map[1].start \in 0 .. Space - 1 /\ pe' \in 0 .. Space - 1
  BY <1>1, <1>2, Segments
<1>4. a \in Nat /\ a < Space
  BY <1>3, Sizes, RoundedUp
<1> HIDE DEF a
<1> QED
  BY <1>1, <1>2, <1>3, <1>4, PlantKeeps

LEMMA BanksKeep ==
  ASSUME IInv, AddrBanks
  PROVE  IInv'
BY SameLoop, SameSegment, Here, Sizes, RoundedUp, AddrKeeps
DEF IInv, AddrBanks, Looping, registers, Ahead, Shape, AddrPlace, Planted, NoFalseAlarm

LEMMA BankKeeps ==
  ASSUME IInv, AddrBank
  PROVE  IInv'
<1>1. /\ Shape /\ Looping /\ pc = "bank" /\ call.fn = "addr_tst1" /\ loop = "bank"
      /\ Ahead /\ pe = end
      /\ UNCHANGED <<trial, calls, loops, reported>>
  BY DEF IInv, Places, AddrPlace, AddrBank, Looping
<1>2. /\ call' = call /\ loop' = loop /\ segs' = segs
  BY <1>1, SameLoop
<1>3. /\ p \in Nat /\ pe \in 0 .. Space - 1 /\ j \in 1 .. segs
      /\ trial \in Trials /\ segs = Len(trial.map) /\ segs \in Nat
  BY <1>1, Here DEF Shape, segs
<1>4. CASE p < pe
  BY <1>4, <1>1, SameSegment, <1>3, Sizes, PlantKeeps DEF AddrBank, Plant, Ahead
<1>5. CASE ~(p < pe)
  <2>1. /\ UNCHANGED <<mem, pat, k, mask>>
        /\ IF j = segs THEN pc' = "tick" /\ UNCHANGED <<j, p, pe>>
           ELSE /\ j' = j + 1 /\ pe' = trial.map[j + 1].end
                /\ p' = RoundUp(trial.map[j + 1].start, Bank)
                /\ pc' = pc
    BY <1>5 DEF AddrBank, registers
  <2>2. NoFalseAlarm'
    BY <1>1 DEF IInv, NoFalseAlarm
  <2>3. CASE j = segs
    BY <1>1, <1>2, <2>1, <2>3, <2>2, AddrKeeps DEF Shape, AddrPlace, Planted, Looping
  <2>4. CASE j # segs
    <3>1. j' = j + 1 /\ j' \in 1 .. segs /\ pe' = trial.map[j'].end
          /\ p' = RoundUp(trial.map[j'].start, Bank) /\ pc' = "bank"
      BY <1>1, <1>3, <2>1, <2>4
    <3>2. trial.map[j'].start \in 0 .. Space - 1 /\ trial.map[j'].end \in 0 .. Space - 1
      BY <1>3, <3>1, Segments
    <3>4. start' = trial.map[j'].start /\ end' = trial.map[j'].end
      BY <1>1 DEF start, end
    <3>3. p' \in Nat /\ Ahead'
      BY <3>1, <3>2, <3>4, Sizes, RoundedUp DEF Ahead
    <3>5. Shape' /\ AddrPlace' /\ Planted'
      BY <1>1, <1>2, <2>1, <3>1, <3>2, <3>3, <3>4 DEF Shape, AddrPlace, Planted, Looping
    <3> QED
      BY <1>1, <2>2, <3>5, AddrKeeps
  <2> QED
    BY <2>3, <2>4
<1> QED
  BY <1>4, <1>5

LEMMA TickLineKeeps ==
  ASSUME IInv, TickLine
  PROVE  IInv'
BY NotNot, DoneKeeps, SameLoop, AddrKeeps
DEF IInv, TickLine, Tick, Looping, pointers, Shape, AddrPlace, Planted, NoFalseAlarm

LEMMA MaskKeeps ==
  ASSUME IInv, AddrMask
  PROVE  IInv'
<1> DEFINE pt == Or(p, mask)
<1>1. /\ Shape /\ Looping /\ pc = "mask" /\ call.fn = "addr_tst1" /\ mask # 0 /\ p < Space
      /\ loop = "bank" => Ahead /\ pe = end /\ p < pe
      /\ UNCHANGED <<trial, calls, loops, j, pe>>
  BY DEF IInv, Places, AddrPlace, AddrMask, Looping
<1>2. /\ call' = call /\ loop' = loop /\ segs' = segs /\ start' = start /\ end' = end
      /\ (Good' <=> Good) /\ (p' = p /\ Ahead => Ahead')
  BY <1>1, SameLoop, SameSegment DEF Ahead
<1>3. /\ p \in Nat /\ pe \in 0 .. Space - 1 /\ pat \in SUBSET Bits /\ mask \in Nat /\ k \in Nat
      /\ Not(pat) \in SUBSET Bits /\ Memory(mem)
  BY <1>1, NotNot DEF Shape, Memory
<1>4. Planted /\ NoFalseAlarm
  BY DEF IInv
<1>5. CASE NextTry(k + 1) /\ UNCHANGED <<mem, reported>>
  <2>1. k' = k + 1 /\ mask' = 1
        /\ IF k + 1 < Tries THEN UNCHANGED <<pc, p, pat>> ELSE MasksOver
    BY <1>5 DEF NextTry
  <2>2. NoFalseAlarm'
    BY <1>1, <1>4, <1>5 DEF NoFalseAlarm
  <2>3. CASE UNCHANGED <<pc, p, pat>>
    BY <1>1, <1>2, <1>3, <1>4, <1>5, <2>1, <2>3, <2>2, AddrKeeps
    DEF Shape, AddrPlace, Planted, Looping
  <2>4. CASE MasksOver /\ loop = "line"
    BY <2>4, <1>1, <1>2, <1>3, <1>5, <2>1, <2>2, AddrKeeps
    DEF MasksOver, Shape, AddrPlace, Planted, Looping
  <2>5. CASE MasksOver /\ loop # "line"
    <3>1. /\ p' = (IF (p + Bank) % Space > p THEN (p + Bank) % Space ELSE pe)
          /\ pat' = Not(pat) /\ pc' = "bank"
      BY <2>5 DEF MasksOver
    <3>2. loop = "bank"
      BY <1>1, <2>5, LoopNow DEF LoopTable
    <3>3. (p + Bank) % Space \in Nat
      <4>1. PICK n \in Int : n = p + Bank
        BY <1>3, Sizes
      <4>2. n % Space \in 0 .. Space - 1
        BY Sizes, DivMod
      <4> QED
        BY <4>1, <4>2, Sizes
    <3>4. start \in Nat /\ Ahead /\ p < pe /\ pe = end
      BY <1>1, Here, <3>2
    <3>5. p' \in Nat /\ Ahead'
      BY <1>3, <3>1, <3>3, <3>4, <1>2 DEF Ahead
    <3>6. Shape' /\ AddrPlace' /\ Planted'
      BY <1>1, <1>2, <1>3, <1>5, <2>1, <3>1, <3>2, <3>4, <3>5
      DEF Shape, AddrPlace, Planted, Looping
    <3> QED
      BY <1>1, <2>2, <3>6, AddrKeeps
  <2> QED
    BY <2>1, <2>3, <2>4, <2>5
<1>6. CASE SkipMask /\ UNCHANGED <<pc, p, pat, k, mem, reported>>
  BY <1>1, <1>3, <1>6, <1>2, <1>4, AddrKeeps
  DEF SkipMask, Shape, AddrPlace, Planted, NoFalseAlarm, Looping
<1>7. ASSUME pt # p,
             mem' = Store(mem, trial.fault, pt, pat),
             reported' = IF Load(mem', trial.fault, p) # Not(pat)
                         THEN reported \cup {p} ELSE reported,
             mask' = 2 * mask, k' \in Nat, UNCHANGED <<pc, p, pat>>
      PROVE  IInv'
  <2> HIDE DEF pt
  <2>1. mask' \in Nat /\ mask' # 0
    BY <1>1, <1>3, <1>7
  <2>2. Memory(mem')
    BY <1>3, <1>7, StoreShape
  <2>3. ASSUME Good
        PROVE  mem'[p] = Not(pat) /\ reported' = {}
    <3>1. mem' = [mem EXCEPT ![pt] = pat] /\ Load(mem', trial.fault, p) = mem'[p]
      BY <2>3, GoodMemory, <1>7 DEF Good, Load, Cell
    <3>2. p \in 0 .. Space - 1 /\ mem = [b \in 0 .. Space - 1 |-> mem[b]]
      BY <1>1, <1>3, Sizes DEF Memory
    <3>3. mem'[p] = mem[p]
      BY <1>7, <3>1, <3>2
    <3>4. mem[p] = Not(pat) /\ reported = {}
      BY <1>1, <1>4, <2>3 DEF Planted, NoFalseAlarm, Good
    <3> QED
      BY <1>7, <3>1, <3>3, <3>4
  <2>4. Shape' /\ AddrPlace'
    BY <1>1, <1>2, <1>3, <1>7, <2>1, <2>2 DEF Shape, AddrPlace, Looping, Memory
  <2>5. Planted' /\ NoFalseAlarm'
    BY <1>1, <1>2, <1>7, <2>3 DEF Planted, NoFalseAlarm, Good
  <2> QED
    BY <1>1, <2>4, <2>5, AddrKeeps
<1>8. \/ NextTry(k + 1) /\ UNCHANGED <<mem, reported>>
      \/ SkipMask /\ UNCHANGED <<pc, p, pat, k, mem, reported>>
      \/ /\ pt # p
         /\ mem' = Store(mem, trial.fault, pt, pat)
         /\ reported' = IF Load(mem', trial.fault, p) # Not(pat)
                        THEN reported \cup {p} ELSE reported
         /\ mask' = 2 * mask /\ k' \in {Tries, k} /\ UNCHANGED <<pc, p, pat>>
  BY DEF AddrMask
<1> QED
  BY <1>3, <1>5, <1>6, <1>7, <1>8, Sizes

-----------------------------------------------------------------------------
(* block_move() *)

LEMMA UniqueDiv ==
  ASSUME NEW W \in Nat \ {0}, NEW x \in Int, NEW q \in Int, NEW r \in 0 .. W - 1,
         r = x - W * q
  PROVE  x \div W = q
<1>1. PICK d \in Int : d = x \div W /\ x % W = x - W * d
  BY DivMod
<1>2. x % W = r
  BY UniqueMod
<1>3. PICK wd \in Int, wq \in Int : wd = W * d /\ wq = W * q
  OBVIOUS
<1>4. wd = wq
  BY <1>1, <1>2, <1>3
<1>5. (q - d) * W = W * q - W * d /\ q - d \in Int
  BY SMT
<1>6. (q - d) * W = 0
  BY <1>3, <1>4, <1>5
<1>7. q - d = 0
  BY <1>5, <1>6, SmallMultiple
<1> QED
  BY <1>1, <1>7

(* An even number and the next are in the same row of an even length. *)
LEMMA EvenNext ==
  ASSUME NEW W \in Nat \ {0}, W % 2 = 0, NEW x \in Int, x % 2 = 0
  PROVE  /\ x % W \in 0 .. W - 1 /\ (x % W) % 2 = 0 /\ (x % W) + 1 \in 0 .. W - 1
         /\ (x + 1) % W = (x % W) + 1
         /\ (x + 1) \div W = x \div W
<1>1. PICK m \in 0 .. W - 1, d \in Int : m = x % W /\ d = x \div W /\ m = x - W * d
  BY DivMod
<1>2. PICK wd \in Int : wd = W * d
  OBVIOUS
<1>3. wd % 2 = 0
  <2>1. PICK e \in Int : 0 = W - 2 * e
    BY DivMod
  <2>2. (2 * e) * d = 2 * (e * d) /\ e * d \in Int
    BY SMT
  <2>3. PICK y \in Int : y = e * d
    BY <2>2
  <2>4. wd = 2 * y
    BY <1>2, <2>1, <2>2, <2>3
  <2> QED
    BY <2>4
<1>4. m % 2 = 0
  BY <1>1, <1>2, <1>3
<1>5. m + 1 \in 0 .. W - 1
  BY <1>4
<1>6. m + 1 = (x + 1) - W * d /\ x + 1 \in Int
  BY <1>1, <1>2
<1>7. (x + 1) % W = m + 1 /\ (x + 1) \div W = d
  BY <1>5, <1>6, UniqueMod, UniqueDiv
<1> QED
  BY <1>1, <1>4, <1>5, <1>7

(* A chunk, where a step finds it *)
LEMMA ChunkHere ==
  ASSUME IInv, call.fn = "block_move", pc \in {"word", "tick"},
         (pc = "word" /\ loop = "blocks") \/ loop = "move"
  PROVE  /\ trial \in Trials /\ trial.pat = 7 /\ j \in 1 .. Len(trial.map)
         /\ p \in FirstOf(trial, j) .. trial.map[j].end - 1
         /\ FirstOf(trial, j) \in Nat /\ p \in Nat /\ pe \in Nat
         /\ Whole(p - FirstOf(trial, j))
         /\ p < pe /\ pe <= trial.map[j].end /\ pe = UpTo(trial, j, p)
         /\ pe = p + Spin \/ (pe = trial.map[j].end /\ pe <= p + Spin)
         /\ (pe - p) % 4 = 0 /\ pe - p >= Block
         /\ (p - FirstOf(trial, j)) % 2 = 0
<1>1. Shape /\ Looping
  BY DEF IInv, Looping
<1>2. /\ trial \in Trials /\ trial.pat = 7 /\ j \in 1 .. Len(trial.map)
      /\ SegmentStart = FirstOf(trial, j) /\ SegmentStart \in Nat /\ end = trial.map[j].end
  BY <1>1, CallNow, StartHere DEF Shape, segs, end
<1>3. /\ SegmentStart <= p /\ p < pe /\ pe <= end /\ Whole(p - SegmentStart)
      /\ pe = p + Spin \/ (pe = end /\ end <= p + Spin)
  BY <1>1 DEF IInv, Places, BlockPlace
<1>4. p \in Nat /\ pe \in Nat /\ end \in Nat
  <2>1. pe \in 0 .. Space - 1 /\ p \in Nat
    BY <1>1 DEF Shape
  <2>2. end \in 0 .. Space - 1
    BY <1>1, Here
  <2> QED
    BY <2>1, <2>2, Sizes
<1>5. p \in FirstOf(trial, j) .. trial.map[j].end - 1
  BY <1>2, <1>3, <1>4
<1>6. pe = UpTo(trial, j, p)
  BY <1>2, <1>3, <1>4, Sizes DEF UpTo
<1>7. (pe - p) % 4 = 0 /\ pe - p >= Block
  BY <1>2, <1>3, <1>5, <1>6, ChunkLength
<1>8. (p - FirstOf(trial, j)) % 2 = 0
  <2>1. PICK n \in Int : n = p - FirstOf(trial, j)
    BY <1>2, <1>4
  <2>2. n % Spin = 0
    BY <1>2, <1>3, <2>1 DEF Whole
  <2>3. 2 \in Nat \ {0} /\ Spin \in Nat \ {0}
    BY Sizes
  <2>4. n % 2 = 0
    BY <2>2, <2>3, ModSizes, ModOfDivisor
  <2> QED
    BY <2>1, <2>4
<1> QED
  BY <1>2, <1>3, <1>4, <1>5, <1>6, <1>7, <1>8

(* Other chunks lie outside of it. *)
LEMMA ChunksApart ==
  ASSUME NEW t \in Trials, t.pat = 7,
         NEW i \in 1 .. Len(t.map), NEW c \in FirstOf(t, i) .. t.map[i].end - 1,
         Whole(c - FirstOf(t, i)),
         NEW i2 \in 1 .. Len(t.map), NEW c2 \in FirstOf(t, i2) .. t.map[i2].end - 1,
         Whole(c2 - FirstOf(t, i2)),
         i # i2 \/ c # c2
  PROVE  UpTo(t, i, c) <= c2 \/ UpTo(t, i2, c2) <= c
<1>1. /\ FirstOf(t, i) \in Nat /\ t.map[i].start <= FirstOf(t, i) /\ t.map[i].end \in Nat
      /\ FirstOf(t, i2) \in Nat /\ t.map[i2].start <= FirstOf(t, i2) /\ t.map[i2].end \in Nat
      /\ t.map[i].start \in Nat /\ t.map[i2].start \in Nat
  BY FirstHere, SegmentOrder
<1>2. /\ c \in Nat /\ UpTo(t, i, c) \in Nat /\ UpTo(t, i, c) <= t.map[i].end
      /\ c2 \in Nat /\ UpTo(t, i2, c2) \in Nat /\ UpTo(t, i2, c2) <= t.map[i2].end
      /\ FirstOf(t, i) <= c /\ FirstOf(t, i2) <= c2
  <2>1. FirstOf(t, i) <= c /\ FirstOf(t, i2) <= c2
    BY <1>1
  <2> QED
    BY <2>1, ChunkLength
<1>3. /\ UpTo(t, i, c) <= c + Spin /\ UpTo(t, i2, c2) <= c2 + Spin
  <2>1. c + Spin \in Nat /\ c2 + Spin \in Nat
    BY <1>2, Sizes
  <2>2. UpTo(t, i, c) <= c + Spin
    <3>1. CASE c + Spin < t.map[i].end
      BY <2>1, <3>1 DEF UpTo
    <3>2. CASE ~(c + Spin < t.map[i].end)
      <4>1. UpTo(t, i, c) = t.map[i].end
        BY <3>2 DEF UpTo
      <4>2. PICK e \in Nat, d \in Nat : e = t.map[i].end /\ d = c + Spin
        BY <1>1, <2>1
      <4>3. e <= d
        BY <3>2, <4>2
      <4> QED
        BY <4>1, <4>2, <4>3
    <3> QED
      BY <3>1, <3>2
  <2>3. UpTo(t, i2, c2) <= c2 + Spin
    <3>1. CASE c2 + Spin < t.map[i2].end
      BY <2>1, <3>1 DEF UpTo
    <3>2. CASE ~(c2 + Spin < t.map[i2].end)
      <4>1. UpTo(t, i2, c2) = t.map[i2].end
        BY <3>2 DEF UpTo
      <4>2. PICK e \in Nat, d \in Nat : e = t.map[i2].end /\ d = c2 + Spin
        BY <1>1, <2>1
      <4>3. e <= d
        BY <3>2, <4>2
      <4> QED
        BY <4>1, <4>2, <4>3
    <3> QED
      BY <3>1, <3>2
  <2> QED
    BY <2>2, <2>3
<1>4. PICK u \in Nat, u2 \in Nat : u = UpTo(t, i, c) /\ u2 = UpTo(t, i2, c2)
  BY <1>2
<1>5. CASE i = i2
  <2>1. c # c2 /\ FirstOf(t, i) = FirstOf(t, i2)
    BY <1>5
  <2>2. PICK n \in Int, n2 \in Int : n = c - FirstOf(t, i) /\ n2 = c2 - FirstOf(t, i)
    BY <1>1, <1>2
  <2>3. n % Spin = 0 /\ n2 % Spin = 0
    BY <2>1, <2>2 DEF Whole
  <2>4. u <= c + Spin /\ u2 <= c2 + Spin /\ Spin \in Nat \ {0}
    BY <1>3, <1>4, Sizes
  <2>5. CASE c < c2
    <3>1. n < n2
      BY <1>1, <1>2, <2>2, <2>5
    <3>2. n + Spin <= n2
      BY <2>3, <2>4, <3>1, StepApart
    <3>3. c + Spin <= c2
      <4>1. PICK f \in Nat : f = FirstOf(t, i)
        BY <1>1
      <4>2. c \in Nat /\ c2 \in Nat
        BY <1>2
      <4>3. n = c - f /\ n2 = c2 - f
        BY <2>2, <4>1
      <4>4. c = f + n /\ c2 = f + n2
        BY <4>1, <4>2, <4>3
      <4>5. PICK w \in Nat : w = Spin
        BY <2>4
      <4>6. n + w <= n2
        BY <3>2, <4>5
      <4>7. (f + n) + w <= f + n2
        BY <4>6
      <4>8. c + w <= c2
        BY <4>4, <4>7, Zenon
      <4> QED
        BY <4>5, <4>8, Zenon
    <3>4. u <= c2
      BY <1>2, <2>4, <3>3
    <3> QED
      BY <1>4, <3>4
  <2>6. CASE c2 < c
    <3>1. n2 < n
      BY <1>1, <1>2, <2>2, <2>6
    <3>2. n2 + Spin <= n
      BY <2>3, <2>4, <3>1, StepApart
    <3>3. c2 + Spin <= c
      <4>1. PICK f \in Nat : f = FirstOf(t, i)
        BY <1>1
      <4>2. c \in Nat /\ c2 \in Nat
        BY <1>2
      <4>3. n = c - f /\ n2 = c2 - f
        BY <2>2, <4>1
      <4>4. c2 = f + n2 /\ c = f + n
        BY <4>1, <4>2, <4>3
      <4>5. PICK w \in Nat : w = Spin
        BY <2>4
      <4>6. n2 + w <= n
        BY <3>2, <4>5
      <4>7. (f + n2) + w <= f + n
        BY <4>6
      <4>8. c2 + w <= c
        BY <4>4, <4>7, Zenon
      <4> QED
        BY <4>5, <4>8, Zenon
    <3>4. u2 <= c
      BY <1>2, <2>4, <3>3
    <3> QED
      BY <1>4, <3>4
  <2>7. c < c2 \/ c2 < c
    BY <1>2, <2>1
  <2> QED
    BY <2>5, <2>6, <2>7
<1>6. CASE i # i2
  <2>1. i \in Nat /\ i2 \in Nat
    OBVIOUS
  <2>2. CASE i < i2
    <3>1. i \in 1 .. i2 - 1
      BY <2>1, <2>2
    <3>2. t.map[i].end < t.map[i2].start
      BY <3>1, Segments
    <3>3. u <= c2
      <4>1. PICK e \in Nat, s2 \in Nat, f2 \in Nat :
              e = t.map[i].end /\ s2 = t.map[i2].start /\ f2 = FirstOf(t, i2)
        BY <1>1
      <4>2. u <= e /\ e < s2 /\ s2 <= f2 /\ f2 <= c2
        BY <1>1, <1>2, <1>4, <3>2, <4>1
      <4> QED
        BY <1>2, <4>2
    <3> QED
      BY <1>4, <3>3
  <2>3. CASE i2 < i
    <3>1. i2 \in 1 .. i - 1
      BY <2>1, <2>3
    <3>2. t.map[i2].end < t.map[i].start
      BY <3>1, Segments
    <3>3. u2 <= c
      <4>1. PICK e2 \in Nat, s \in Nat, f \in Nat :
              e2 = t.map[i2].end /\ s = t.map[i].start /\ f = FirstOf(t, i)
        BY <1>1
      <4>2. u2 <= e2 /\ e2 < s /\ s <= f /\ f <= c
        BY <1>1, <1>2, <1>4, <3>2, <4>1
      <4> QED
        BY <1>2, <4>2
    <3> QED
      BY <1>4, <3>3
  <2> QED
    BY <1>6, <2>1, <2>2, <2>3
<1> QED
  BY <1>5, <1>6

(* What is paired stays so when nothing in it changes. *)
LEMMA SamePairs ==
  ASSUME NEW m, NEW m2, NEW first, NEW from \in Int, NEW to \in Int,
         Paired(m, first, from, to),
         \A a \in from .. to - 1 : m2[a] = m[a]
  PROVE  Paired(m2, first, from, to)
<1> SUFFICES ASSUME NEW a \in from .. to - 2, (a - first) % 2 = 0
             PROVE  m2[a] = m2[a + 1]
  BY DEF Paired
<1>1. a \in from .. to - 1 /\ a + 1 \in from .. to - 1
  OBVIOUS
<1>2. m[a] = m[a + 1]
  BY DEF Paired
<1> QED
  BY <1>1, <1>2

(* A chunk written in good memory *)
LEMMA ChunkWritten ==
  ASSUME Good, NEW m, Memory(m), NEW value
  PROVE  \A a \in 0 .. Space - 1 :
           Chunk(m, value)[a] = IF a \in p .. pe - 1 THEN value[a] ELSE m[a]
<1>1. DOMAIN m = 0 .. Space - 1
  BY DEF Memory
<1>2. ASSUME NEW a
      PROVE  Held(trial.fault, a, value[a]) = value[a]
  BY DEF Good, Held
<1> QED
  BY <1>1, <1>2 DEF Chunk

LEMMA ChunkShape ==
  ASSUME NEW m, Memory(m), NEW value
  PROVE  Memory(Chunk(m, value))
BY DEF Memory, Chunk

(* ... whatever its fault is *)
LEMMA ChunkOutside ==
  ASSUME NEW m, Memory(m), NEW value
  PROVE  \A a \in 0 .. Space - 1 : a \notin p .. pe - 1 => Chunk(m, value)[a] = m[a]
BY DEF Memory, Chunk

LEMMA BlockFrame ==
  ASSUME IInv, Looping, call.fn = "block_move", UNCHANGED <<trial, calls, loops>>,
         pc' \notin {"mask", "bank"},
         Shape', BlockPlace', Blocked', NoFalseAlarm'
  PROVE  IInv'
<1>1. Shape /\ loop \in {"blocks", "move", "pairs"}
  BY LoopNow DEF IInv, LoopTable
<1>2. call'.fn = "block_move" /\ loop' \in {"blocks", "move", "pairs"}
      /\ ~Down' /\ ~Modular' /\ ~Stepwise'
  BY <1>1, SameLoop DEF Down, Modular, Stepwise
<1>3. Places'
  BY <1>2 DEF Places, UpPlace, ModPlace, DownPlace, AddrPlace
<1>4. Marked'
  BY <1>2 DEF Marked, Registers32, RegistersR, RegistersMod
<1>5. Filled' /\ Planted'
  BY <1>2 DEF Filled, Planted
<1> QED
  BY <1>3, <1>4, <1>5 DEF IInv

(* The other chunks, when the one at p is written *)
LEMMA OtherChunk ==
  ASSUME NEW t \in Trials, t.pat = 7,
         NEW i \in 1 .. Len(t.map), NEW c \in FirstOf(t, i) .. t.map[i].end - 1,
         Whole(c - FirstOf(t, i)),
         NEW i2 \in 1 .. Len(t.map), NEW c2 \in FirstOf(t, i2) .. t.map[i2].end - 1,
         Whole(c2 - FirstOf(t, i2)),
         i # i2 \/ c # c2,
         NEW m, NEW m2,
         \A a \in 0 .. Space - 1 : a \notin c2 .. UpTo(t, i2, c2) - 1 => m2[a] = m[a],
         LowerPaired(m, t, i, c)
  PROVE  LowerPaired(m2, t, i, c)
<1>1. /\ c \in Nat /\ UpTo(t, i, c) \in Nat /\ UpTo(t, i, c) <= t.map[i].end
      /\ c2 \in Nat /\ UpTo(t, i2, c2) \in Nat
      /\ UpTo(t, i, c) - c >= Block
      /\ t.map[i].end \in Nat /\ t.map[i].end < Space
  BY ChunkLength, SegmentOrder
<1>2. UpTo(t, i, c) <= c2 \/ UpTo(t, i2, c2) <= c
  BY ChunksApart
<1>3. PICK u \in Nat, u2 \in Nat, h \in Nat :
        u = UpTo(t, i, c) /\ u2 = UpTo(t, i2, c2) /\ h = (u - c) \div 2
  BY <1>1, Sizes
<1>4. c + h <= u /\ u < Space
  <2>1. c < u
    BY <1>1, <1>3, Sizes
  <2>2. c + h <= u
    BY <1>1, <1>3, <2>1
  <2>3. PICK e \in Nat : e = t.map[i].end /\ e < Space /\ u <= e
    BY <1>1, <1>3
  <2>4. Space \in Nat
    BY Sizes
  <2>5. u < Space
    BY <2>3, <2>4
  <2> QED
    BY <2>2, <2>5
<1>5. Paired(m, FirstOf(t, i), c, c + h)
  BY <1>3 DEF LowerPaired
<1>6. ASSUME NEW a \in c .. c + h - 1
      PROVE  m2[a] = m[a]
  <2>1. a \in 0 .. Space - 1
    BY <1>1, <1>4, Sizes
  <2>2. a \notin c2 .. u2 - 1
    <3>1. u <= c2 \/ u2 <= c
      BY <1>2, <1>3
    <3>2. a \in Nat /\ c <= a /\ a < c + h /\ c2 \in Nat /\ c \in Nat
      BY <1>1
    <3> QED
      BY <1>4, <3>1, <3>2
  <2> QED
    BY <1>3, <2>1, <2>2
<1>7. c \in Int /\ c + h \in Int
  BY <1>1
<1>8. Paired(m2, FirstOf(t, i), c, c + h)
  BY <1>5, <1>6, <1>7, SamePairs
<1> QED
  BY <1>3, <1>8 DEF LowerPaired

(* The rows that block_move() writes come in pairs. *)
LEMMA RowsPaired ==
  ASSUME IInv, Good, Blocks
  PROVE  LowerPaired(mem', trial, j, p)
<1> DEFINE F == FirstOf(trial, j)
           len == ((pe - p) \div Block) * Block
           value == [a \in p .. pe - 1 |->
                      LET eax == Rol({0}, (a - p) \div Block)
                      IN  IF a - p >= len THEN mem[a]
                          ELSE IF (a - p) % Block \in Inverted THEN Not(eax) ELSE eax]
<1>1. mem' = Chunk(mem, value) /\ In("block_move", "blocks")
  BY DEF Blocks
<1>2. /\ p \in Nat /\ pe \in Nat /\ p < pe /\ pe - p >= Block /\ F \in Nat /\ (p - F) % 2 = 0
      /\ pe = UpTo(trial, j, p) /\ pe <= trial.map[j].end
      /\ trial \in Trials /\ j \in 1 .. Len(trial.map)
  BY <1>1, ChunkHere DEF In
<1>3. PICK n \in Nat : n = pe - p /\ n >= Block
  BY <1>2
<1>4. n \div 2 <= len /\ len <= n /\ len \in Nat
  BY <1>3, Sizes, BlocksOf
<1>5. PICK h \in Nat, l \in Nat : h = n \div 2 /\ l = len /\ h <= l /\ l <= n
  BY <1>3, <1>4
<1>6. pe < Space
  <2>1. PICK e \in Nat : e = trial.map[j].end /\ e < Space
    BY <1>2, SegmentOrder
  <2>2. pe \in Nat /\ pe <= e
    BY <1>2, <2>1
  <2> QED
    BY <2>1, <2>2, Sizes
<1>7. Memory(mem)
  BY DEF IInv, Shape, Memory
<1>8. Block % 2 = 0
  BY Sizes
<1>9. ASSUME NEW a \in p .. p + h - 2, (a - F) % 2 = 0
      PROVE  mem'[a] = mem'[a + 1]
  <2>1. PICK x \in Nat : x = a - p
    BY <1>2
  <2>2. x % 2 = 0
    <3>1. PICK f \in Nat : f = F
      BY <1>2
    <3>2. (p - f) % 2 = 0 /\ (a - f) % 2 = 0 /\ a \in Nat
      BY <1>2, <1>9, <3>1
    <3> HIDE DEF F
    <3> QED
      BY <1>2, <2>1, <3>2
  <2>3. x + 1 = (a + 1) - p /\ x + 1 < l /\ a \in Nat
    BY <1>2, <1>5, <2>1
  <2>4. a \in p .. pe - 1 /\ a + 1 \in p .. pe - 1
        /\ a \in 0 .. Space - 1 /\ a + 1 \in 0 .. Space - 1
    <3>1. p <= a /\ a + 1 < pe
      <4> HIDE DEF len, F
      <4>1. pe = p + n /\ p \in Nat
        BY <1>2, <1>3
      <4>2. x + 1 < n
        BY <1>5, <2>1, <2>3
      <4>3. a = p + x
        BY <2>1, <2>3, <4>1
      <4> QED
        BY <4>1, <4>2, <4>3
    <3> QED
      BY <1>2, <1>6, <2>3, <3>1, Sizes
  <2>5. x \in Int /\ x + 1 \in Int
    BY <2>1
  <2>6. /\ x % Block \in 0 .. Block - 1 /\ (x % Block) % 2 = 0
        /\ (x + 1) % Block = (x % Block) + 1 /\ (x + 1) \div Block = x \div Block
    BY <1>8, <2>2, <2>5, Sizes, EvenNext
  <2>7. (x % Block \in Inverted) = (((x + 1) % Block) \in Inverted)
    BY <2>6, TestsAssumption
  <2>8. mem'[a] = value[a] /\ mem'[a + 1] = value[a + 1]
    <3> HIDE DEF value
    <3>1. \A b \in 0 .. Space - 1 :
            Chunk(mem, value)[b] = IF b \in p .. pe - 1 THEN value[b] ELSE mem[b]
      BY <1>7, ChunkWritten
    <3> QED
      BY <1>1, <2>4, <3>1
  <2>9. value[a] = IF x % Block \in Inverted THEN Not(Rol({0}, x \div Block))
                   ELSE Rol({0}, x \div Block)
    BY <1>5, <2>1, <2>3, <2>4
  <2>10. value[a + 1] = IF (x + 1) % Block \in Inverted THEN Not(Rol({0}, (x + 1) \div Block))
                        ELSE Rol({0}, (x + 1) \div Block)
    BY <1>5, <2>3, <2>4
  <2> HIDE DEF value
  <2> QED
    BY <2>6, <2>7, <2>8, <2>9, <2>10
<1>10. h = (UpTo(trial, j, p) - p) \div 2
  BY <1>2, <1>3, <1>5
<1>11. Paired(mem', F, p, p + h)
  <2> HIDE DEF F
  <2> SUFFICES ASSUME NEW a \in p .. (p + h) - 2, (a - F) % 2 = 0
               PROVE  mem'[a] = mem'[a + 1]
    BY DEF Paired
  <2>1. a \in p .. p + h - 2
    BY <1>2
  <2> QED
    BY <1>9, <2>1
<1> QED
  BY <1>10, <1>11 DEF LowerPaired

LEMMA BlocksKeeps ==
  ASSUME IInv, Blocks
  PROVE  IInv'
<1> DEFINE len == ((pe - p) \div Block) * Block
           value == [a \in p .. pe - 1 |->
                      LET eax == Rol({0}, (a - p) \div Block)
                      IN  IF a - p >= len THEN mem[a]
                          ELSE IF (a - p) % Block \in Inverted THEN Not(eax) ELSE eax]
<1>1. /\ pc = "word" /\ call.fn = "block_move" /\ loop = "blocks"
      /\ mem' = Chunk(mem, value) /\ p' = p + len /\ pc' = "tick"
      /\ UNCHANGED <<trial, calls, loops, j, pe, done, pat, k, mask, reported>>
  BY DEF Blocks, In, registers
<1>2. /\ trial \in Trials /\ trial.pat = 7 /\ j \in 1 .. Len(trial.map)
      /\ p \in FirstOf(trial, j) .. trial.map[j].end - 1
      /\ p \in Nat /\ pe \in Nat /\ p < pe /\ pe - p >= Block
      /\ pe = UpTo(trial, j, p)
      /\ pe = p + Spin \/ (pe = trial.map[j].end /\ pe <= p + Spin)
      /\ Whole(p - FirstOf(trial, j))
  BY <1>1, ChunkHere
<1>3. PICK n \in Nat : n = pe - p /\ n >= Block
  BY <1>2
<1>4. len <= n /\ len \in Nat /\ (n % Block = 0 => len = n)
  BY <1>3, Sizes, BlocksOf
<1>5. Memory(mem) /\ Shape /\ Looping
  BY <1>1 DEF IInv, Shape, Memory, Looping
<1>6. Memory(mem') /\ (Good => \A a \in 0 .. Space - 1 :
        a \notin p .. pe - 1 => mem'[a] = mem[a])
  BY <1>1, <1>5, ChunkShape, ChunkWritten
<1> HIDE DEF len, value
<1>7. p' \in Nat /\ p <= p' /\ p' <= pe
  BY <1>1, <1>2, <1>3, <1>4
<1>8. /\ call' = call /\ loop' = loop /\ segs' = segs /\ start' = start /\ end' = end
      /\ SegmentStart' = SegmentStart /\ (Good' <=> Good)
  BY <1>1, SameLoop, SameSegment
<1>9. Shape'
  BY <1>1, <1>5, <1>6, <1>7, <1>8 DEF Shape, Memory, Looping
<1>10. BlockPlace'
  <2>1. /\ SegmentStart <= p /\ pe <= end /\ SegmentStart < pe /\ done = (pe = end)
        /\ done \/ Whole(pe - SegmentStart)
    BY <1>1 DEF IInv, Places, BlockPlace
  <2>2. done \/ p' = pe
    <3>1. CASE pe = end
      BY <2>1, <3>1
    <3>2. CASE pe # end
      <4>1. n = Spin
        BY <1>2, <1>3, <3>2, Sizes DEF end
      <4>2. n % Block = 0
        BY <4>1, Sizes
      <4>3. len = n
        BY <1>4, <4>2
      <4> QED
        BY <1>1, <1>2, <1>3, <4>3
    <3> QED
      BY <3>1, <3>2
  <2>3. SegmentStart <= p'
    BY <1>5, StartHere, <1>2, <1>7, <2>1
  <2> QED
    BY <1>1, <1>7, <1>8, <2>1, <2>2, <2>3 DEF BlockPlace
<1>11. Blocked'
  <2> SUFFICES ASSUME Good, NEW i \in 1 .. segs,
                      NEW c \in FirstOf(trial, i) .. trial.map[i].end - 1,
                      Whole(c - FirstOf(trial, i)),
                      i < j \/ (i = j /\ c < pe)
               PROVE  LowerPaired(mem', trial, i, c)
    BY <1>1, <1>8 DEF Blocked
  <2>1. CASE i = j /\ c = p
    BY <2>1, RowsPaired
  <2>2. CASE i # j \/ c # p
    <3>1. i \in 1 .. Len(trial.map)
      BY DEF segs
    <3>2. i < j \/ (i = j /\ pc # "segment" /\ c < p)
      <4>1. CASE i = j
        <5>1. pe <= c \/ UpTo(trial, i, c) <= p
          BY <1>2, <2>2, <3>1, ChunksApart
        <5>2. c \in Nat /\ UpTo(trial, i, c) \in Nat /\ UpTo(trial, i, c) - c >= Block
          BY <1>2, <3>1, ChunkLength
        <5>3. c < pe
          BY <4>1
        <5>4. c < UpTo(trial, i, c)
          BY <5>2, Sizes
        <5>5. p \in Nat /\ pe \in Nat
          BY <1>2
        <5>6. c < p
          BY <5>1, <5>2, <5>3, <5>4, <5>5
        <5> QED
          BY <1>1, <4>1, <5>6
      <4> QED
        BY <4>1
    <3>3. LowerPaired(mem, trial, i, c)
      BY <1>1, <1>5, <3>2 DEF IInv, Blocked
    <3>4. \A a \in 0 .. Space - 1 : a \notin p .. UpTo(trial, j, p) - 1 => mem'[a] = mem[a]
      BY <1>2, <1>6
    <3>5. trial \in Trials /\ trial.pat = 7 /\ j \in 1 .. Len(trial.map)
          /\ p \in FirstOf(trial, j) .. trial.map[j].end - 1 /\ Whole(p - FirstOf(trial, j))
      BY <1>2
    <3> QED
      BY <2>2, <3>1, <3>3, <3>4, <3>5, OtherChunk
  <2> QED
    BY <2>1, <2>2
<1>12. NoFalseAlarm'
  BY <1>1 DEF IInv, NoFalseAlarm
<1> QED
  BY <1>1, <1>5, <1>9, <1>10, <1>11, <1>12, BlockFrame

(* Where a word of the moved chunk comes from: the lower half, always *)
LEMMA MovedFrom ==
  ASSUME IInv, Good, BlockMove,
         NEW h \in Nat, pe = p + 2 * h, h > 0,
         NEW a \in p .. pe - 1
  PROVE  mem'[a] = IF a >= p + h THEN mem[a - h]
                   ELSE mem[p + ((a - p - (Block \div 2)) % h)]
<1> DEFINE lower == [b \in p .. pe - 1 |-> IF b < p + h THEN mem[b] ELSE mem[b - h]]
           up == Chunk(mem, lower)
           back == [b \in p .. pe - 1 |->
                      IF b >= p + h THEN up[b]
                      ELSE up[p + h + ((b - p - (Block \div 2)) % h)]]
<1>1. Memory(mem) /\ p \in Nat /\ pe \in Nat /\ pe < Space
  <2>1. Memory(mem) /\ p \in Nat /\ pe \in 0 .. Space - 1
    BY DEF IInv, Shape, Memory
  <2> QED
    BY <2>1, Sizes
<1>2. mem' = Chunk(up, back)
  <2>1. (pe - p) \div 2 = h
    BY <1>1
  <2> QED
    BY <2>1 DEF BlockMove, Moved
<1>3. Memory(up)
  <2> HIDE DEF lower
  <2> QED
    BY <1>1, ChunkShape
<1>4. \A b \in 0 .. Space - 1 : up[b] = IF b \in p .. pe - 1 THEN lower[b] ELSE mem[b]
  <2> HIDE DEF lower
  <2> QED
    BY <1>1, ChunkWritten
<1>5. \A b \in 0 .. Space - 1 : mem'[b] = IF b \in p .. pe - 1 THEN back[b] ELSE up[b]
  <2> HIDE DEF up, back
  <2> QED
    BY <1>2, <1>3, ChunkWritten
<1>6. \A b \in p .. pe - 1 : b \in 0 .. Space - 1
  BY <1>1, Sizes
<1>7. a \in Nat /\ p <= a /\ a < pe
  BY <1>1
<1>8. mem'[a] = IF a >= p + h THEN up[a]
                ELSE up[p + h + ((a - p - (Block \div 2)) % h)]
  <2> HIDE DEF up
  <2>1. mem'[a] = back[a]
    BY <1>5, <1>6
  <2> QED
    BY <2>1
<1>9. ASSUME NEW b \in p + h .. pe - 1
      PROVE  up[b] = mem[b - h]
  <2>1. b \in p .. pe - 1 /\ ~(b < p + h)
    BY <1>1
  <2>2. up[b] = lower[b]
    <3> HIDE DEF lower, up
    <3> QED
      BY <1>4, <1>6, <2>1
  <2>3. lower[b] = mem[b - h]
    <3> HIDE DEF up
    <3> QED
      BY <2>1
  <2> QED
    BY <2>2, <2>3
<1> HIDE DEF lower, up, back
<1>10. CASE a >= p + h
  BY <1>1, <1>7, <1>10, <1>8, <1>9
<1>11. CASE ~(a >= p + h)
  <2>1. PICK x \in Int : x = a - p - (Block \div 2)
    BY Sizes, <1>1, <1>7
  <2>2. x % h \in 0 .. h - 1
    <3>1. h \in Nat \ {0}
      OBVIOUS
    <3> QED
      BY <2>1, <3>1, DivMod
  <2>3. PICK b \in Int : b = p + h + (x % h) /\ b \in p + h .. pe - 1
                         /\ b - h = p + (x % h)
    BY <1>1, <2>2
  <2>4. up[b] = mem[b - h]
    BY <1>9, <2>3
  <2> QED
    BY <1>8, <1>11, <2>1, <2>3, <2>4
<1> QED
  BY <1>10, <1>11

LEMMA MovedOutside ==
  ASSUME IInv, BlockMove
  PROVE  \A a \in 0 .. Space - 1 : a \notin p .. pe - 1 => mem'[a] = mem[a]
<1> DEFINE half == (pe - p) \div 2
           lower == [b \in p .. pe - 1 |-> IF b < p + half THEN mem[b] ELSE mem[b - half]]
           up == Chunk(mem, lower)
           back == [b \in p .. pe - 1 |->
                      IF b >= p + half THEN up[b]
                      ELSE up[p + half + ((b - p - (Block \div 2)) % half)]]
<1>1. Memory(mem)
  BY DEF IInv, Shape, Memory
<1>2. mem' = Chunk(up, back)
  BY DEF BlockMove, Moved
<1> HIDE DEF back
<1>3. Memory(up) /\ \A a \in 0 .. Space - 1 : a \notin p .. pe - 1 => up[a] = mem[a]
  <2> HIDE DEF lower
  <2> QED
    BY <1>1, ChunkShape, ChunkOutside
<1> HIDE DEF up
<1>4. \A a \in 0 .. Space - 1 : a \notin p .. pe - 1 => mem'[a] = up[a]
  BY <1>2, <1>3, ChunkOutside
<1> QED
  BY <1>3, <1>4

LEMMA MovedShape ==
  ASSUME IInv, BlockMove
  PROVE  Memory(mem')
<1> DEFINE half == (pe - p) \div 2
           lower == [b \in p .. pe - 1 |-> IF b < p + half THEN mem[b] ELSE mem[b - half]]
           up == Chunk(mem, lower)
           back == [b \in p .. pe - 1 |->
                      IF b >= p + half THEN up[b]
                      ELSE up[p + half + ((b - p - (Block \div 2)) % half)]]
<1>1. Memory(mem)
  BY DEF IInv, Shape, Memory
<1>2. mem' = Chunk(up, back)
  BY DEF BlockMove, Moved
<1> HIDE DEF back
<1>3. Memory(up)
  <2> HIDE DEF lower
  <2> QED
    BY <1>1, ChunkShape
<1> HIDE DEF up
<1> QED
  BY <1>2, <1>3, ChunkShape

(* After the move the pairs are pairs in the whole chunk. *)
LEMMA MovedPaired ==
  ASSUME IInv, Good, BlockMove
  PROVE  Paired(mem', FirstOf(trial, j), p, pe)
<1>1. In("block_move", "move") /\ Looping /\ Shape
  BY DEF BlockMove, In, Looping, IInv
<1>2. /\ p \in Nat /\ pe \in Nat /\ p < pe /\ pe - p >= Block /\ (pe - p) % 4 = 0
      /\ pe = UpTo(trial, j, p)
      /\ p \in FirstOf(trial, j) .. trial.map[j].end - 1
      /\ Whole(p - FirstOf(trial, j)) /\ (p - FirstOf(trial, j)) % 2 = 0
      /\ FirstOf(trial, j) \in Nat /\ j \in 1 .. segs
  BY <1>1, ChunkHere DEF In, segs
<1>3. PICK F \in Nat : F = FirstOf(trial, j)
  BY <1>2
<1>4. PICK h \in Nat : h = (pe - p) \div 2 /\ pe = p + 2 * h /\ h > 0 /\ h % 2 = 0
  <2>1. PICK n \in Nat : n = pe - p /\ n > 0 /\ n % 4 = 0
    BY <1>2
  <2>2. n \div 2 \in Nat /\ n = 2 * (n \div 2) /\ n \div 2 > 0 /\ (n \div 2) % 2 = 0
    BY <2>1
  <2>3. PICK x \in Nat : x = n \div 2
    BY <2>2
  <2> QED
    BY <1>2, <2>1, <2>2, <2>3
<1>5. Paired(mem, F, p, p + h)
  BY <1>1, <1>2, <1>3, <1>4 DEF IInv, Blocked, In, LowerPaired
<1>6. ASSUME NEW b \in p .. p + h - 2, (b - F) % 2 = 0
      PROVE  mem[b] = mem[b + 1]
  BY <1>2, <1>5, <1>6 DEF Paired
<1>7. SUFFICES ASSUME NEW a \in p .. pe - 2, (a - F) % 2 = 0
               PROVE  mem'[a] = mem'[a + 1]
  BY <1>3 DEF Paired
<1>8. /\ a \in Nat /\ p <= a /\ a + 1 < pe /\ (a - p) % 2 = 0
      /\ a \in p .. pe - 1 /\ a + 1 \in p .. pe - 1
  BY <1>2, <1>3, <1>7
<1>9. PICK a2 \in p .. pe - 1 : a2 = a + 1
  BY <1>8
<1>12. mem'[a] = IF a >= p + h THEN mem[a - h]
                 ELSE mem[p + ((a - p - (Block \div 2)) % h)]
  BY <1>4, <1>8, MovedFrom
<1>13. mem'[a2] = IF a2 >= p + h THEN mem[a2 - h]
                  ELSE mem[p + ((a2 - p - (Block \div 2)) % h)]
  BY <1>4, MovedFrom
<1>10. CASE a >= p + h
  <2>1. a - h \in p .. p + h - 2 /\ (a - h) + 1 = a2 - h
    <3>1. p \in Nat /\ a \in Nat /\ a + 1 < p + 2 * h /\ a2 = a + 1
      BY <1>2, <1>4, <1>8, <1>9
    <3>2. p <= a - h /\ a - h <= p + h - 2
      BY <1>10, <3>1
    <3> QED
      BY <3>1, <3>2
  <2>2. ((a - h) - F) % 2 = 0
    BY <1>4, <1>7, <1>8
  <2>3. a2 >= p + h
    BY <1>2, <1>8, <1>9, <1>10
  <2>4. mem[a - h] = mem[(a - h) + 1]
    BY <1>6, <2>1, <2>2
  <2>5. mem'[a] = mem[a - h] /\ mem'[a2] = mem[a2 - h]
    BY <1>10, <1>12, <1>13, <2>3
  <2> QED
    BY <1>9, <2>1, <2>4, <2>5
<1>11. CASE ~(a >= p + h)
  <2>1. ~(a2 >= p + h)
    BY <1>2, <1>4, <1>8, <1>9, <1>11
  <2>2. PICK x \in Int : /\ x = a - p - (Block \div 2)
                         /\ x + 1 = a2 - p - (Block \div 2) /\ x % 2 = 0
    <3>1. PICK b \in Int : b = Block \div 2 /\ b % 2 = 0
      BY Sizes
    <3> QED
      BY <1>2, <1>8, <1>9, <3>1
  <2>3. x % h \in 0 .. h - 1 /\ (x % h) % 2 = 0 /\ (x % h) + 1 \in 0 .. h - 1
        /\ (x + 1) % h = (x % h) + 1
    <3>1. h \in Nat \ {0} /\ h % 2 = 0 /\ x \in Int /\ x % 2 = 0
      BY <1>4, <2>2
    <3> QED
      BY <3>1, EvenNext
  <2>4. PICK y \in 0 .. h - 1 : y = x % h /\ y % 2 = 0 /\ y + 1 \in 0 .. h - 1
    BY <2>3
  <2>5. p + y \in p .. p + h - 2 /\ ((p + y) - F) % 2 = 0 /\ (p + y) + 1 = p + (y + 1)
    BY <1>2, <1>3, <2>4
  <2>6. mem[p + y] = mem[(p + y) + 1]
    BY <1>6, <2>5
  <2>7. mem'[a] = mem[p + y]
    BY <1>11, <1>12, <2>2, <2>4
  <2>8. mem'[a2] = mem[p + (y + 1)]
    BY <1>13, <2>1, <2>2, <2>3, <2>4
  <2> QED
    BY <1>9, <2>5, <2>6, <2>7, <2>8
<1> QED
  BY <1>10, <1>11

LEMMA PairsWithin ==
  ASSUME NEW m, NEW first, NEW from \in Int, NEW to \in Int,
         NEW from2 \in Int, NEW to2 \in Int, from <= from2, to2 <= to,
         Paired(m, first, from, to)
  PROVE  Paired(m, first, from2, to2)
<1>1. ASSUME NEW a \in from2 .. to2 - 2
      PROVE  a \in from .. to - 2
  OBVIOUS
<1> QED
  BY <1>1 DEF Paired

LEMMA PairsJoined ==
  ASSUME NEW m, NEW first \in Int, NEW x \in Int, NEW y \in Int, (x - first) % 2 = 0,
         Paired(m, first, first, x), Paired(m, first, x, y)
  PROVE  Paired(m, first, first, y)
<1> SUFFICES ASSUME NEW a \in first .. y - 2, (a - first) % 2 = 0
             PROVE  m[a] = m[a + 1]
  BY DEF Paired
<1>1. a \in first .. x - 2 \/ a \in x .. y - 2
  OBVIOUS
<1> QED
  BY <1>1 DEF Paired

LEMMA MoveKeeps ==
  ASSUME IInv, BlockMove
  PROVE  IInv'
<1>1. /\ pc = "word" /\ call.fn = "block_move" /\ loop = "move" /\ Looping /\ Shape
      /\ k' = k + 1 /\ pc' = "tick"
      /\ UNCHANGED <<trial, calls, loops, j, p, pe, done, pat, mask, reported>>
  BY DEF BlockMove, In, pointers, Looping, IInv
<1>2. /\ trial \in Trials /\ trial.pat = 7 /\ j \in 1 .. Len(trial.map)
      /\ p \in FirstOf(trial, j) .. trial.map[j].end - 1
      /\ p \in Nat /\ pe \in Nat /\ p < pe /\ FirstOf(trial, j) \in Nat
      /\ pe = UpTo(trial, j, p) /\ pe <= trial.map[j].end
      /\ Whole(p - FirstOf(trial, j)) /\ (p - FirstOf(trial, j)) % 2 = 0
  BY <1>1, ChunkHere
<1>3. /\ call' = call /\ loop' = loop /\ segs' = segs /\ start' = start /\ end' = end
      /\ SegmentStart' = SegmentStart /\ (Good' <=> Good)
  BY <1>1, SameLoop, SameSegment
<1>4. k \in Nat /\ k' \in Nat /\ k' > 0
  BY <1>1 DEF Shape
<1>5. Memory(mem')
  BY MovedShape
<1>6. Shape'
  BY <1>1, <1>3, <1>4, <1>5 DEF Shape, Memory, Looping
<1>7. BlockPlace'
  BY <1>1, <1>3, <1>4 DEF IInv, Places, BlockPlace
<1>8. Blocked'
  <2> SUFFICES ASSUME Good, NEW i \in 1 .. segs
               PROVE  /\ \A c \in FirstOf(trial, i) .. trial.map[i].end - 1 :
                           Whole(c - FirstOf(trial, i)) => LowerPaired(mem', trial, i, c)
                      /\ i < j => Paired(mem', FirstOf(trial, i), FirstOf(trial, i),
                                         trial.map[i].end)
                      /\ i = j => Paired(mem', FirstOf(trial, i), FirstOf(trial, i), pe)
    BY <1>1, <1>3, <1>4 DEF Blocked
  <2>1. /\ \A c \in FirstOf(trial, i) .. trial.map[i].end - 1 :
             Whole(c - FirstOf(trial, i)) => LowerPaired(mem, trial, i, c)
        /\ i < j => Paired(mem, FirstOf(trial, i), FirstOf(trial, i), trial.map[i].end)
        /\ i = j => Paired(mem, FirstOf(trial, i), FirstOf(trial, i), IF k > 0 THEN pe ELSE p)
    BY <1>1 DEF IInv, Blocked
  <2>2. \A a \in 0 .. Space - 1 : a \notin p .. pe - 1 => mem'[a] = mem[a]
    BY MovedOutside
  <2>3. Paired(mem', FirstOf(trial, j), p, pe)
    BY MovedPaired
  <2>4. i \in 1 .. Len(trial.map)
    BY DEF segs
  <2>5. FirstOf(trial, i) \in Nat /\ trial.map[i].end \in Nat /\ trial.map[i].end < Space
    BY <1>2, <2>4, FirstHere, SegmentOrder
  <2>6. ASSUME NEW c \in FirstOf(trial, i) .. trial.map[i].end - 1,
               Whole(c - FirstOf(trial, i))
        PROVE  LowerPaired(mem', trial, i, c)
    <3>1. CASE i = j /\ c = p
      <4>1. PICK n \in Nat : n = pe - p /\ n \div 2 \in Int /\ p + (n \div 2) <= pe
        <5>1. PICK n \in Nat : n = pe - p
          BY <1>2
        <5>2. n \div 2 \in Nat /\ n \div 2 <= n
          BY <5>1
        <5> QED
          BY <1>2, <5>1, <5>2
      <4>2. PICK q \in Int : q = p + (n \div 2)
        BY <1>2, <4>1
      <4>3. Paired(mem', FirstOf(trial, j), p, q)
        BY <1>2, <2>3, <4>1, <4>2, PairsWithin
      <4> QED
        BY <1>2, <3>1, <4>1, <4>2, <4>3 DEF LowerPaired
    <3>2. CASE i # j \/ c # p
      BY <2>1, <2>6, <1>2, <2>2, <2>4, <3>2, OtherChunk
    <3> QED
      BY <3>1, <3>2
  <2>7. ASSUME i < j
        PROVE  Paired(mem', FirstOf(trial, i), FirstOf(trial, i), trial.map[i].end)
    <3>1. trial.map[i].end < trial.map[j].start
      <4>1. i \in 1 .. j - 1
        BY <1>2, <2>4, <2>7
      <4> QED
        BY <1>2, <4>1, Segments
    <3>2. trial.map[i].end < p
      <4>1. PICK s \in Nat, f \in Nat : s = trial.map[j].start /\ f = FirstOf(trial, j)
                                        /\ s <= f
        BY <1>2, SegmentOrder, FirstHere
      <4>2. PICK e \in Nat : e = trial.map[i].end /\ e < s
        BY <2>5, <3>1, <4>1
      <4>3. f <= p /\ p \in Nat
        BY <1>2, <4>1
      <4> QED
        BY <4>1, <4>2, <4>3
    <3>3. ASSUME NEW a \in FirstOf(trial, i) .. trial.map[i].end - 1
          PROVE  mem'[a] = mem[a]
      <4>1. a \in 0 .. Space - 1 /\ a < p
        <5>1. PICK e \in Nat, f \in Nat :
                e = trial.map[i].end /\ f = FirstOf(trial, i) /\ e < Space /\ e < p
          BY <2>5, <3>2
        <5>2. a \in f .. e - 1
          BY <5>1
        <5>3. p \in Nat /\ Space \in Nat
          BY <1>2, Sizes
        <5>4. a \in Nat /\ a < e
          BY <5>1, <5>2
        <5> QED
          BY <5>1, <5>3, <5>4
      <4>2. a \notin p .. pe - 1
        BY <1>2, <4>1
      <4> QED
        BY <2>2, <4>1, <4>2
    <3>4. FirstOf(trial, i) \in Int /\ trial.map[i].end \in Int
      BY <2>5
    <3> QED
      BY <2>1, <2>7, <3>3, <3>4, SamePairs
  <2>8. ASSUME i = j
        PROVE  Paired(mem', FirstOf(trial, i), FirstOf(trial, i), pe)
    <3>1. PICK F \in Int : F = FirstOf(trial, i) /\ F >= 0 /\ F <= p
      BY <1>2, <2>5, <2>8
    <3>2. p \in Int /\ pe \in Int
      BY <1>2
    <3>3. Paired(mem, F, F, p)
      BY <2>1, <2>8, <3>1, <1>2, <3>2, PairsWithin
    <3>4. ASSUME NEW a \in F .. p - 1
          PROVE  mem'[a] = mem[a]
      <4>1. p < Space
        <5>1. PICK e \in Nat : e = trial.map[j].end /\ e < Space
          BY <2>5, <2>8
        <5>2. p \in Nat /\ p < e
          BY <1>2, <5>1
        <5> QED
          BY <5>1, <5>2, Sizes
      <4>2. a \in 0 .. Space - 1 /\ a \notin p .. pe - 1
        BY <1>2, Sizes, <3>1, <4>1
      <4> QED
        BY <2>2, <4>2
    <3>5. Paired(mem', F, F, p)
      BY <3>1, <3>2, <3>3, <3>4, SamePairs
    <3>6. Paired(mem', F, p, pe) /\ (p - F) % 2 = 0
      BY <1>2, <2>3, <2>8, <3>1
    <3> QED
      BY <3>1, <3>2, <3>5, <3>6, PairsJoined
  <2> QED
    BY <2>6, <2>7, <2>8
<1>9. NoFalseAlarm'
  BY <1>1 DEF IInv, NoFalseAlarm
<1> QED
  BY <1>1, <1>6, <1>7, <1>8, <1>9, BlockFrame

LEMMA TickMoveKeeps ==
  ASSUME IInv, TickMove
  PROVE  IInv'
<1>1. /\ pc = "tick" /\ loop = "move" /\ Looping /\ Shape
      /\ k' = (IF k < call.iter THEN k ELSE 0)
      /\ UNCHANGED <<trial, calls, loops, pat, mask, mem, reported>>
      /\ \/ pc' = "done" /\ UNCHANGED <<j, p, pe, done>>
         \/ /\ k < call.iter /\ pc' = "word" /\ UNCHANGED <<j, p, pe, done>>
         \/ /\ ~(k < call.iter) /\ p' = pe /\ UNCHANGED <<pe, done>> /\ done /\ NextSegment
         \/ /\ ~(k < call.iter) /\ p' = pe /\ UNCHANGED <<pe, done>> /\ ~done
            /\ pc' = "chunk" /\ j' = j
  BY DEF TickMove, Tick, pointers, Looping, IInv
<1>2. call.fn = "block_move"
  BY <1>1, LoopNow, CallNow DEF LoopTable, Fns
<1>3. k \in Nat /\ mask \in Nat /\ pat \subseteq Bits /\ pe \in Nat /\ k' \in Nat
      /\ mask' \in Nat /\ pat' \subseteq Bits
  <2>1. pe \in 0 .. Space - 1 /\ k \in Nat /\ mask \in Nat /\ pat \subseteq Bits
    BY <1>1 DEF Shape
  <2> QED
    BY <1>1, <2>1, Sizes
<1>4. BlockPlace /\ NoFalseAlarm /\ Blocked
  BY DEF IInv, Places
<1>5. NoFalseAlarm'
  BY <1>1, <1>4 DEF NoFalseAlarm
<1>6. CASE pc' = "done" /\ UNCHANGED <<j, p, pe, done>>
  BY <1>1, <1>3, <1>6, DoneKeeps
<1>7. CASE k < call.iter /\ pc' = "word" /\ UNCHANGED <<j, p, pe, done>>
  BY <1>1, <1>7, SameLoop, SameSegment, <1>3, <1>2, <1>4, <1>5, BlockFrame
  DEF Shape, Looping, BlockPlace, Blocked
<1>8. CASE done /\ NextSegment /\ p' = pe /\ UNCHANGED <<pe, done>>
  BY <1>1, <1>2, <1>3, <1>8, SegmentOverKeeps
<1>9. CASE p' = pe /\ UNCHANGED <<pe, done>> /\ ~done /\ pc' = "chunk" /\ j' = j
           /\ ~(k < call.iter)
  <2>1. /\ call' = call /\ loop' = loop /\ segs' = segs /\ start' = start /\ end' = end
        /\ SegmentStart' = SegmentStart /\ (Good' <=> Good)
    BY <1>1, <1>9, SameLoop, SameSegment
  <2>2. Shape'
    BY <1>1, <1>3, <1>9, <2>1 DEF Shape, Looping
  <2>3. /\ k > 0 /\ SegmentStart <= p /\ p <= pe /\ pe <= end /\ SegmentStart < pe
        /\ done = (pe = end) /\ (done \/ Whole(pe - SegmentStart))
    BY <1>1, <1>2, <1>4 DEF BlockPlace
  <2>4. k' = 0
    BY <1>1, <1>9
  <2>5. pe < end /\ SegmentStart <= pe
    <3>1. end \in Nat /\ SegmentStart \in Nat
      BY <1>1, Here, Sizes, StartHere
    <3>2. pe # end
      BY <1>9, <2>3
    <3> QED
      BY <1>3, <2>3, <3>1, <3>2
  <2>6. BlockPlace'
    BY <1>1, <1>2, <1>3, <1>9, <2>1, <2>3, <2>4, <2>5 DEF BlockPlace
  <2>7. Blocked'
    BY <1>1, <1>2, <1>4, <1>9, <2>1, <2>3, <2>4 DEF Blocked
  <2> QED
    BY <1>1, <1>2, <1>5, <1>9, <2>2, <2>6, <2>7, BlockFrame
<1> QED
  BY <1>1, <1>6, <1>7, <1>8, <1>9

(* The words of a segment of block_move() come in pairs. *)
LEMMA EvenLength ==
  ASSUME NEW t \in Trials, t.pat = 7, NEW i \in 1 .. Len(t.map)
  PROVE  (t.map[i].end - FirstOf(t, i)) % 2 = 0
<1>1. FirstOf(t, i) \in Nat /\ t.map[i].end \in Nat /\ FirstOf(t, i) < t.map[i].end
      /\ ((t.map[i].end - FirstOf(t, i)) % Spin) % 4 = 0
  BY FirstHere, SegmentOrder
<1>2. PICK n \in Int : n = t.map[i].end - FirstOf(t, i)
  BY <1>1
<1>3. PICK r \in 0 .. Spin - 1 : r = n % Spin /\ r % 4 = 0
  BY <1>1, <1>2, Sizes, DivMod
<1>4. r \in Int /\ r % Spin = n % Spin
  <2>1. r \in Int
    BY <1>3, Sizes
  <2>2. r % Spin = r
    BY Sizes, ModSmall
  <2> QED
    BY <1>3, <2>1, <2>2
<1>5. (n - r) % Spin = 0
  BY <1>4, Sizes, SameMod
<1>6. PICK x \in Int : x = n - r
  BY <1>4
<1>7. x % 2 = 0
  <2>1. Spin \in Nat \ {0} /\ 2 \in Nat \ {0}
    BY Sizes
  <2> QED
    BY <1>5, <1>6, <2>1, ModSizes, ModOfDivisor
<1>8. n % 2 = 0
  BY <1>3, <1>4, <1>6, <1>7
<1> QED
  BY <1>2, <1>8

LEMMA PairsKeeps ==
  ASSUME IInv, BlockPairs
  PROVE  IInv'
<1>1. /\ pc = "word" /\ call.fn = "block_move" /\ loop = "pairs" /\ Looping /\ Shape
      /\ reported' = (IF Load(mem, trial.fault, p) # Load(mem, trial.fault, p + 1)
                      THEN reported \cup {p} ELSE reported)
      /\ p' = p + 2 /\ pc' = (IF p + 2 < pe THEN "word" ELSE "tick")
      /\ UNCHANGED <<trial, calls, loops, j, pe, done, pat, k, mask, mem>>
  BY DEF BlockPairs, In, registers, Looping, IInv
<1>2. /\ trial \in Trials /\ trial.pat = 7 /\ j \in 1 .. Len(trial.map)
      /\ SegmentStart = FirstOf(trial, j) /\ SegmentStart \in Nat /\ end = trial.map[j].end
      /\ segs = Len(trial.map)
  BY <1>1, CallNow, StartHere DEF Shape, segs, end
<1>3. p \in Nat /\ pe \in Nat /\ end \in Nat
  <2>1. p \in Nat /\ pe \in 0 .. Space - 1 /\ end \in 0 .. Space - 1
    BY <1>1, Here DEF Shape
  <2> QED
    BY <2>1, Sizes
<1>4. /\ SegmentStart <= p /\ p < pe /\ pe <= end /\ (pe - p) % 2 = 0
      /\ SegmentStart < pe /\ done = (pe = end) /\ (done \/ Whole(pe - SegmentStart))
  BY <1>1 DEF IInv, Places, BlockPlace
<1>5. p + 2 <= pe /\ (pe - (p + 2)) % 2 = 0
  BY <1>3, <1>4
<1>6. (p - SegmentStart) % 2 = 0
  <2>1. PICK n \in Int : n = pe - SegmentStart
    BY <1>2, <1>3
  <2>2. n % 2 = 0
    <3>1. CASE pe = end
      BY <1>2, <2>1, <3>1, EvenLength
    <3>2. CASE pe # end
      <4>1. n % Spin = 0
        BY <1>4, <2>1, <3>2 DEF Whole
      <4>2. Spin \in Nat \ {0} /\ 2 \in Nat \ {0}
        BY Sizes
      <4> QED
        BY <4>1, <4>2, ModSizes, ModOfDivisor
    <3> QED
      BY <3>1, <3>2
  <2> QED
    <3>1. PICK f \in Int : f = SegmentStart
      BY <1>2
    <3>2. (pe - f) % 2 = 0 /\ (pe - p) % 2 = 0
      BY <1>4, <2>1, <2>2, <3>1
    <3>3. (p - f) % 2 = 0
      BY <1>3, <3>2
    <3> QED
      BY <3>1, <3>3
<1>7. /\ call' = call /\ loop' = loop /\ segs' = segs /\ start' = start /\ end' = end
      /\ SegmentStart' = SegmentStart /\ (Good' <=> Good)
  BY <1>1, SameLoop, SameSegment
<1>8. Shape'
  BY <1>1, <1>3, <1>7 DEF Shape, Looping
<1>9. BlockPlace'
  BY <1>1, <1>2, <1>3, <1>4, <1>5, <1>7 DEF BlockPlace
<1>10. Blocked'
  BY <1>1, <1>7 DEF IInv, Blocked
<1>11. ASSUME Good
       PROVE  mem[p] = mem[p + 1] /\ reported = {}
  <2>1. Paired(mem, SegmentStart, SegmentStart, end)
    BY <1>1, <1>2, <1>11 DEF IInv, Blocked
  <2>2. p \in SegmentStart .. end - 2
    BY <1>2, <1>3, <1>4, <1>5
  <2> QED
    BY <1>6, <1>11, <2>1, <2>2 DEF Paired, IInv, NoFalseAlarm, Good
<1>12. NoFalseAlarm'
  <2> SUFFICES ASSUME Good
               PROVE  reported' = {}
    BY <1>7 DEF NoFalseAlarm, Good
  <2>1. Load(mem, trial.fault, p) = mem[p] /\ Load(mem, trial.fault, p + 1) = mem[p + 1]
    BY DEF Good, Load, Cell
  <2> QED
    BY <1>1, <1>11, <2>1
<1> QED
  BY <1>1, <1>8, <1>9, <1>10, <1>12, BlockFrame

-----------------------------------------------------------------------------
(* All steps together *)

LEMMA StutterKeeps ==
  ASSUME IInv, UNCHANGED vars
  PROVE  IInv'
<1>1. UNCHANGED <<pc, trial, calls, loops, j, p, pe, done, pat, k, mask, mem, reported>>
  BY DEF vars, pointers, registers
<1>2. /\ call' = call /\ loop' = loop /\ segs' = segs /\ start' = start /\ end' = end
      /\ SegmentStart' = SegmentStart /\ (Good' <=> Good) /\ (Looping' <=> Looping)
      /\ (Down' <=> Down) /\ (Modular' <=> Modular) /\ (Stepwise' <=> Stepwise)
  BY <1>1, SameLoop, SameSegment DEF Looping
<1>3. Shape'
  BY <1>1, <1>2 DEF IInv, Shape
<1>4. UpPlace' /\ ModPlace' /\ DownPlace' /\ BlockPlace' /\ AddrPlace'
  BY <1>1, <1>2 DEF IInv, Places, UpPlace, ModPlace, DownPlace, BlockPlace, AddrPlace, Ahead
<1>5. Marked'
  BY <1>1, <1>2 DEF IInv, Marked, Registers32, RegistersR, RegistersMod
<1>6. Filled'
  BY <1>1, <1>2 DEF IInv, Filled, Dealt
<1>7. Planted' /\ NoFalseAlarm'
  BY <1>1, <1>2 DEF IInv, Planted, NoFalseAlarm
<1>8. Blocked'
  BY <1>1, <1>2 DEF IInv, Blocked
<1> QED
  BY <1>3, <1>4, <1>5, <1>6, <1>7, <1>8 DEF IInv, Places

LEMMA NextKeeps ==
  ASSUME IInv, [Next]_vars
  PROVE  IInv'
<1>1. CASE Walk
  BY <1>1, EnterKeeps, NextChunkKeeps, TickChunkKeeps, LoopOverKeeps, NextCallKeeps DEF Walk
<1>2. CASE MovInv
  BY <1>2, MovInv1Keeps, MovInv32Keeps, MovInvRKeeps DEF MovInv
<1>3. CASE Others
  <2>1. CASE ModEvery \/ ModRest \/ ModCheck
    BY <2>1, ModKeeps
  <2>2. CASE AddrOwn \/ AddrOwnCheck
    BY <2>2, OwnKeeps
  <2>3. CASE FadeFill \/ FadeSleep \/ FadeCheck
    BY <2>3, FadeKeeps, SleepKeeps
  <2>4. CASE Blocks \/ BlockMove \/ TickMove \/ BlockPairs
    BY <2>4, BlocksKeeps, MoveKeeps, TickMoveKeeps, PairsKeeps
  <2>5. CASE AddrLines \/ AddrBanks \/ AddrBank \/ AddrMask \/ TickLine
    BY <2>5, LinesKeep, BanksKeep, BankKeeps, MaskKeeps, TickLineKeeps
  <2> QED
    BY <1>3, <2>1, <2>2, <2>3, <2>4, <2>5 DEF Others
<1>4. CASE UNCHANGED vars
  BY <1>4, StutterKeeps
<1> QED
  BY <1>1, <1>2, <1>3, <1>4 DEF Next, Done

(***************************************************************************)
(* The inductive invariant: where the pointers of a loop are, what its     *)
(* registers hold there, and what is in a memory without a fault before    *)
(* and behind them (all loops of test.c).                                  *)
(***************************************************************************)
THEOREM Invariant == Spec => []IInv
<1>1. Init => IInv
  BY InitHolds
<1>2. IInv /\ [Next]_vars => IInv'
  BY NextKeeps
<1> QED
  BY <1>1, <1>2, PTL DEF Spec

(***************************************************************************)
(* In good memory no test reports an error, whatever the segments, the     *)
(* patterns, the number of iterations and what was in memory before; also  *)
(* not when the test is interrupted (error() and ad_err1() in test.c).     *)
(***************************************************************************)
THEOREM GoodMemoryPasses == Spec => []NoFalseAlarm
<1>1. IInv => NoFalseAlarm
  BY DEF IInv
<1> QED
  BY <1>1, Invariant, PTL

-----------------------------------------------------------------------------
(* Which words a step writes to *)

LEMMA CoveredHere ==
  ASSUME Shape, NEW a \in Int, start <= a, a < end
  PROVE  a \in Covered
<1>1. start \in 0 .. Space - 1 /\ end \in 0 .. Space - 1 /\ j \in 1 .. segs
  BY Here
<1>2. start \in Int /\ end \in Int
  BY <1>1, Sizes
<1>3. a \in WordsOf(trial, j)
  BY <1>2 DEF start, end, WordsOf
<1>4. j \in DOMAIN trial.map
  BY <1>1, Segments DEF Shape, segs
<1> QED
  BY <1>3, <1>4 DEF Covered, Covers

(* A fault of the segments touches no word outside of them. *)
LEMMA FaultsCovered ==
  ASSUME Shape
  PROVE  FaultyWords(trial.fault) \subseteq Covered
<1> SUFFICES ASSUME NEW a \in FaultyWords(trial.fault)
             PROVE  a \in Covered
  OBVIOUS
<1>1. trial \in Trials /\ DOMAIN trial.map = 1 .. segs
  BY Segments DEF Shape, segs
<1>2. PICK i \in DOMAIN trial.map : a \in trial.map[i].start .. trial.map[i].end - 1
  BY <1>1, TrialsAssumption
<1>3. a \in WordsOf(trial, i)
  BY <1>2 DEF WordsOf
<1> QED
  BY <1>2, <1>3 DEF Covered, Covers

LEMMA StoreCovered ==
  ASSUME Shape, trial.fault.kind # "line", NEW a \in Covered, NEW w,
         NEW b \in DOMAIN mem, Store(mem, trial.fault, a, w)[b] # mem[b]
  PROVE  b \in Covered
<1> DEFINE cell == Cell(trial.fault, a)
           new == [mem EXCEPT ![cell] = Held(trial.fault, cell, w)]
<1>1. cell \in Covered
  BY FaultsCovered DEF FaultyWords, Cell
<1>2. CASE Flips(trial.fault, cell, mem[cell], w)
  <2>1. trial.fault.word \in Covered
    BY <1>2, FaultsCovered DEF Flips, FaultyWords
  <2>2. ASSUME b # cell, b # trial.fault.word
        PROVE  Store(mem, trial.fault, a, w)[b] = mem[b]
    BY <1>2, <2>2 DEF Store
  <2> QED
    BY <1>1, <2>1, <2>2
<1>3. CASE ~Flips(trial.fault, cell, mem[cell], w)
  BY <1>3, <1>1 DEF Store
<1> QED
  BY <1>2, <1>3

LEMMA WriteCovered ==
  ASSUME Shape, trial.fault.kind # "line", NEW a \in Covered, NEW w, Write(a, w)
  PROVE  \A b \in DOMAIN mem : mem'[b] # mem[b] => b \in Covered
BY StoreCovered DEF Write

(* The word that a loop is at is a word of the segment. *)
LEMMA WordCovered ==
  ASSUME IInv, pc = "word", call.fn # "block_move"
  PROVE  p \in Covered
<1>1. Shape /\ Looping /\ Places
  BY DEF IInv, Looping
<1>2. call.fn # "addr_tst1" /\ loop # "sleep"
  BY <1>1 DEF Places, AddrPlace
<1>3. p \in Nat /\ pe \in Nat /\ start \in Nat /\ end \in Nat
  <2>1. p \in Nat /\ pe \in 0 .. Space - 1 /\ start \in 0 .. Space - 1 /\ end \in 0 .. Space - 1
    BY <1>1, Here DEF Shape
  <2> QED
    BY <2>1, Sizes
<1>4. start <= p /\ p < end
  BY <1>1, <1>3, <1>2, Kinds DEF Places, UpPlace, ModPlace, DownPlace
<1> QED
  BY <1>1, <1>3, <1>4, CoveredHere

LEMMA WordWrites ==
  ASSUME \/ MovInv \/ ModEvery \/ ModRest \/ ModCheck
         \/ AddrOwn \/ AddrOwnCheck \/ FadeFill \/ FadeCheck
  PROVE  /\ pc = "word" /\ call.fn # "block_move"
         /\ \E w : Write(p, w)
<1>1. CASE MovInv
  BY <1>1 DEF MovInv, MovInv1Fill, MovInv1Up, MovInv1Down, MovInv32Fill, MovInv32Up,
              MovInv32Down, MovInvRFill, MovInvRUp, In, ReadWrite
<1>2. CASE ModEvery \/ ModRest \/ ModCheck
  BY <1>2 DEF ModEvery, ModRest, ModCheck, In, ReadWrite
<1>3. CASE AddrOwn \/ AddrOwnCheck \/ FadeFill \/ FadeCheck
  BY <1>3 DEF AddrOwn, AddrOwnCheck, FadeFill, FadeCheck, In, ReadWrite
<1> QED
  BY <1>1, <1>2, <1>3

(* ... and the chunk that block_move() is in is part of the segment. *)
LEMMA ChunkCovered ==
  ASSUME IInv, call.fn = "block_move", pc = "word", loop \in {"blocks", "move"},
         NEW a \in Int, p <= a, a < pe
  PROVE  a \in Covered
<1>1. Shape
  BY DEF IInv
<1>2. SegmentStart <= p /\ pe <= end
  BY DEF IInv, Places, BlockPlace
<1>3. SegmentStart \in Nat /\ start <= SegmentStart /\ p \in Nat /\ pe \in Nat
      /\ start \in Nat /\ end \in Nat
  <2>1. p \in Nat /\ pe \in 0 .. Space - 1 /\ start \in 0 .. Space - 1 /\ end \in 0 .. Space - 1
    BY <1>1, Here DEF Shape
  <2> QED
    BY <1>1, <2>1, StartHere, Sizes
<1>4. start <= a /\ a < end
  BY <1>2, <1>3
<1> QED
  BY <1>1, <1>4, CoveredHere

LEMMA BlockWrites ==
  ASSUME IInv, Blocks \/ BlockMove
  PROVE  \A b \in DOMAIN mem : mem'[b] # mem[b] => b \in Covered
<1>1. Memory(mem) /\ DOMAIN mem = 0 .. Space - 1 /\ p \in Nat /\ pe \in Nat
  BY Sizes DEF IInv, Shape, Memory
<1>2. pc = "word" /\ call.fn = "block_move" /\ loop \in {"blocks", "move"}
  BY DEF Blocks, BlockMove, In
<1>3. \A a \in 0 .. Space - 1 : a \notin p .. pe - 1 => mem'[a] = mem[a]
  <2>1. CASE Blocks
    <3>1. PICK value : mem' = Chunk(mem, value)
      BY <2>1 DEF Blocks
    <3> QED
      BY <1>1, <3>1, ChunkOutside
  <2>2. CASE BlockMove
    BY <2>2, MovedOutside
  <2> QED
    BY <2>1, <2>2
<1> SUFFICES ASSUME NEW b \in 0 .. Space - 1, mem'[b] # mem[b]
             PROVE  b \in Covered
  BY <1>1
<1>4. b \in Int /\ p <= b /\ b < pe
  BY <1>1, <1>3
<1> QED
  BY <1>2, <1>4, ChunkCovered

(* The words that addr_tst1() writes to when it looks at banks *)
LEMMA BankWrites ==
  ASSUME IInv, AddrBank, ~Astray, trial.fault.kind # "line"
  PROVE  \A b \in DOMAIN mem : mem'[b] # mem[b] => b \in Covered
<1>1. /\ Shape /\ Looping /\ pc = "bank" /\ loop = "bank" /\ pe = end /\ Ahead
  BY DEF AddrBank, IInv, Places, AddrPlace, Looping
<1>2. /\ p \in Nat /\ start \in Nat /\ end \in Nat
  <2>1. p \in Nat /\ start \in 0 .. Space - 1 /\ end \in 0 .. Space - 1
    BY <1>1, Here DEF Shape
  <2> QED
    BY <2>1, Sizes
<1>3. start <= p
  BY <1>1, <1>2, Sizes DEF Astray, Ahead
<1>4. CASE p < pe
  BY <1>4, <1>1, <1>2, <1>3, CoveredHere, WriteCovered DEF AddrBank, Plant
<1>5. CASE ~(p < pe)
  BY <1>5 DEF AddrBank
<1> QED
  BY <1>4, <1>5

LEMMA MaskWrites ==
  ASSUME IInv, AddrMask, ~Astray, trial.fault.kind # "line"
  PROVE  \A b \in DOMAIN mem : mem'[b] # mem[b] => b \in Covered
<1> DEFINE pt == Or(p, mask)
<1>1. Shape /\ Looping /\ pc = "mask" /\ call.fn = "addr_tst1"
  BY DEF AddrMask, IInv, Places, AddrPlace, Looping
<1>2. loop = "bank"
  BY <1>1, LoopNow DEF LoopTable, Astray
<1>3. pe = end /\ Ahead
  BY <1>1, <1>2 DEF IInv, Places, AddrPlace
<1>4. p \in Nat /\ start \in Nat /\ end \in Nat /\ mask \in Nat
  <2>1. p \in Nat /\ start \in 0 .. Space - 1 /\ end \in 0 .. Space - 1 /\ mask \in Nat
    BY <1>1, Here DEF Shape
  <2> QED
    BY <2>1, Sizes
<1>5. start <= p
  BY <1>1, <1>2, <1>3, <1>4, Sizes DEF Astray, Ahead
<1>6. pt \in Nat /\ p <= pt
  BY <1>4 DEF Or
<1> HIDE DEF pt
<1>7. mem' = mem \/ (~(pt # p /\ pt >= pe) /\ pt # p /\ mem' = Store(mem, trial.fault, pt, pat))
  BY DEF AddrMask, pt
<1>8. CASE mem' = mem
  BY <1>8
<1>9. CASE ~(pt # p /\ pt >= pe) /\ pt # p /\ mem' = Store(mem, trial.fault, pt, pat)
  BY <1>3, <1>4, <1>5, <1>6, <1>9, <1>1, CoveredHere, StoreCovered
<1> QED
  BY <1>7, <1>8, <1>9

LEMMA FadeWrites ==
  ASSUME IInv, FadeSleep
  PROVE  \A b \in DOMAIN mem : mem'[b] # mem[b] => b \in Covered
BY FaultsCovered DEF IInv, FaultyWords, Faded, FadeSleep

LEMMA OtherSteps ==
  ASSUME \/ Walk \/ TickMove \/ BlockPairs \/ AddrBanks \/ TickLine \/ UNCHANGED vars
  PROVE  mem' = mem
BY DEF Walk, EnterSegment, NextChunk, TickChunk, LoopOver, NextCall, TickMove, BlockPairs,
       AddrBanks, TickLine, vars

LEMMA LinesAstray ==
  ASSUME AddrLines
  PROVE  Astray
BY DEF AddrLines, Astray

(***************************************************************************)
(* No step writes to a word outside of the segments, except where          *)
(* addr_tst1() follows the address bits: for every layout of segments,     *)
(* also when the pointers wrap around or the memory has a fault (all       *)
(* stores of test.c).                                                      *)
(***************************************************************************)
THEOREM SegmentsOnly == Spec => OnlySegmentsWritten
<1>1. IInv /\ [Next]_vars =>
        [Astray \/ trial.fault.kind = "line" \/
         (\A a \in DOMAIN mem : mem'[a] # mem[a] => a \in Covered)]_vars
  <2> SUFFICES ASSUME IInv, [Next]_vars, ~Astray, trial.fault.kind # "line"
               PROVE  \A a \in DOMAIN mem : mem'[a] # mem[a] => a \in Covered
    OBVIOUS
  <2>1. CASE \/ MovInv \/ ModEvery \/ ModRest \/ ModCheck
             \/ AddrOwn \/ AddrOwnCheck \/ FadeFill \/ FadeCheck
    BY <2>1, WordWrites, WordCovered, WriteCovered DEF IInv
  <2>2. CASE Blocks \/ BlockMove
    BY <2>2, BlockWrites
  <2>3. CASE AddrBank \/ AddrMask
    BY <2>3, BankWrites, MaskWrites
  <2>4. CASE FadeSleep
    BY <2>4, FadeWrites
  <2>5. CASE \/ Walk \/ TickMove \/ BlockPairs \/ AddrBanks \/ TickLine \/ UNCHANGED vars
    BY <2>5, OtherSteps
  <2>6. ~AddrLines
    BY LinesAstray
  <2> QED
    BY <2>1, <2>2, <2>3, <2>4, <2>5, <2>6 DEF Next, Others, Done
<1> QED
  BY <1>1, Invariant, PTL DEF Spec, OnlySegmentsWritten

-----------------------------------------------------------------------------
(* How FlattenSeq() goes on from sequence to sequence *)
Flats(s, g) ==
  g = [i \in 1 .. Len(s) |-> IF i = 1 THEN s[i] ELSE g[i - 1] \o s[i]]

LEMMA FlattenIs ==
  ASSUME NEW E, NEW s \in Seq(E), s # <<>>, NEW g, Flats(s, g)
  PROVE  FlattenSeq(s) = g[Len(s)]
<1> DEFINE N == Len(s)
           f == CHOOSE h : Flats(s, h)
<1>1. N \in Nat \ {0}
  OBVIOUS
<1>2. Flats(s, f)
  OBVIOUS
<1>3. FlattenSeq(s) = f[N]
  BY <1>1 DEF FlattenSeq, Flats
<1>4. \A i \in 1 .. N : /\ f[i] = IF i = 1 THEN s[i] ELSE f[i - 1] \o s[i]
                        /\ g[i] = IF i = 1 THEN s[i] ELSE g[i - 1] \o s[i]
  <2> HIDE DEF f
  <2> QED
    BY <1>2 DEF Flats
<1> HIDE DEF f
<1> DEFINE S == {n \in Nat : n < N => f[n + 1] = g[n + 1]}
<1>5. 0 \in S
  BY <1>1, <1>4
<1>6. ASSUME NEW n \in S
      PROVE  n + 1 \in S
  <2>1. n \in Nat /\ (n < N => f[n + 1] = g[n + 1])
    OBVIOUS
  <2> SUFFICES ASSUME n + 1 < N
               PROVE  f[(n + 1) + 1] = g[(n + 1) + 1]
    BY <2>1
  <2>2. PICK i \in 1 .. N : i = (n + 1) + 1 /\ i # 1 /\ i - 1 = n + 1
    BY <1>1, <2>1
  <2>3. f[i - 1] = g[i - 1]
    BY <1>1, <2>1, <2>2
  <2>4. f[i] = f[i - 1] \o s[i] /\ g[i] = g[i - 1] \o s[i]
    BY <1>4, <2>2
  <2> QED
    BY <2>2, <2>3, <2>4
<1>7. S = Nat
  <2>1. S \in SUBSET Nat
    OBVIOUS
  <2> HIDE DEF S
  <2> QED
    BY <1>5, <1>6, <2>1, Inductive
<1>8. N - 1 \in Nat /\ N - 1 < N /\ (N - 1) + 1 = N
  BY <1>1
<1>9. N - 1 \in S
  <2> HIDE DEF S
  <2> QED
    BY <1>7, <1>8
<1>10. f[(N - 1) + 1] = g[(N - 1) + 1]
  BY <1>8, <1>9
<1> QED
  BY <1>3, <1>8, <1>10

(* A sequence appended to another *)
LEMMA Appended ==
  ASSUME NEW E, NEW x \in Seq(E), NEW y \in Seq(E)
  PROVE  /\ x \o y \in Seq(E) /\ Len(x \o y) = Len(x) + Len(y)
         /\ \A i \in 1 .. Len(x) : (x \o y)[i] = x[i]
         /\ \A i \in 1 .. Len(y) : (x \o y)[Len(x) + i] = y[i]
  OBVIOUS

(* A sequence several times over: of one element, and of two *)
LEMMA TimesOne ==
  ASSUME NEW n \in Nat, NEW x
  PROVE  Times(n, <<x>>) = [m \in 1 .. n |-> x]
<1> DEFINE s == [i \in 1 .. n |-> <<x>>]
           g == [i \in 1 .. n |-> [m \in 1 .. i |-> x]]
<1>1. CASE n = 0
  BY <1>1 DEF Times, FlattenSeq
<1>2. CASE n # 0
  <2>1. s \in Seq({<<x>>}) /\ Len(s) = n
    OBVIOUS
  <2>2. s # <<>>
    BY <1>2, <2>1
  <2>3. ASSUME NEW i \in 1 .. n
        PROVE  g[i] = IF i = 1 THEN s[i] ELSE g[i - 1] \o s[i]
    <3>1. g[i] = [m \in 1 .. i |-> x] /\ s[i] = <<x>>
      OBVIOUS
    <3>2. CASE i = 1
      BY <3>1, <3>2
    <3>3. CASE i # 1
      <4>1. i - 1 \in 1 .. n /\ i - 1 \in Nat
        BY <3>3
      <4>2. g[i - 1] = [m \in 1 .. i - 1 |-> x]
        BY <4>1
      <4>3. ASSUME NEW y, NEW l \in Nat, y = l + 1
            PROVE  [m \in 1 .. l |-> x] \o <<x>> = [m \in 1 .. y |-> x]
        <5> DEFINE u == [m \in 1 .. l |-> x]
                   v == [m \in 1 .. y |-> x]
        <5>1. u \in Seq({x}) /\ Len(u) = l /\ v \in Seq({x}) /\ Len(v) = y
          BY <4>3
        <5>2. u \o <<x>> \in Seq({x}) /\ Len(u \o <<x>>) = y
          <6> HIDE DEF u
          <6> QED
            BY <4>3, <5>1
        <5>3. \A m \in 1 .. y : (u \o <<x>>)[m] = x /\ v[m] = x
          <6>1. \A m \in 1 .. l : u[m] = x
            OBVIOUS
          <6>2. \A m \in 1 .. y : v[m] = x
            OBVIOUS
          <6> HIDE DEF u, v
          <6> QED
            BY <4>3, <5>1, <6>1, <6>2
        <5> HIDE DEF u, v
        <5>4. u \o <<x>> = v
          BY <5>1, <5>2, <5>3
        <5> QED
          BY <5>4 DEF u, v
      <4>4. i = (i - 1) + 1
        OBVIOUS
      <4>5. [m \in 1 .. i - 1 |-> x] \o <<x>> = [m \in 1 .. i |-> x]
        BY <4>1, <4>3, <4>4
      <4> HIDE DEF g, s
      <4> QED
        BY <3>1, <3>3, <4>2, <4>5
    <3> QED
      BY <3>2, <3>3
  <2>4. Flats(s, g)
    <3>1. g = [i \in 1 .. n |-> g[i]]
      OBVIOUS
    <3> HIDE DEF g, s
    <3> QED
      BY <2>1, <2>3, <3>1 DEF Flats
  <2>5. FlattenSeq(s) = g[n]
    <3> HIDE DEF g, s
    <3> QED
      BY <2>1, <2>2, <2>4, FlattenIs
  <2>6. g[n] = [m \in 1 .. n |-> x]
    BY <1>2
  <2> QED
    BY <2>5, <2>6 DEF Times
<1> QED
  BY <1>1, <1>2

LEMMA TimesTwo ==
  ASSUME NEW n \in Nat, NEW x, NEW y
  PROVE  Times(n, <<x, y>>) = [m \in 1 .. 2 * n |-> IF m % 2 = 1 THEN x ELSE y]
<1> DEFINE s == [i \in 1 .. n |-> <<x, y>>]
           z(m) == IF m % 2 = 1 THEN x ELSE y
           g == [i \in 1 .. n |-> [m \in 1 .. 2 * i |-> z(m)]]
<1>1. CASE n = 0
  BY <1>1 DEF Times, FlattenSeq
<1>2. CASE n # 0
  <2>1. s \in Seq({<<x, y>>}) /\ Len(s) = n
    OBVIOUS
  <2>2. s # <<>>
    BY <1>2, <2>1
  <2>3. ASSUME NEW i \in 1 .. n
        PROVE  g[i] = IF i = 1 THEN s[i] ELSE g[i - 1] \o s[i]
    <3>1. g[i] = [m \in 1 .. 2 * i |-> z(m)] /\ s[i] = <<x, y>>
      OBVIOUS
    <3>2. CASE i = 1
      <4>1. 2 * 1 = 2 /\ 1 % 2 = 1 /\ 2 % 2 = 0 /\ 1 .. 2 = {1, 2}
        OBVIOUS
      <4>2. z(1) = x /\ z(2) = y
        BY <4>1
      <4>3. [m \in 1 .. 2 |-> z(m)] = <<x, y>>
        <5> DEFINE u == [m \in 1 .. 2 |-> z(m)]
                   v == <<x, y>>
        <5>1. u[1] = x /\ u[2] = y
          BY <4>2
        <5>2. u \in Seq({x, y}) /\ v \in Seq({x, y}) /\ Len(u) = 2 /\ Len(v) = 2
          OBVIOUS
        <5>3. v[1] = x /\ v[2] = y
          OBVIOUS
        <5> HIDE DEF u, v
        <5>4. u = v
          BY <5>1, <5>2, <5>3, <4>1
        <5> QED
          BY <5>4 DEF u, v
      <4> QED
        BY <3>1, <3>2, <4>1, <4>3
    <3>3. CASE i # 1
      <4>1. i - 1 \in 1 .. n /\ 2 * (i - 1) \in Nat /\ (2 * (i - 1)) % 2 = 0
        BY <3>3
      <4>2. g[i - 1] = [m \in 1 .. 2 * (i - 1) |-> z(m)]
        BY <4>1
      <4>3. ASSUME NEW w, NEW l \in Nat, l % 2 = 0, w = l + 2
            PROVE  [m \in 1 .. l |-> z(m)] \o <<x, y>> = [m \in 1 .. w |-> z(m)]
        <5> DEFINE u == [m \in 1 .. l |-> z(m)]
                   v == [m \in 1 .. w |-> z(m)]
                   c == <<x, y>>
        <5>1. u \in Seq({x, y}) /\ Len(u) = l /\ v \in Seq({x, y}) /\ Len(v) = w
          BY <4>3
        <5>2. u \o c \in Seq({x, y}) /\ Len(u \o c) = w
          <6> HIDE DEF u
          <6> QED
            BY <4>3, <5>1
        <5>3. \A m \in 1 .. w : (u \o c)[m] = v[m]
          <6>1. \A m \in 1 .. l : u[m] = z(m)
            OBVIOUS
          <6>2. \A m \in 1 .. w : v[m] = z(m)
            OBVIOUS
          <6>3. z(l + 1) = x /\ z(l + 2) = y
            BY <4>3
          <6>4. c \in Seq({x, y}) /\ Len(c) = 2 /\ c[1] = x /\ c[2] = y
            OBVIOUS
          <6> HIDE DEF u, v, z, c
          <6>5. /\ \A m \in 1 .. l : (u \o c)[m] = u[m]
                /\ \A m \in 1 .. 2 : (u \o c)[l + m] = c[m]
            <7>1. u \in Seq({x, y}) /\ c \in Seq({x, y})
              BY <5>1, <6>4
            <7>2. /\ \A m \in 1 .. Len(u) : (u \o c)[m] = u[m]
                  /\ \A m \in 1 .. Len(c) : (u \o c)[Len(u) + m] = c[m]
              BY <7>1, Appended
            <7> QED
              BY <7>2, <5>1, <6>4
          <6>6. \A m \in 1 .. l : (u \o c)[m] = v[m]
            <7> TAKE m \in 1 .. l
            <7>1. m \in 1 .. w
              BY <4>3
            <7> QED
              BY <7>1, <6>1, <6>2, <6>5
          <6>7. (u \o c)[l + 1] = v[l + 1] /\ (u \o c)[l + 2] = v[l + 2]
            <7>1. l + 1 \in 1 .. w /\ l + 2 \in 1 .. w /\ 1 \in 1 .. 2 /\ 2 \in 1 .. 2
              BY <4>3
            <7> QED
              BY <7>1, <6>2, <6>3, <6>4, <6>5
          <6> TAKE m \in 1 .. w
          <6>8. m \in 1 .. l \/ m = l + 1 \/ m = l + 2
            BY <4>3
          <6> QED
            BY <6>6, <6>7, <6>8
        <5> HIDE DEF u, v, c
        <5>4. u \o c = v
          BY <5>1, <5>2, <5>3
        <5> QED
          BY <5>4 DEF u, v, c
      <4>4. 2 * i = 2 * (i - 1) + 2
        OBVIOUS
      <4>5. [m \in 1 .. 2 * (i - 1) |-> z(m)] \o <<x, y>> = [m \in 1 .. 2 * i |-> z(m)]
        <5> HIDE DEF z
        <5> QED
          BY <4>1, <4>3, <4>4
      <4> HIDE DEF g, s, z
      <4> QED
        BY <3>1, <3>3, <4>2, <4>5
    <3> QED
      BY <3>2, <3>3
  <2>4. Flats(s, g)
    <3>1. g = [i \in 1 .. n |-> g[i]]
      OBVIOUS
    <3> HIDE DEF g, s
    <3> QED
      BY <2>1, <2>3, <3>1 DEF Flats
  <2>5. FlattenSeq(s) = g[n]
    <3> HIDE DEF g, s
    <3> QED
      BY <2>1, <2>2, <2>4, FlattenIs
  <2>6. g[n] = [m \in 1 .. 2 * n |-> z(m)]
    BY <1>2
  <2> QED
    BY <2>5, <2>6 DEF Times
<1> QED
  BY <1>1, <1>2

(***************************************************************************)
(* The loops of a call and the plan for it have the same length, and the   *)
(* sweep that is planned for a loop depends only on what the loop is.      *)
(***************************************************************************)
Marches == {"movinv1", "movinv32", "movinvr", "modtst", "addr_tst2"}

SweepFor(fn, l) ==
  CASE l \in {"fill", "own"} -> Up("nothing", "value")
    [] l = "up" -> Up("value", "complement")
    [] l = "down" -> Downwards("complement", "value")
    [] l = "upNot" -> Up("complement", "value")
    [] l = "every" -> Sparse("nothing", "value")
    [] l = "rest" -> Up("nothing", "rest")
    [] l = "check" /\ fn = "modtst" -> Sparse("value", "nothing")
    [] l = "check" /\ fn # "modtst" -> Up("value", "nothing")

Length(fn, n) ==
  CASE fn \in {"movinv1", "movinv32"} -> 1 + 2 * n
    [] fn = "movinvr" -> 3
    [] fn = "modtst" -> n + 2
    [] fn = "addr_tst2" -> 2

(* One element and then n pairs; one element, n others and a last one *)
WithPairs(s, n, a, x, y) ==
  /\ Len(s) = 1 + 2 * n /\ s[1] = a
  /\ \A m \in 1 .. 2 * n : s[1 + m] = IF m % 2 = 1 THEN x ELSE y
WithMiddle(s, n, a, x, b) ==
  /\ Len(s) = n + 2 /\ s[1] = a /\ s[n + 2] = b
  /\ \A m \in 1 .. n : s[1 + m] = x

LEMMA OneAndPairs ==
  ASSUME NEW n \in Nat, NEW a, NEW x, NEW y
  PROVE  WithPairs(<<a>> \o Times(n, <<x, y>>), n, a, x, y)
<1> DEFINE s == <<a>> \o Times(n, <<x, y>>)
           u == <<a>>
           v == [m \in 1 .. 2 * n |-> IF m % 2 = 1 THEN x ELSE y]
<1>1. v = Times(n, <<x, y>>)
  BY TimesTwo
<1>2. u \in Seq({a, x, y}) /\ Len(u) = 1 /\ u[1] = a
  OBVIOUS
<1>3. v \in Seq({a, x, y}) /\ Len(v) = 2 * n
  OBVIOUS
<1>4. \A m \in 1 .. 2 * n : v[m] = IF m % 2 = 1 THEN x ELSE y
  OBVIOUS
<1>9. s = u \o v
  BY <1>1
<1> HIDE DEF u, v, s
<1>5. /\ s = u \o v
      /\ Len(u \o v) = Len(u) + Len(v)
      /\ \A i \in 1 .. Len(u) : (u \o v)[i] = u[i]
      /\ \A i \in 1 .. Len(v) : (u \o v)[Len(u) + i] = v[i]
  <2>1. s = u \o v
    BY <1>9
  <2> QED
    <3>1. u \in Seq({a, x, y}) /\ v \in Seq({a, x, y})
      BY <1>2, <1>3
    <3>2. /\ Len(u \o v) = Len(u) + Len(v)
          /\ \A i \in 1 .. Len(u) : (u \o v)[i] = u[i]
          /\ \A i \in 1 .. Len(v) : (u \o v)[Len(u) + i] = v[i]
      BY <3>1, Appended
    <3> QED
      BY <2>1, <3>2
<1>6. Len(s) = 1 + 2 * n
  BY <1>5, <1>2, <1>3
<1>7. s[1] = a
  BY <1>2, <1>5
<1>8. \A m \in 1 .. 2 * n : s[1 + m] = v[m]
  BY <1>5, <1>2, <1>3
<1> QED
  BY <1>4, <1>6, <1>7, <1>8 DEF s, WithPairs

LEMMA OneSomeOne ==
  ASSUME NEW n \in Nat, NEW a, NEW x, NEW b
  PROVE  WithMiddle(<<a>> \o Times(n, <<x>>) \o <<b>>, n, a, x, b)
<1> DEFINE s == <<a>> \o Times(n, <<x>>) \o <<b>>
           u == <<a>>
           v == [m \in 1 .. n |-> x]
           w == <<b>>
           uv == u \o v
           C == {a, x, b}
<1>1. v = Times(n, <<x>>)
  BY TimesOne
<1>2. u \in Seq(C) /\ Len(u) = 1 /\ u[1] = a /\ w \in Seq(C) /\ Len(w) = 1 /\ w[1] = b
  OBVIOUS
<1>3. v \in Seq(C) /\ Len(v) = n
  OBVIOUS
<1>4. \A m \in 1 .. n : v[m] = x
  OBVIOUS
<1>0. s = uv \o w
  BY <1>1
<1> HIDE DEF u, v, w, C, s
<1>5. /\ uv \in Seq(C)
      /\ Len(uv) = Len(u) + Len(v)
      /\ \A i \in 1 .. Len(u) : uv[i] = u[i]
      /\ \A i \in 1 .. Len(v) : uv[Len(u) + i] = v[i]
  <2>1. u \in Seq(C) /\ v \in Seq(C)
    BY <1>2, <1>3
  <2> QED
    BY <2>1, Appended
<1> HIDE DEF uv
<1>6. /\ Len(s) = Len(uv) + Len(w)
      /\ \A i \in 1 .. Len(uv) : s[i] = uv[i]
      /\ \A i \in 1 .. Len(w) : s[Len(uv) + i] = w[i]
  <2>1. uv \in Seq(C) /\ w \in Seq(C)
    BY <1>2, <1>5
  <2>2. /\ Len(uv \o w) = Len(uv) + Len(w)
        /\ \A i \in 1 .. Len(uv) : (uv \o w)[i] = uv[i]
        /\ \A i \in 1 .. Len(w) : (uv \o w)[Len(uv) + i] = w[i]
    BY <2>1, Appended
  <2> QED
    BY <1>0, <2>2
<1>7. Len(uv) = n + 1 /\ Len(s) = n + 2
  <2>1. Len(uv) = Len(u) + Len(v)
    BY <1>5
  <2>2. Len(uv) = n + 1
    BY <2>1, <1>2, <1>3
  <2>3. Len(s) = Len(uv) + Len(w)
    BY <1>6
  <2>4. Len(w) = 1
    BY <1>2
  <2> QED
    BY <2>2, <2>3, <2>4
<1>8. \A m \in 1 .. n + 1 : s[m] = uv[m]
  BY <1>6, <1>7
<1>9. s[1] = a
  BY <1>2, <1>5, <1>8
<1>10. s[n + 2] = b
  BY <1>6, <1>2, <1>7
<1>11. ASSUME NEW m \in 1 .. n
       PROVE  s[1 + m] = x
  <2>1. 1 + m \in 1 .. n + 1
    OBVIOUS
  <2>2. s[1 + m] = uv[1 + m]
    BY <2>1, <1>8
  <2>3. \A i \in 1 .. Len(v) : uv[Len(u) + i] = v[i]
    BY <1>5
  <2>4. uv[1 + m] = v[m]
    BY <2>3, <1>2, <1>3
  <2> QED
    BY <2>2, <2>4, <1>4
<1> QED
  BY <1>7, <1>9, <1>10, <1>11 DEF s, WithMiddle

LEMMA PlanIs ==
  ASSUME NEW fn \in Marches, NEW n \in Nat, NEW c \in Alike(fn, n)
  PROVE  /\ Len(Loops(c)) = Length(fn, n) /\ Len(Planned(c)) = Length(fn, n)
         /\ Length(fn, n) \in Nat \ {0}
         /\ \A m \in 1 .. Length(fn, n) : Planned(c)[m] = SweepFor(fn, Loops(c)[m])
<1>1. fn \in Fns
  BY DEF Marches, Fns
<1>2. c \in CallsOf(fn) /\ (fn \in {"movinv1", "movinv32", "modtst"} => c.iter = n)
  BY DEF Alike
<1>3. c.fn = fn
  BY <1>1, <1>2, LoopsIn DEF Fns
<1> DEFINE l == Loops(c)
           q == Planned(c)
<1>4. CASE fn \in {"movinv1", "movinv32"}
  <2>1. l = <<"fill">> \o Times(n, <<"up", "down">>)
    BY <1>2, <1>3, <1>4 DEF Loops
  <2>2. q = <<Up("nothing", "value")>> \o
            Times(n, <<Up("value", "complement"), Downwards("complement", "value")>>)
    BY <1>2, <1>3, <1>4 DEF Planned
  <2> HIDE DEF l, q
  <2>3. /\ Len(l) = 1 + 2 * n /\ l[1] = "fill"
        /\ \A m \in 1 .. 2 * n : l[1 + m] = IF m % 2 = 1 THEN "up" ELSE "down"
    <3>1. WithPairs(l, n, "fill", "up", "down")
      BY <2>1, OneAndPairs
    <3> QED
      BY <3>1 DEF WithPairs
  <2>4. /\ Len(q) = 1 + 2 * n /\ q[1] = Up("nothing", "value")
        /\ \A m \in 1 .. 2 * n :
             q[1 + m] = IF m % 2 = 1 THEN Up("value", "complement")
                        ELSE Downwards("complement", "value")
    <3>1. WithPairs(q, n, Up("nothing", "value"), Up("value", "complement"),
                   Downwards("complement", "value"))
      BY <2>2, OneAndPairs
    <3> QED
      BY <3>1 DEF WithPairs
  <2>5. Length(fn, n) = 1 + 2 * n
    BY <1>4 DEF Length
  <2>6. /\ SweepFor(fn, "fill") = Up("nothing", "value")
        /\ SweepFor(fn, "up") = Up("value", "complement")
        /\ SweepFor(fn, "down") = Downwards("complement", "value")
    BY DEF SweepFor
  <2>7. ASSUME NEW m \in 1 .. 1 + 2 * n
        PROVE  q[m] = SweepFor(fn, l[m])
    <3>1. CASE m = 1
      BY <3>1, <2>3, <2>4, <2>6
    <3>2. CASE m # 1
      <4>1. m - 1 \in 1 .. 2 * n /\ m = 1 + (m - 1)
        BY <3>2
      <4>2. l[m] = IF (m - 1) % 2 = 1 THEN "up" ELSE "down"
        BY <4>1, <2>3
      <4>3. q[m] = IF (m - 1) % 2 = 1 THEN Up("value", "complement")
                   ELSE Downwards("complement", "value")
        BY <4>1, <2>4
      <4> QED
        BY <4>2, <4>3, <2>6
    <3> QED
      BY <3>1, <3>2
  <2>8. 1 + 2 * n \in Nat \ {0}
    OBVIOUS
  <2> QED
    BY <2>3, <2>4, <2>5, <2>7, <2>8 DEF l, q
<1>5. CASE fn = "movinvr"
  <2>1. l = <<"fill", "up", "upNot">>
    BY <1>3, <1>5 DEF Loops
  <2>2. q = <<Up("nothing", "value"), Up("value", "complement"), Up("complement", "value")>>
    BY <1>3, <1>5 DEF Planned
  <2> HIDE DEF l, q
  <2>3. Len(l) = 3 /\ l[1] = "fill" /\ l[2] = "up" /\ l[3] = "upNot"
    BY <2>1
  <2>4. /\ Len(q) = 3 /\ q[1] = Up("nothing", "value") /\ q[2] = Up("value", "complement")
        /\ q[3] = Up("complement", "value")
    BY <2>2
  <2>5. Length(fn, n) = 3
    BY <1>5 DEF Length
  <2>6. /\ SweepFor(fn, "fill") = Up("nothing", "value")
        /\ SweepFor(fn, "up") = Up("value", "complement")
        /\ SweepFor(fn, "upNot") = Up("complement", "value")
    BY DEF SweepFor
  <2>7. \A m \in 1 .. 3 : m = 1 \/ m = 2 \/ m = 3
    OBVIOUS
  <2> QED
    BY <2>3, <2>4, <2>5, <2>6, <2>7 DEF l, q
<1>6. CASE fn = "modtst"
  <2>1. l = <<"every">> \o Times(n, <<"rest">>) \o <<"check">>
    BY <1>2, <1>3, <1>6 DEF Loops
  <2>2. q = <<Sparse("nothing", "value")>> \o Times(n, <<Up("nothing", "rest")>>)
            \o <<Sparse("value", "nothing")>>
    BY <1>2, <1>3, <1>6 DEF Planned
  <2> HIDE DEF l, q
  <2>3. /\ Len(l) = n + 2 /\ l[1] = "every" /\ l[n + 2] = "check"
        /\ \A m \in 1 .. n : l[1 + m] = "rest"
    <3>1. WithMiddle(l, n, "every", "rest", "check")
      BY <2>1, OneSomeOne
    <3> QED
      BY <3>1 DEF WithMiddle
  <2>4. /\ Len(q) = n + 2 /\ q[1] = Sparse("nothing", "value")
        /\ q[n + 2] = Sparse("value", "nothing")
        /\ \A m \in 1 .. n : q[1 + m] = Up("nothing", "rest")
    <3>1. WithMiddle(q, n, Sparse("nothing", "value"), Up("nothing", "rest"),
                    Sparse("value", "nothing"))
      BY <2>2, OneSomeOne
    <3> QED
      BY <3>1 DEF WithMiddle
  <2>5. Length(fn, n) = n + 2
    BY <1>6 DEF Length
  <2>6. /\ SweepFor(fn, "every") = Sparse("nothing", "value")
        /\ SweepFor(fn, "rest") = Up("nothing", "rest")
        /\ SweepFor(fn, "check") = Sparse("value", "nothing")
    BY <1>6 DEF SweepFor
  <2>7. ASSUME NEW m \in 1 .. n + 2
        PROVE  q[m] = SweepFor(fn, l[m])
    <3>1. CASE m = 1
      BY <3>1, <2>3, <2>4, <2>6
    <3>2. CASE m = n + 2
      BY <3>2, <2>3, <2>4, <2>6
    <3>3. CASE m # 1 /\ m # n + 2
      <4>1. m - 1 \in 1 .. n /\ m = 1 + (m - 1)
        BY <3>3
      <4> QED
        BY <4>1, <2>3, <2>4, <2>6
    <3> QED
      BY <3>1, <3>2, <3>3
  <2> QED
    BY <2>3, <2>4, <2>5, <2>7 DEF l, q
<1>7. CASE fn = "addr_tst2"
  <2>1. l = <<"own", "check">>
    BY <1>3, <1>7 DEF Loops
  <2>2. q = <<Up("nothing", "value"), Up("value", "nothing")>>
    BY <1>3, <1>7 DEF Planned
  <2> HIDE DEF l, q
  <2>3. Len(l) = 2 /\ l[1] = "own" /\ l[2] = "check"
    BY <2>1
  <2>4. Len(q) = 2 /\ q[1] = Up("nothing", "value") /\ q[2] = Up("value", "nothing")
    BY <2>2
  <2>5. Length(fn, n) = 2
    BY <1>7 DEF Length
  <2>6. /\ SweepFor(fn, "own") = Up("nothing", "value")
        /\ SweepFor(fn, "check") = Up("value", "nothing")
    BY <1>7 DEF SweepFor
  <2>7. \A m \in 1 .. 2 : m = 1 \/ m = 2
    OBVIOUS
  <2> QED
    BY <2>3, <2>4, <2>5, <2>6, <2>7 DEF l, q
<1> QED
  BY <1>4, <1>5, <1>6, <1>7 DEF Marches

(***************************************************************************)
(* What is planned for a word is what the registers of the loops hold.     *)
(***************************************************************************)
LEMMA MarchFns ==
  ASSUME NEW t \in Trials
  PROVE  (Fn(t.pat) \in Marches) <=> t.pat \notin {5, 7, 8}
BY TrialsAssumption DEF Fn, Marches

LEMMA OffsetIs ==
  ASSUME NEW t \in Trials, NEW i \in 1 .. Len(t.map), NEW a \in WordsOf(t, i)
  PROVE  /\ Offset(t, a) = a - t.map[i].start
         /\ Offset(t, a) \in Nat
<1> DEFINE n == CHOOSE x \in DOMAIN t.map : a \in WordsOf(t, x)
<1>1. DOMAIN t.map = 1 .. Len(t.map) /\ Len(t.map) \in Nat
  BY Segments
<1>2. n \in 1 .. Len(t.map) /\ a \in WordsOf(t, n)
  BY <1>1
<1>3. Offset(t, a) = a - t.map[n].start
  BY DEF Offset
<1> HIDE DEF n
<1>4. /\ a \in 0 .. Space - 1 /\ t.map[i].start <= a /\ a < t.map[i].end
      /\ i < n => a < t.map[n].start
      /\ n < i => t.map[n].end <= a
  BY <1>2, Ordered
<1>5. t.map[n].start <= a /\ a < t.map[n].end
  BY <1>2, Ordered
<1>6. /\ t.map[i].start \in 0 .. Space - 1
      /\ t.map[n].start \in 0 .. Space - 1 /\ t.map[n].end \in 0 .. Space - 1
  BY <1>2, Segments
<1>7. n = i
  BY <1>2, <1>4, <1>5, <1>6, Sizes
<1> QED
  BY <1>3, <1>4, <1>6, <1>7, Sizes

LEMMA AtOffsetIs ==
  ASSUME NEW t \in Trials, NEW i \in 1 .. Len(t.map), NEW a \in WordsOf(t, i), NEW c
  PROVE  AtOffset(t, c, a) <=> (a - t.map[i].start) % ModSz = c.off
BY OffsetIs DEF AtOffset

LEMMA ValueIs ==
  ASSUME NEW t \in Trials, NEW i \in 1 .. Len(t.map), NEW a \in WordsOf(t, i),
         NEW c \in CallsOf(Fn(t.pat))
  PROVE  Value(t, c, a) = Holds(c, t, i, a)
<1>1. CASE c.fn # "movinv32"
  BY <1>1 DEF Value, Holds
<1>2. CASE c.fn = "movinv32"
  <2>1. Fn(t.pat) \in Fns
    BY FnIn
  <2>2. Fn(t.pat) = "movinv32"
    BY <1>2, <2>1, LoopsIn DEF Fns
  <2>3. c \in CallsOf("movinv32")
    BY <2>2
  <2>4. c.lb \in SUBSET Bits /\ c.off \in Bits /\ c.p1 = Rol(c.lb, c.off)
    BY <2>3, CallSets
  <2>5. c.off \in Int
    BY <2>4 DEF Bits
  <2> DEFINE n == Offset(t, a)
  <2>6. n \in Int /\ n = a - t.map[i].start
    BY OffsetIs
  <2> HIDE DEF n
  <2>7. c.p1 \in SUBSET Bits
    BY <2>4, <2>5, RolType
  <2>8. Rol(c.p1, n % Width) = Rol(c.p1, n)
    BY <2>6, <2>7, RolOfMod
  <2>9. Rol(Rol(c.lb, c.off), n) = Rol(c.lb, c.off + n)
    BY <2>4, <2>5, <2>6, RolRol
  <2>10. Value(t, c, a) = Rol(c.p1, n % Width)
    BY <1>2 DEF Value, n
  <2>11. Holds(c, t, i, a) = Rol(c.lb, c.off + n)
    BY <1>2, <2>6 DEF Holds
  <2> QED
    BY <2>4, <2>8, <2>9, <2>10, <2>11
<1> QED
  BY <1>1, <1>2

(* The sweep that is planned for the loop, as far as its words go *)
Now == SweepFor(call.fn, loop)
AsPlanned(read, write) ==
  /\ read = Datum(trial, call, Now.reads, p)
  /\ write = Datum(trial, call, Now.writes, p)

LEMMA DataAre ==
  ASSUME NEW t, NEW c, NEW a
  PROVE  /\ Datum(t, c, "nothing", a) = NoWord
         /\ Datum(t, c, "value", a) = Value(t, c, a)
         /\ Datum(t, c, "complement", a) = Not(Value(t, c, a))
         /\ Datum(t, c, "rest", a) = IF AtOffset(t, c, a) THEN NoWord ELSE Not(Value(t, c, a))
BY DEF Datum

LEMMA SweepsAre ==
  ASSUME NEW fn
  PROVE  /\ \A l \in {"fill", "own"} :
              SweepFor(fn, l).reads = "nothing" /\ SweepFor(fn, l).writes = "value"
         /\ SweepFor(fn, "up").reads = "value" /\ SweepFor(fn, "up").writes = "complement"
         /\ SweepFor(fn, "down").reads = "complement" /\ SweepFor(fn, "down").writes = "value"
         /\ SweepFor(fn, "upNot").reads = "complement"
         /\ SweepFor(fn, "upNot").writes = "value"
         /\ SweepFor(fn, "every").reads = "nothing" /\ SweepFor(fn, "every").writes = "value"
         /\ SweepFor(fn, "rest").reads = "nothing" /\ SweepFor(fn, "rest").writes = "rest"
         /\ SweepFor(fn, "check").reads = "value" /\ SweepFor(fn, "check").writes = "nothing"
BY DEF SweepFor, Up, Downwards, Sparse

(* In which direction, and over which words *)
LEMMA ShapesAre ==
  ASSUME NEW fn \in Fns, NEW l \in LoopTable(fn), fn \in Marches
  PROVE  /\ SweepFor(fn, l).down = (l = "down")
         /\ SweepFor(fn, l).sparse = (fn = "modtst" /\ l \in {"every", "check"})
BY DEF Fns, LoopTable, Marches, SweepFor, Up, Downwards, Sparse

(* The word at p *)
LEMMA WordAt ==
  ASSUME IInv, pc = "word", call.fn \notin {"addr_tst1", "block_move"},
         NEW read, NEW write, ReadWrite(read, write, StepOf)
  PROVE  /\ Shape /\ trial \in Trials /\ j \in 1 .. Len(trial.map) /\ p \in WordsOf(trial, j)
         /\ p \in Nat /\ start \in Nat
         /\ Value(trial, call, p) = Holds(call, trial, j, p)
         /\ AtOffset(trial, call, p) <=> (p - start) % ModSz = call.off
<1>1. /\ start <= p /\ p < end /\ start \in Nat /\ p \in Nat /\ end \in Nat
  BY WordStep
<1>2. Shape /\ trial \in Trials /\ j \in 1 .. Len(trial.map)
  BY DEF IInv, Shape, segs
<1>3. p \in WordsOf(trial, j)
  BY <1>1, <1>2 DEF WordsOf, start, end
<1>4. call \in CallsOf(Fn(trial.pat))
  BY <1>2, CallNow
<1>5. Value(trial, call, p) = Holds(call, trial, j, p)
  BY <1>2, <1>3, <1>4, ValueIs
<1>6. AtOffset(trial, call, p) <=> (p - start) % ModSz = call.off
  BY <1>2, <1>3, AtOffsetIs DEF start
<1> QED
  BY <1>1, <1>2, <1>3, <1>5, <1>6

WordOfMarch ==
  /\ pc = "word" /\ call.fn \in Marches
  /\ \E read, write : ReadWrite(read, write, StepOf) /\ AsPlanned(read, write)

LEMMA Planned1 ==
  ASSUME IInv, MovInv1Fill \/ MovInv1Up \/ MovInv1Down
  PROVE  WordOfMarch
BY SweepsAre, DataAre
DEF MovInv1Fill, MovInv1Up, MovInv1Down, In, Marches, Modular, Value, StepOf, Down,
   AsPlanned, Now, WordOfMarch

LEMMA Planned32 ==
  ASSUME IInv, MovInv32Fill \/ MovInv32Up \/ MovInv32Down
  PROVE  WordOfMarch
<1>1. pc = "word" /\ call.fn = "movinv32"
  BY DEF MovInv32Fill, MovInv32Up, MovInv32Down, In
<1>2. call.fn \in Marches /\ call.fn \notin {"addr_tst1", "block_move"} /\ ~Modular
  BY <1>1 DEF Marches, Modular
<1>3. PICK read, write : /\ ReadWrite(read, write, StepOf)
                         /\ loop = "fill" => read = NoWord /\ write = pat
                         /\ loop = "up" => read = pat /\ write = Not(pat)
                         /\ loop = "down" => read = Not(pat) /\ write = pat
                         /\ loop \in {"fill", "up", "down"}
  BY <1>2 DEF MovInv32Fill, In, StepOf, Down, MovInv32Up, MovInv32Down
<1>4. /\ Shape /\ Looping /\ p \in Nat /\ start \in Nat
      /\ Value(trial, call, p) = Holds(call, trial, j, p)
  BY <1>1, <1>2, <1>3, WordAt, WordNow
<1>5. call.lb \in SUBSET Bits /\ call.off \in Int /\ k \in Int
  BY <1>1, <1>4, WordNow, CallFields DEF Bits
<1>6. PICK n \in Int : n = call.off + (p - start)
  BY <1>4, <1>5
<1>7. pat = Rol(call.lb, n)
  BY <1>1, <1>4, <1>6, <1>5, RolOfMod DEF IInv, Marked, Registers32
<1>8. Holds(call, trial, j, p) = Rol(call.lb, n)
  BY <1>1, <1>6 DEF Holds, start
<1>9. Value(trial, call, p) = pat
  BY <1>4, <1>7, <1>8
<1>10. AsPlanned(read, write)
  BY <1>3, <1>9, SweepsAre, DataAre DEF AsPlanned, Now
<1> QED
  BY <1>1, <1>2, <1>3, <1>10 DEF WordOfMarch

LEMMA PlannedR ==
  ASSUME IInv, MovInvRFill \/ MovInvRUp
  PROVE  WordOfMarch
<1>1. pc = "word" /\ call.fn = "movinvr" /\ loop \in {"fill", "up", "upNot"}
  BY DEF MovInvRFill, MovInvRUp, In
<1>2. /\ call.fn \in Marches /\ call.fn \notin {"addr_tst1", "block_move"}
      /\ ~Modular /\ ~Down /\ StepOf = 1
  BY <1>1 DEF Marches, Modular, Down, StepOf
<1>3. PICK read, write : /\ ReadWrite(read, write, StepOf)
                         /\ loop = "fill" => read = NoWord /\ write = Rand(k)
                         /\ loop = "up" => read = Rand(k) /\ write = Not(Rand(k))
                         /\ loop = "upNot" => read = Not(Rand(k)) /\ write = Not(Not(Rand(k)))
  BY <1>2, <1>1 DEF MovInvRFill, MovInvRUp, In
<1>4. /\ trial \in Trials /\ j \in 1 .. Len(trial.map) /\ p \in WordsOf(trial, j)
  BY <1>1, <1>2, <1>3, WordAt
<1>5. k = Before(trial, p) /\ k \in 0 .. Space - 1
  BY <1>1, <1>4, BeforeStep DEF IInv, Marked, RegistersR
<1>6. Value(trial, call, p) = Rand(k)
  BY <1>1, <1>5 DEF Value
<1>7. Not(Not(Rand(k))) = Rand(k)
  BY <1>5, TestsAssumption, NotNot
<1>8. AsPlanned(read, write)
  BY <1>1, <1>3, <1>6, <1>7, SweepsAre, DataAre DEF AsPlanned, Now
<1> QED
  BY <1>1, <1>2, <1>3, <1>8 DEF WordOfMarch

LEMMA PlannedMod ==
  ASSUME IInv, ModEvery \/ ModRest \/ ModCheck
  PROVE  WordOfMarch
<1>1. pc = "word" /\ call.fn = "modtst"
  BY DEF ModEvery, ModRest, ModCheck, In
<1>2. call.fn \in Marches /\ call.fn \notin {"addr_tst1", "block_move"}
  BY <1>1 DEF Marches
<1>3. Value(trial, call, p) = call.p1
  BY <1>1 DEF Value
<1>4. CASE ModEvery
  BY <1>4, <1>3, SweepsAre, DataAre, <1>1, <1>2
  DEF ModEvery, In, StepOf, Down, Modular, AsPlanned, Now, WordOfMarch
<1>5. CASE ModCheck
  BY <1>5, <1>3, SweepsAre, DataAre, <1>1, <1>2
  DEF ModCheck, In, StepOf, Down, Modular, AsPlanned, Now, WordOfMarch
<1>6. CASE ModRest
  <2> DEFINE write == IF k = call.off THEN NoWord ELSE Not(call.p1)
  <2>1. loop = "rest" /\ ReadWrite(NoWord, write, StepOf)
    BY <1>6 DEF ModRest, In, StepOf, Down, Modular
  <2>2. k = (p - start) % ModSz
    BY <1>1, <2>1 DEF IInv, Marked, RegistersMod, Looping
  <2>3. AtOffset(trial, call, p) <=> k = call.off
    <3> HIDE DEF write
    <3> QED
      BY <1>1, <1>2, <2>1, <2>2, WordAt
  <2>4. AsPlanned(NoWord, write)
    BY <1>3, <2>1, <2>3, SweepsAre, DataAre DEF AsPlanned, Now
  <2> QED
    BY <1>1, <1>2, <2>1, <2>4 DEF WordOfMarch
<1> QED
  BY <1>4, <1>5, <1>6

LEMMA PlannedOwn ==
  ASSUME IInv, AddrOwn \/ AddrOwnCheck
  PROVE  WordOfMarch
BY SweepsAre, DataAre
DEF AddrOwn, AddrOwnCheck, In, Marches, Modular, Value, StepOf, Down, AsPlanned, Now,
   WordOfMarch

-----------------------------------------------------------------------------
(* The refinement: calls, loops and words as the program of sweeps has them *)
LEMMA CallsPlanned ==
  ASSUME NEW t \in Trials, t.pat \notin {5, 7, 8}
  PROVE  /\ Len(Calls(t)) \in Nat \ {0} /\ PerCall(t) \in Nat \ {0}
         /\ \A i \in 1 .. Len(Calls(t)) :
              /\ Calls(t)[i].fn = Fn(t.pat)
              /\ Loops(Calls(t)[i]) # <<>>
              /\ Len(Loops(Calls(t)[i])) = PerCall(t)
              /\ \A m \in 1 .. PerCall(t) :
                   Planned(Calls(t)[i])[m] = SweepFor(Fn(t.pat), Loops(Calls(t)[i])[m])
<1> DEFINE fn == Fn(t.pat)
           n == IterOf(t)
           s == Calls(t)
<1>1. fn \in Marches /\ fn \in Fns
  BY MarchFns, FnIn
<1>2. n \in Nat
  BY TrialsAssumption DEF IterOf
<1>3. s \in Seq(Alike(fn, n)) /\ s # <<>>
  BY CallsAlike DEF Some
<1> HIDE DEF fn, n, s
<1>4. Len(s) \in Nat \ {0} /\ \A i \in 1 .. Len(s) : s[i] \in Alike(fn, n)
  BY <1>3
<1>5. ASSUME NEW i \in 1 .. Len(s)
      PROVE  /\ s[i].fn = fn /\ Loops(s[i]) # <<>>
             /\ Len(Loops(s[i])) = Length(fn, n) /\ Len(Planned(s[i])) = Length(fn, n)
             /\ Length(fn, n) \in Nat \ {0}
             /\ \A m \in 1 .. Length(fn, n) : Planned(s[i])[m] = SweepFor(fn, Loops(s[i])[m])
  BY <1>4, <1>1, LoopsIn, <1>2, PlanIs, <1>5 DEF Alike, Fns
<1>6. PerCall(t) = Length(fn, n)
  BY <1>4, <1>5 DEF PerCall, s
<1> QED
  BY <1>4, <1>5, <1>6 DEF s, fn

LEMMA CoversIs ==
  ASSUME NEW t \in Trials, NEW a
  PROVE  a \in Covers(t) <=> \E i \in 1 .. Len(t.map) : a \in WordsOf(t, i)
BY Segments DEF Covers

(* When a loop begins, no word has been dealt with. *)
Fresh == pc = "segment" /\ trial \in Trials /\ j = (IF Down THEN segs ELSE 1)

LEMMA FreshUntouched == Fresh => \A a \in Covers(trial) : ~Dealt(a)
<1> SUFFICES ASSUME Fresh, NEW a \in Covers(trial)
             PROVE  ~Dealt(a)
  OBVIOUS
<1>1. trial \in Trials /\ pc = "segment" /\ segs = Len(trial.map) /\ segs \in Nat \ {0}
  BY Segments DEF Fresh, segs
<1>2. PICK i \in 1 .. segs : a \in WordsOf(trial, i)
  BY <1>1, CoversIs
<1>3. j \in 1 .. segs
  BY <1>1 DEF Fresh
<1>4. /\ a \in 0 .. Space - 1
      /\ trial.map[i].start <= a /\ a < trial.map[i].end
      /\ i < j => a < start
      /\ j < i => end <= a
  BY <1>1, <1>2, <1>3, Ordered DEF start, end
<1>5. start \in 0 .. Space - 1 /\ end \in 0 .. Space - 1
  BY <1>1, <1>3, Segments DEF start, end
<1>6. i < j \/ i = j \/ j < i
  BY <1>2, <1>3, <1>1
<1>8. start \in Int /\ end \in Int /\ a \in Int
  BY <1>4, <1>5
<1>9. start < end
  BY <1>1, <1>3, SegmentOrder DEF start, end
<1>7. CASE Down
  BY <1>1, <1>2, <1>7, <1>4, <1>6, <1>8, <1>9 DEF Fresh, end, Dealt
<1>10. CASE ~Down
  BY <1>1, <1>2, <1>10, <1>4, <1>6, <1>8, <1>9 DEF Fresh, start, Dealt
<1> QED
  BY <1>7, <1>10

Anew == Fresh /\ seen = {}

LEMMA AnewSeen == Anew => SeenIs
<1> SUFFICES ASSUME Fresh, seen = {}
             PROVE  seen = {a \in Targets : Dealt(a)}
  BY DEF SeenIs, Anew
<1>1. \A a \in Targets : a \in Covers(trial)
  BY DEF Targets
<1> QED
  BY <1>1, FreshUntouched

LEMMA AnewSeenNext == Anew' => SeenIs'
BY AnewSeen, PTL

(* What IInv and the books say of the call and the loop *)
LEMMA MarchNow ==
  ASSUME IInv, IsMarch
  PROVE  /\ Shape /\ trial \in Trials /\ trial.pat \notin {5, 7, 8}
         /\ call.fn \in Marches /\ call.fn \in Fns /\ call.fn = Fn(trial.pat)
         /\ call.fn \notin {"addr_tst1", "block_move", "bit_fade"}
         /\ Looping => loop \notin {"sleep", "move", "line", "bank"}
BY CallNow, MarchFns, LoopNow DEF IInv, Shape, IsMarch, Marches, LoopTable

LEMMA SameTrial ==
  ASSUME trial' = trial
  PROVE  /\ (IsMarch' <=> IsMarch) /\ Covers(trial)' = Covers(trial)
         /\ Calls(trial)' = Calls(trial) /\ PerCall(trial)' = PerCall(trial)
BY DEF IsMarch

(* Another test than a march *)
LEMMA NoBooks ==
  ASSUME trial' = trial, ~IsMarch
  PROVE  MInv'
BY SameTrial DEF MInv

(* A test that has come to its end *)
LEMMA DoneBooks ==
  ASSUME MInv, pc' = "done", UNCHANGED <<trial, calls, loops, sweep>>
  PROVE  MInv'
<1>1. call' = call /\ (IsMarch' <=> IsMarch)
  BY SameLoop, SameTrial
<1>2. ASSUME IsMarch, Books
      PROVE  Books'
  BY <1>1, <1>2 DEF Books, SweepIs, Finished, SeenIs, CallOver, Looping
<1> QED
  BY <1>1, <1>2 DEF MInv

(* A step within a loop: seen grows by the words that it deals with. *)
Further(D) ==
  /\ D \in SUBSET Targets /\ seen' = seen \cup D
  /\ \A i \in 1 .. segs : \A a \in WordsOf(trial, i) :
       (Modular => Relevant(call, trial, i, a)) => (Dealt(a)' <=> Dealt(a) \/ a \in D)

LEMMA WithinBooks ==
  ASSUME IInv, MInv, Looping, Looping', IsMarch, UNCHANGED <<trial, calls, loops, sweep>>,
         NEW D, Further(D)
  PROVE  MInv'
<1>0. /\ D \in SUBSET Targets /\ seen' = seen \cup D
      /\ \A i \in 1 .. segs : \A a \in WordsOf(trial, i) :
           (Modular => Relevant(call, trial, i, a)) => (Dealt(a)' <=> Dealt(a) \/ a \in D)
  BY DEF Further
<1>1. /\ call' = call /\ loop' = loop /\ segs' = segs /\ (Modular' <=> Modular)
      /\ (IsMarch' <=> IsMarch) /\ trial \in Trials /\ segs = Len(trial.map)
  BY SameLoop, SameTrial DEF IInv, Shape, segs
<1>2. Books
  BY DEF MInv
<1>3. Rest(calls, Calls(trial))' /\ Rest(loops, Loops(call))' /\ SweepIs' /\ CallOver'
  BY <1>1, <1>2 DEF Books, SweepIs, Finished, CallOver, Looping
<1>4. Targets' = Targets
  BY <1>1 DEF Targets
<1>5. ASSUME NEW a \in Targets
      PROVE  Dealt(a)' <=> Dealt(a) \/ a \in D
  <2>1. a \in Covers(trial) /\ (Modular => AtOffset(trial, call, a))
    BY DEF Targets
  <2>2. PICK i \in 1 .. segs : a \in WordsOf(trial, i)
    BY <1>1, <2>1, CoversIs
  <2>3. AtOffset(trial, call, a) <=> (a - trial.map[i].start) % ModSz = call.off
    BY <1>1, <2>2, AtOffsetIs
  <2>4. Modular => Relevant(call, trial, i, a)
    BY <2>1, <2>3 DEF Relevant
  <2> QED
    BY <1>0, <2>2, <2>4
<1>6. seen = {a \in Targets : Dealt(a)}
  BY <1>2 DEF Books, SeenIs
<1>7. seen' = {a \in Targets : Dealt(a)'}
  BY <1>0, <1>6, <1>5
<1>8. SeenIs'
  BY <1>4, <1>7 DEF SeenIs
<1> QED
  BY <1>3, <1>8 DEF MInv, Books

LEMMA EnterBooks ==
  ASSUME IInv, MInv, EnterSegment
  PROVE  MInv'
<1>1. /\ pc = "segment" /\ pc' = "chunk"
      /\ UNCHANGED <<trial, calls, loops, sweep, seen>>
  BY DEF EnterSegment, history
<1>2. ASSUME IsMarch
      PROVE  MInv'
  <2>1. call.fn # "block_move" /\ Looping /\ Looping'
    BY <1>1, <1>2, MarchNow DEF Looping
  <2>2. \A i \in 1 .. segs : \A a \in WordsOf(trial, i) :
          (Modular => Relevant(call, trial, i, a)) => (Dealt(a)' <=> Dealt(a))
    BY <2>1, EnterDealt
  <2>3. Further({})
    BY <1>1, <2>2 DEF Further
  <2> QED
    BY <1>1, <1>2, <2>1, <2>3, WithinBooks
<1> QED
  BY <1>1, <1>2, NoBooks

LEMMA ChunkBooks ==
  ASSUME IInv, MInv, NextChunk
  PROVE  MInv'
<1>1. /\ pc = "chunk" /\ UNCHANGED <<trial, calls, loops, p, sweep, seen>>
  BY DEF NextChunk, history
<1>2. ASSUME IsMarch
      PROVE  MInv'
  <2>1. /\ Shape /\ Looping /\ call.fn \in Marches /\ loop # "sleep"
        /\ call.fn \notin {"addr_tst1", "block_move"}
    BY <1>1, <1>2, MarchNow DEF Looping
  <2>4. ~Nothing
    BY <1>1, SomethingToDo
  <2>5. pc' = "word"
    BY <2>4 DEF NextChunk
  <2>6. Down' <=> Down
    BY <1>1, SameLoop
  <2>7. \A a : Dealt(a)' <=> Dealt(a)
    BY <1>1, <2>5, <2>6 DEF Dealt
  <2>8. Looping'
    BY <2>5 DEF Looping
  <2>9. Further({})
    BY <1>1, <2>7 DEF Further
  <2> QED
    BY <1>1, <1>2, <2>1, <2>8, <2>9, WithinBooks
<1> QED
  BY <1>1, <1>2, NoBooks

LEMMA TickBooks ==
  ASSUME IInv, MInv, TickChunk
  PROVE  MInv'
<1>1. /\ pc = "tick" /\ UNCHANGED <<trial, calls, loops, sweep, seen>>
      /\ IF bail' THEN pc' = "done" /\ UNCHANGED pointers
         ELSE /\ IF done THEN NextSegment
                 ELSE pc' = "chunk" /\ UNCHANGED j
              /\ UNCHANGED <<p, pe, done>>
  BY DEF TickChunk, Tick, history
<1>2. CASE bail'
  BY <1>1, <1>2, DoneBooks
<1>3. CASE ~bail' /\ IsMarch
  <2>1. call.fn \notin {"addr_tst1", "block_move"} /\ Looping /\ pc' \notin {"call", "done"}
    BY <1>1, <1>3, MarchNow DEF Looping, NextSegment
  <2>2. \A i \in 1 .. segs : \A a \in WordsOf(trial, i) :
          (Modular => Relevant(call, trial, i, a)) => (Dealt(a)' <=> Dealt(a))
    BY <1>1, <1>3, <2>1, OverDealt, MoreDealt
  <2>3. Looping'
    BY <2>1 DEF Looping
  <2>4. Further({})
    BY <1>1, <2>2 DEF Further
  <2> QED
    BY <1>1, <1>3, <2>1, <2>3, <2>4, WithinBooks
<1> QED
  BY <1>1, <1>2, <1>3, NoBooks

LEMMA RestTail ==
  ASSUME NEW E, NEW s \in Seq(E), s # <<>>, NEW all, Len(all) \in Nat, Rest(s, all)
  PROVE  /\ Rest(Tail(s), all) /\ Len(Tail(s)) = Len(s) - 1
         /\ Len(s) \in Nat \ {0} /\ Len(all) - Len(s) \in Nat
         /\ s[1] = all[Len(all) - Len(s) + 1]
<1>1. Len(s) \in Nat \ {0} /\ Len(s) <= Len(all) /\ Len(Tail(s)) = Len(s) - 1
  BY DEF Rest
<1>2. \A m \in 1 .. Len(s) - 1 : Tail(s)[m] = s[m + 1]
  BY <1>1
<1>3. \A m \in 1 .. Len(s) : s[m] = all[Len(all) - Len(s) + m]
  BY DEF Rest
<1>4. ASSUME NEW m \in 1 .. Len(s) - 1
      PROVE  Tail(s)[m] = all[Len(all) - (Len(s) - 1) + m]
  BY <1>1, <1>2, <1>3, <1>4
<1>5. Len(s) - 1 <= Len(all)
  BY <1>1
<1>6. Rest(Tail(s), all)
  BY <1>1, <1>4, <1>5 DEF Rest
<1>7. 1 \in 1 .. Len(s) /\ Len(all) - Len(s) \in Nat
  BY <1>1
<1> QED
  BY <1>1, <1>3, <1>6, <1>7

LEMMA RestAll ==
  ASSUME NEW all, Len(all) \in Nat
  PROVE  Rest(all, all)
BY DEF Rest

LEMMA LoopOverBooks ==
  ASSUME IInv, MInv, LoopOver
  PROVE  MInv'
<1>1. /\ pc = "over" /\ loops' = Tail(loops) /\ sweep' = sweep + 1 /\ seen' = {}
      /\ IF Len(loops) = 1 THEN pc' = "call"
         ELSE pc' = "segment" /\ j' = IF loops[2] = "down" THEN segs ELSE 1
      /\ UNCHANGED <<trial, calls>>
  BY DEF LoopOver
<1>2. ASSUME IsMarch
      PROVE  MInv'
  <2>1. /\ Shape /\ Books /\ trial \in Trials /\ trial.pat \notin {5, 7, 8}
        /\ call' = call /\ segs' = segs /\ (IsMarch' <=> IsMarch)
    BY <1>1, <1>2, MarchNow, SameTrial DEF MInv, call, segs
  <2>2. /\ loops \in Seq(LoopNames(Fn(trial.pat))) /\ loops # <<>>
    BY <1>1, <2>1 DEF Shape, Looping, LoopsOf
  <2>3. call \in CallsOf(Fn(trial.pat)) /\ Fn(trial.pat) \in Fns
    BY <2>1, CallNow
  <2>4. Loops(call) \in Seq(LoopNames(Fn(trial.pat)))
    BY <2>3, LoopsIn DEF Fns, LoopsOf
  <2>5. Len(Loops(call)) \in Nat
    BY <2>4
  <2>6. Rest(loops, Loops(call))
    BY <2>1 DEF Books
  <2>7. Rest(Tail(loops), Loops(call)) /\ Len(Tail(loops)) = Len(loops) - 1
        /\ Len(loops) \in Nat \ {0}
    BY <2>2, <2>5, <2>6, RestTail
  <2>8. Rest(loops, Loops(call))' /\ Rest(calls, Calls(trial))'
    BY <1>1, <2>1, <2>7 DEF Books
  <2>9. SweepIs'
    <3> DEFINE x == Finished * PerCall(trial)
               q == PerCall(trial)
    <3>1. sweep = x + q - Len(loops) + 1
      BY <2>1 DEF Books, SweepIs
    <3>2. x' = x /\ q' = q
      BY <1>1 DEF Finished
    <3>3. x \in Int /\ q \in Int
      BY <2>1, CallsPlanned, Distributes DEF Shape, Finished
    <3> HIDE DEF x, q
    <3>4. sweep' = x' + q' - Len(loops') + 1
      BY <1>1, <2>7, <3>1, <3>2, <3>3
    <3> QED
      BY <3>4 DEF SweepIs, x, q
  <2>10. CASE Len(loops) = 1
    BY <1>1, <2>2, <2>7, <2>10, <2>8, <2>9 DEF SeenIs, CallOver, Looping, MInv, Books
  <2>11. CASE Len(loops) # 1
    BY <1>1, <2>11, <2>2, TailIs, <2>1, AnewSeenNext, <2>8, <2>9
    DEF loop, Anew, Fresh, Down, CallOver, MInv, Books
  <2> QED
    BY <2>10, <2>11
<1> QED
  BY <1>1, <1>2, NoBooks

(* The calls of a march are as long as the first. *)
LEMMA NextCallBooks ==
  ASSUME IInv, MInv, NextCall
  PROVE  MInv'
<1>1. /\ pc = "call" /\ UNCHANGED <<trial, sweep, seen>>
      /\ IF Len(calls) = 1 THEN pc' = "done" /\ UNCHANGED <<calls, loops, j>>
         ELSE /\ calls' = Tail(calls)
              /\ loops' = Loops(calls[2])
              /\ pc' = "segment" /\ j' = 1
  BY DEF NextCall, history
<1>2. CASE Len(calls) = 1
  BY <1>1, <1>2, DoneBooks
<1>3. CASE Len(calls) # 1 /\ IsMarch
  <2>1. /\ Shape /\ Books /\ trial \in Trials /\ trial.pat \notin {5, 7, 8}
        /\ segs' = segs /\ (IsMarch' <=> IsMarch)
    BY <1>1, <1>3, MarchNow, SameTrial DEF MInv, segs
  <2>2. calls \in Seq(CallsOf(Fn(trial.pat))) /\ calls # <<>>
    BY <2>1 DEF Shape
  <2>3. /\ Tail(calls) \in Seq(CallsOf(Fn(trial.pat))) /\ Tail(calls) # <<>>
        /\ Head(Tail(calls)) = calls[2] /\ Tail(calls)[1] = calls[2]
    BY <1>3, <2>2, TailIs
  <2>4. call' = calls[2] /\ loops' = Loops(call')
    BY <1>1, <1>3, <2>3 DEF call
  <2> DEFINE N == Len(Calls(trial))
             n == Len(calls)
             P == PerCall(trial)
  <2>5. /\ N \in Nat \ {0} /\ P \in Nat \ {0}
        /\ \A i \in 1 .. N : /\ Len(Loops(Calls(trial)[i])) = P
                             /\ Calls(trial)[i].fn = Fn(trial.pat)
    BY <2>1, CallsPlanned
  <2>6. Rest(calls, Calls(trial))
    BY <2>1 DEF Books
  <2>7. /\ Rest(Tail(calls), Calls(trial)) /\ Len(Tail(calls)) = n - 1
        /\ n \in Nat \ {0} /\ N - n \in Nat
    <3> HIDE DEF P
    <3> QED
      BY <2>2, <2>5, <2>6, RestTail
  <2>8. Tail(calls)[1] = Calls(trial)[N - (n - 1) + 1]
    BY <1>3, <2>7 DEF Rest
  <2>9. Len(loops') = P
    BY <1>3, <2>5, <2>7, <2>3, <2>8, <2>4
  <2>10. Rest(calls, Calls(trial))' /\ Rest(loops, Loops(call))'
    BY <1>1, <1>3, <2>7, <2>5, <2>9, RestAll, <2>4
  <2>11. SweepIs'
    <3>1. loops = <<>> /\ Len(loops) = 0
      BY <1>1, <2>1 DEF Books, CallOver
    <3>2. sweep = (N - n) * P + P - 0 + 1
      BY <2>1, <3>1 DEF Books, SweepIs, Finished
    <3>3. N' = N /\ P' = P /\ n' = n - 1
      BY <1>1, <1>3, <2>7
    <3>4. (N - (n - 1)) * P = (N - n) * P + P /\ (N - n) * P \in Int
      BY <2>5, <2>7, Distributes
    <3>5. sweep' = (N' - n') * P' + P' - Len(loops') + 1
      <4> DEFINE x == (N - n) * P
                 y == (N - (n - 1)) * P
      <4>1. x \in Int /\ y = x + P /\ sweep = x + P - 0 + 1
        BY <3>2, <3>4
      <4>2. y + P - P + 1 = x + P - 0 + 1
        <5> HIDE DEF x, y
        <5> QED
          BY <4>1, <2>5
      <4>3. sweep' = sweep
        BY <1>1
      <4> QED
        BY <2>9, <3>3, <4>1, <4>2, <4>3
    <3> QED
      BY <3>5 DEF SweepIs, Finished
  <2>12. SeenIs' /\ CallOver'
    BY <1>1, <2>1, <2>3, <2>4, FnIn, LoopsIn, FirstIs, <1>3, AnewSeenNext
    DEF Books, CallOver, Fns, loop, Anew, Fresh, Down
  <2> QED
    BY <2>10, <2>11, <2>12 DEF MInv, Books
<1> QED
  BY <1>1, <1>2, <1>3, NoBooks

LEMMA InitBooks ==
  ASSUME Init
  PROVE  MInv
<1> SUFFICES ASSUME IsMarch
             PROVE  Books
  BY DEF MInv
<1>1. /\ pc = "segment" /\ trial \in Trials /\ j = 1 /\ sweep = 1 /\ seen = {}
      /\ calls = Calls(trial) /\ loops = Loops(Head(Calls(trial)))
      /\ trial.pat \notin {5, 7, 8}
  BY DEF Init, IsMarch
<1>2. IInv
  BY InitHolds
<1>3. call = Head(Calls(trial)) /\ loops = Loops(call)
  BY <1>1 DEF call
<1>4. calls # <<>> /\ calls \in Seq(CallsOf(Fn(trial.pat)))
  BY <1>2 DEF IInv, Shape
<1>5. call = Calls(trial)[1]
  BY <1>1, <1>3, <1>4
<1>6. Len(Calls(trial)) \in Nat \ {0} /\ PerCall(trial) \in Nat \ {0}
      /\ Len(loops) = PerCall(trial)
  BY <1>1, <1>3, <1>5, CallsPlanned
<1>7. Rest(calls, Calls(trial)) /\ Rest(loops, Loops(call))
  BY <1>1, <1>3, <1>6, RestAll
<1>8. SweepIs
  BY <1>1, <1>6 DEF Finished, SweepIs
<1>9. loop # "down"
  BY <1>1, <1>2, CallNow, FnIn, LoopsIn, <1>3, FirstIs DEF IInv, Fns, loop
<1>10. SeenIs /\ CallOver
  BY <1>1, <1>9, AnewSeen DEF Anew, Fresh, Down, CallOver
<1> QED
  BY <1>7, <1>8, <1>10 DEF Books

(* A word is dealt with once, and it is the next of those that are left. *)
LEMMA WordIsNext ==
  ASSUME IInv, MInv, IsMarch, pc = "word",
         NEW read, NEW write, ReadWrite(read, write, StepOf)
  PROVE  /\ MInv'
         /\ p \in Targets \ seen
         /\ \A b \in Targets \ seen : IF Down THEN b <= p ELSE p <= b
<1>1. /\ Shape /\ Looping /\ trial \in Trials /\ call.fn \notin {"addr_tst1", "block_move"}
      /\ segs = Len(trial.map) /\ j \in 1 .. segs /\ p \in WordsOf(trial, j) /\ p \in Nat
      /\ Books
  BY MarchNow, WordAt DEF Looping, segs, MInv
<1>2. Modular => Relevant(call, trial, j, p)
  BY <1>1, WordStep DEF Relevant, start
<1>3. p \in Targets
  BY <1>1, CoversIs, AtOffsetIs, <1>2 DEF Modular, Targets, Relevant
<1>4. \A i \in 1 .. segs : \A a \in WordsOf(trial, i) :
        (Modular => Relevant(call, trial, i, a)) => (Dealt(a)' <=> Dealt(a) \/ a = p)
  BY <1>1, DealtNext
<1>5. ~Dealt(p)
  BY <1>1, <1>2, DealtNext
<1>6. seen = {a \in Targets : Dealt(a)}
  BY <1>1 DEF Books, SeenIs
<1>7. ASSUME NEW b \in Targets \ seen
      PROVE  IF Down THEN b <= p ELSE p <= b
  <2>1. ~Dealt(b)
    BY <1>6
  <2>2. b \in Int
    <3>1. PICK i \in 1 .. Len(trial.map) : b \in WordsOf(trial, i)
      BY <1>1, CoversIs DEF Targets
    <3> QED
      BY <1>1, <3>1, Ordered
  <2>3. ~(IF Down THEN b > p ELSE b < p)
    BY <2>1 DEF Dealt
  <2>4. CASE Down
    BY <1>1, <2>2, <2>3, <2>4
  <2>5. CASE ~Down
    BY <1>1, <2>2, <2>3, <2>5
  <2> QED
    BY <2>4, <2>5
<1>8. MInv'
  <2>1. UNCHANGED <<trial, calls, loops, sweep>> /\ seen' = seen \cup {p}
        /\ pc' \in {"word", "tick"}
    BY DEF ReadWrite
  <2>2. Further({p})
    BY <1>3, <1>4, <2>1 DEF Further
  <2>3. Looping'
    BY <2>1 DEF Looping
  <2> QED
    BY <1>1, <2>1, <2>2, <2>3, WithinBooks
<1> QED
  BY <1>3, <1>5, <1>6, <1>7, <1>8

(* The loop that is under way is the sweep that is planned. *)
LEMMA SweepNow ==
  ASSUME IInv, MInv, IsMarch, Looping
  PROVE  /\ sweep <= Sweeps(trial)
         /\ NthSweep(trial, sweep) = Sweep(trial, call, Now)
<1> DEFINE N == Len(Calls(trial))
           P == PerCall(trial)
           D == Finished
           r == P - Len(loops)
<1>1. /\ Shape /\ Books /\ trial \in Trials /\ trial.pat \notin {5, 7, 8}
      /\ call.fn = Fn(trial.pat)
  BY MarchNow DEF MInv
<1>2. /\ N \in Nat \ {0} /\ P \in Nat \ {0}
      /\ \A i \in 1 .. N :
           /\ Len(Loops(Calls(trial)[i])) = P
           /\ \A m \in 1 .. P :
                Planned(Calls(trial)[i])[m] = SweepFor(Fn(trial.pat), Loops(Calls(trial)[i])[m])
  BY <1>1, CallsPlanned
<1>3. /\ calls \in Seq(CallsOf(Fn(trial.pat))) /\ calls # <<>>
      /\ loops \in Seq(LoopNames(Fn(trial.pat))) /\ loops # <<>>
  BY <1>1 DEF Shape, LoopsOf
<1>4. Rest(calls, Calls(trial)) /\ Rest(loops, Loops(call))
  BY <1>1 DEF Books
<1>5. D \in 0 .. N - 1 /\ call = Calls(trial)[D + 1]
  <2> HIDE DEF P, r
  <2>1. Len(calls) \in Nat \ {0} /\ N - Len(calls) \in Nat
        /\ calls[1] = Calls(trial)[N - Len(calls) + 1]
    BY <1>2, <1>3, <1>4, RestTail
  <2> QED
    BY <1>2, <1>3, <2>1 DEF Finished, call
<1>6. D + 1 \in 1 .. N /\ D \in Nat
  BY <1>2, <1>5
<1>7. Len(Loops(call)) = P
  BY <1>2, <1>5, <1>6
<1>8. r \in 0 .. P - 1 /\ loop = Loops(call)[r + 1]
  <2> HIDE DEF N, D
  <2>1. Len(loops) \in Nat \ {0} /\ P - Len(loops) \in Nat
        /\ loops[1] = Loops(call)[P - Len(loops) + 1]
    BY <1>2, <1>3, <1>4, <1>7, RestTail
  <2> QED
    BY <1>2, <1>3, <2>1 DEF loop
<1>9. sweep = D * P + P - Len(loops) + 1
  BY <1>1 DEF Books, SweepIs
<1>10. Len(loops) \in Nat
  BY <1>3
<1>11. Planned(call)[r + 1] = Now
  BY <1>2, <1>8, <1>1, <1>5, <1>6 DEF Now
<1>12. P * D \in Int /\ D * P = P * D
  <2> HIDE DEF P, D
  <2> QED
    BY <1>2, <1>6
<1>13. r = (sweep - 1) - P * D /\ sweep - 1 \in Int
  <2> DEFINE x == P * D
  <2>1. x \in Int /\ sweep = x + P - Len(loops) + 1
    BY <1>9, <1>12
  <2> HIDE DEF x, D
  <2>2. r = (sweep - 1) - x /\ sweep - 1 \in Int
    BY <1>2, <1>10, <2>1
  <2> QED
    BY <2>2 DEF x
<1>14. (sweep - 1) \div P = D /\ (sweep - 1) % P = r
  <2> HIDE DEF D, r, P
  <2>1. P \in Nat \ {0} /\ D \in Int /\ r \in 0 .. P - 1
    BY <1>2, <1>6, <1>8
  <2> QED
    BY <1>13, <2>1, UniqueDiv, UniqueMod
<1>15. NthSweep(trial, sweep) = Sweep(trial, call, Now)
  <2> HIDE DEF D, r
  <2> QED
    BY <1>5, <1>11, <1>14 DEF NthSweep
<1>16. sweep <= Sweeps(trial)
  <2>1. Sweeps(trial) = N * P
    BY <1>1 DEF Sweeps
  <2> DEFINE e == N - D - 1
  <2>2. e \in Nat /\ N = D + (1 + e)
    <3> HIDE DEF D
    <3> QED
      BY <1>2, <1>5
  <2> HIDE DEF N, P, D, r, e
  <2>3. P * (D + (1 + e)) = P * D + P * (1 + e) /\ P * (1 + e) = P * 1 + P * e
    BY <1>2, <1>6, <2>2, Distributes
  <2>4. P * e \in Nat /\ P * 1 = P /\ N * P = P * N
    BY <1>2, <2>2
  <2>5. N * P = P * D + (P + P * e)
    BY <2>2, <2>3, <2>4
  <2> DEFINE x == P * D
             y == P * e
             z == N * P
  <2>6. x \in Int /\ y \in Nat /\ z = x + (P + y) /\ r = (sweep - 1) - x
        /\ sweep - 1 \in Int /\ r \in 0 .. P - 1
    BY <1>8, <1>12, <1>13, <2>4, <2>5
  <2>7. sweep \in Int
    BY <1>9, <1>2, <1>10, <1>12
  <2> HIDE DEF x, y, z
  <2>8. sweep <= z
    BY <1>2, <2>6, <2>7
  <2> QED
    BY <2>1, <2>8 DEF z, N, P
<1> QED
  BY <1>15, <1>16

(***************************************************************************)
(* Each step of a test is a step of the program of sweeps, or none.        *)
(***************************************************************************)

LEMMA InitMarches ==
  ASSUME Init
  PROVE  March!Init
BY DEF Init, March!Init

LEMMA SameMemory ==
  ASSUME NEW m, NEW f, NEW a, NEW w
  PROVE  March!Load(m, f, a) = Load(m, f, a) /\ March!Store(m, f, a, w) = Store(m, f, a, w)
BY DEF March!Cell, Cell, March!Held, Held, March!Forced, Forced, March!Flips, Flips,
   March!Load, Load, March!Store, Store

LEMMA SweepParts ==
  ASSUME IInv, IsMarch, Looping
  PROVE  LET s == Sweep(trial, call, Now)
         IN  /\ s.words = Targets /\ s.down = Down
             /\ \A a \in Targets : /\ s.read[a] = Datum(trial, call, Now.reads, a)
                                   /\ s.write[a] = Datum(trial, call, Now.writes, a)
<1>1. /\ call.fn \in Fns /\ call.fn \in Marches /\ loop \in LoopTable(call.fn)
  BY MarchNow, LoopNow
<1>2. Now.down = Down /\ Now.sparse = Modular
  BY <1>1, ShapesAre DEF Now, Down, Modular
<1> DEFINE words == {a \in Covers(trial) : Now.sparse => AtOffset(trial, call, a)}
<1>3. words = Targets
  BY <1>2 DEF Targets
<1> HIDE DEF words
<1>4. Sweep(trial, call, Now) =
        [words |-> words, down |-> Now.down,
         read |-> [a \in words |-> Datum(trial, call, Now.reads, a)],
         write |-> [a \in words |-> Datum(trial, call, Now.writes, a)]]
  BY DEF Sweep, words
<1> QED
  BY <1>2, <1>3, <1>4

LEMMA WordMarches ==
  ASSUME IInv, MInv, IsMarch, WordOfMarch
  PROVE  March!Operation
<1>1. pc = "word" /\ Looping
  BY DEF WordOfMarch, Looping
<1>2. PICK read, write : ReadWrite(read, write, StepOf) /\ AsPlanned(read, write)
  BY DEF WordOfMarch
<1>3. /\ p \in Targets \ seen
      /\ \A b \in Targets \ seen : IF Down THEN b <= p ELSE p <= b
  BY <1>1, <1>2, WordIsNext
<1>4. sweep <= Sweeps(trial) /\ NthSweep(trial, sweep) = Sweep(trial, call, Now)
  BY <1>1, SweepNow
<1> DEFINE s == NthSweep(trial, sweep)
<1>5. /\ s.words = Targets /\ s.down = Down
      /\ s.read[p] = read /\ s.write[p] = write
  BY <1>1, <1>2, <1>3, <1>4, SweepParts DEF AsPlanned
<1>6. /\ reported' = (IF read # NoWord /\ Load(mem, trial.fault, p) # read
                      THEN reported \cup {p} ELSE reported)
      /\ mem' = (IF write = NoWord THEN mem ELSE Store(mem, trial.fault, p, write))
      /\ seen' = seen \cup {p} /\ pc' \in {"word", "tick"}
      /\ UNCHANGED <<trial, sweep>>
  BY <1>2 DEF ReadWrite, Compare, Write
<1>7. IsMarch'
  BY <1>6, SameTrial
<1> HIDE DEF s
<1>8. March!First(s.words \ seen, s.down, p)
  BY <1>3, <1>5 DEF March!First
<1> QED
  BY <1>1, <1>3, <1>4, <1>5, <1>6, <1>7, <1>8, SameMemory DEF March!Operation, March!Sweeping, s

LEMMA OverMarches ==
  ASSUME IInv, MInv, IsMarch, LoopOver
  PROVE  March!NextSweep
BY SameTrial, SweepNow, SweepParts
DEF LoopOver, Looping, MInv, Books, SeenIs, Dealt, March!NextSweep, March!Sweeping

(* What a step leaves alone if it is none of the program of sweeps *)
Aside ==
  /\ trial' = trial /\ pc # "done"
  /\ IsMarch => UNCHANGED <<sweep, seen, mem, reported>>

LEMMA AsideStutters ==
  ASSUME Aside, pc' # "done"
  PROVE  UNCHANGED March!vars
BY SameTrial DEF Aside, March!vars

LEMMA AsideStops ==
  ASSUME Aside, pc' = "done", bail'
  PROVE  March!Stop
BY SameTrial DEF Aside, March!Stop

LEMMA AsideFinishes ==
  ASSUME Aside, pc' = "done", ~bail', IsMarch => sweep = Sweeps(trial) + 1
  PROVE  March!Finish
BY SameTrial DEF Aside, March!Finish, Sweeps, IsMarch

(* After the last call all sweeps are behind.                               *)
LEMMA AllSwept ==
  ASSUME IInv, MInv, IsMarch, pc = "call", Len(calls) = 1
  PROVE  sweep = Sweeps(trial) + 1 /\ Sweeps(trial) \in Nat
<1> DEFINE N == Len(Calls(trial))
           P == PerCall(trial)
<1>1. trial \in Trials /\ trial.pat \notin {5, 7, 8} /\ Books
  BY MarchNow DEF MInv
<1>2. N \in Nat \ {0} /\ P \in Nat \ {0} /\ Sweeps(trial) = N * P
  BY <1>1, CallsPlanned DEF Sweeps
<1>3. loops = <<>> /\ Len(loops) = 0
  BY <1>1 DEF Books, CallOver
<1>4. sweep = (N - 1) * P + P - 0 + 1
  BY <1>1, <1>3 DEF Books, SweepIs, Finished
<1> HIDE DEF N, P
<1>5. N - 1 \in Int /\ 1 \in Int /\ P \in Int /\ N = (N - 1) + 1
  BY <1>2
<1>6. P * (N - 1) \in Int /\ P * ((N - 1) + 1) = P * (N - 1) + P * 1
  BY <1>5, Distributes
<1>7. P * 1 = P /\ P * (N - 1) = (N - 1) * P /\ P * N = N * P
  BY <1>2
<1> DEFINE x == (N - 1) * P
           z == N * P
<1>8. x \in Int /\ z = x + P /\ z \in Nat
  BY <1>2, <1>5, <1>6, <1>7
<1>9. sweep = x + P - 0 + 1
  BY <1>4
<1> HIDE DEF x, z
<1>10. sweep = z + 1
  BY <1>2, <1>8, <1>9
<1> QED
  BY <1>2, <1>8, <1>10 DEF z

LEMMA CallMarches ==
  ASSUME IInv, MInv, NextCall
  PROVE  March!Next \/ UNCHANGED March!vars
BY AsideStutters, AsideStops, AllSwept, AsideFinishes
DEF NextCall, history, Aside, March!Next

(* The steps of the tests that are no marches *)
NoMarchStep ==
  FadeFill \/ FadeSleep \/ FadeCheck \/ Blocks \/ BlockMove \/ TickMove \/ BlockPairs
  \/ AddrLines \/ AddrBanks \/ AddrBank \/ AddrMask \/ TickLine

LEMMA NoMarches ==
  ASSUME IInv, NoMarchStep
  PROVE  ~IsMarch /\ trial' = trial /\ pc # "done" /\ (pc' = "done" => bail')
<1>1. IsMarch => call.fn \notin {"addr_tst1", "block_move", "bit_fade"}
  BY MarchNow
<1>2. IsMarch /\ Looping => loop \notin {"sleep", "move", "line", "bank"}
  BY MarchNow
<1>3. CASE FadeFill \/ FadeCheck
  BY <1>1, <1>3 DEF FadeFill, FadeCheck, In, ReadWrite
<1>4. CASE FadeSleep
  BY <1>2, <1>4 DEF FadeSleep, Looping
<1>5. CASE Blocks \/ BlockMove \/ BlockPairs
  BY <1>1, <1>5 DEF Blocks, BlockMove, BlockPairs, In
<1>6. CASE TickMove
  BY <1>6, <1>2 DEF TickMove, Tick, NextSegment, Looping
<1>7. CASE AddrLines \/ AddrBanks
  BY <1>1, <1>7 DEF AddrLines, AddrBanks, Plant
<1>8. CASE AddrBank
  BY <1>8, <1>1 DEF AddrBank, Plant, IInv, Places, AddrPlace
<1>9. CASE AddrMask
  BY <1>9, <1>1 DEF AddrMask, NextTry, MasksOver, IInv, Places, AddrPlace
<1>10. CASE TickLine
  BY <1>10, <1>1 DEF TickLine, Tick
<1> QED
  BY <1>3, <1>4, <1>5, <1>6, <1>7, <1>8, <1>9, <1>10 DEF NoMarchStep

MarchWords == MovInv \/ ModEvery \/ ModRest \/ ModCheck \/ AddrOwn \/ AddrOwnCheck

LEMMA WordsPlanned ==
  ASSUME IInv, MarchWords
  PROVE  WordOfMarch
BY Planned1, Planned32, PlannedR, PlannedMod, PlannedOwn DEF MovInv, MarchWords

LEMMA WordAside ==
  ASSUME WordOfMarch
  PROVE  pc = "word" /\ trial' = trial /\ pc' \in {"word", "tick"}
BY DEF WordOfMarch, ReadWrite

LEMMA NextBooks ==
  ASSUME IInv, MInv, [Next]_vars
  PROVE  MInv'
<1>1. CASE EnterSegment
  BY <1>1, EnterBooks
<1>2. CASE NextChunk
  BY <1>2, ChunkBooks
<1>3. CASE TickChunk
  BY <1>3, TickBooks
<1>4. CASE LoopOver
  BY <1>4, LoopOverBooks
<1>5. CASE NextCall
  BY <1>5, NextCallBooks
<1>6. CASE MarchWords
  <2>1. WordOfMarch
    BY <1>6, WordsPlanned
  <2>2. PICK read, write : ReadWrite(read, write, StepOf)
    BY <2>1 DEF WordOfMarch
  <2>3. pc = "word" /\ trial' = trial
    BY <2>1, WordAside
  <2>4. IsMarch => MInv'
    BY <2>2, <2>3, WordIsNext
  <2> QED
    BY <2>3, <2>4, NoBooks
<1>7. CASE NoMarchStep
  BY <1>7, NoMarches, NoBooks
<1>8. CASE UNCHANGED vars
  BY <1>8, SameLoop, SameSegment, SameTrial
  DEF vars, pointers, history, Looping, Dealt, Targets, SeenIs, Books, SweepIs,
     Finished, CallOver, MInv
<1> QED
  BY <1>1, <1>2, <1>3, <1>4, <1>5, <1>6, <1>7, <1>8
  DEF Next, Walk, Others, MarchWords, NoMarchStep, Done

LEMMA NextMarches ==
  ASSUME IInv, MInv, [Next]_vars
  PROVE  [March!Next]_March!vars
<1>1. CASE EnterSegment \/ NextChunk
  BY <1>1, AsideStutters DEF EnterSegment, NextChunk, NextSegment, Aside, history
<1>2. CASE TickChunk
  BY <1>2, AsideStutters, AsideStops
  DEF TickChunk, Tick, NextSegment, Aside, history, March!Next
<1>3. CASE LoopOver
  BY <1>3, OverMarches, AsideStutters DEF March!Next, LoopOver, Aside
<1>4. CASE NextCall
  BY <1>4, CallMarches
<1>5. CASE MarchWords
  BY <1>5, WordsPlanned, WordMarches, WordAside, AsideStutters DEF March!Next, Aside
<1>6. CASE NoMarchStep
  BY <1>6, NoMarches, AsideStutters, AsideStops DEF Aside, March!Next
<1>7. CASE UNCHANGED vars
  BY <1>7, SameTrial DEF vars, history, March!vars
<1> QED
  BY <1>1, <1>2, <1>3, <1>4, <1>5, <1>6, <1>7
  DEF Next, Walk, Others, MarchWords, NoMarchStep, Done

(* The loops of test.c implement the program of sweeps: every march test   *)
(* goes over the words in the order, with the reads and the writes of the  *)
(* march notation, in any memory, with any fault, over any layout of       *)
(* segments and chunks.                                                    *)
THEOREM MarchesImplemented == Spec => ImplementsMarch
<1>1. Init => MInv /\ March!Init
  BY InitBooks, InitMarches
<1>2. IInv /\ MInv /\ [Next]_vars => MInv' /\ [March!Next]_March!vars
  BY NextBooks, NextMarches
<1> QED
  BY <1>1, <1>2, Invariant, PTL DEF Spec, ImplementsMarch, March!Spec

-----------------------------------------------------------------------------
(* How many ticks a length, a segment and a trial take *)
LEMMA CeilOf ==
  ASSUME NEW q \in Int, NEW r \in 1 .. Spin
  PROVE  Ceil(Spin * q + r) = q + 1
<1>1. PICK x \in Int : x = Spin * q
  BY Sizes
<1>2. Spin * (q + 1) = x + Spin
  BY Sizes, Distributes, <1>1
<1>3. (x + r) + Spin - 1 \in Int /\ r - 1 \in 0 .. Spin - 1 /\ q + 1 \in Int
  BY <1>1, Sizes
<1>4. r - 1 = ((x + r) + Spin - 1) - Spin * (q + 1)
  BY <1>1, Sizes, <1>2
<1>5. ((x + r) + Spin - 1) \div Spin = q + 1
  BY <1>3, <1>4, Sizes, UniqueDiv
<1> QED
  BY <1>1, <1>5 DEF Ceil

LEMMA CeilNone == Ceil(0) = 0
BY Sizes, UniqueDiv DEF Ceil

(* A chunk more *)
LEMMA CeilStep ==
  ASSUME NEW x \in Int, Whole(x), NEW r \in 1 .. Spin
  PROVE  Ceil(x + r) = Ceil(x) + 1 /\ Ceil(x) \in Int
<1>1. PICK q \in Int : x % Spin = x - Spin * q
  BY Sizes, DivMod
<1>2. x = Spin * q
  <2>1. PICK w \in Int : w = Spin * q
    BY Sizes
  <2>2. 0 = x - w
    BY <1>1, <2>1 DEF Whole
  <2> QED
    BY <2>1, <2>2
<1>3. Ceil(x + r) = q + 1
  BY <1>2, CeilOf
<1>4. Ceil(x) = q
  <2>1. Spin \in 1 .. Spin /\ q - 1 \in Int
    BY Sizes
  <2>2. Ceil(Spin * (q - 1) + Spin) = (q - 1) + 1
    BY <2>1, CeilOf
  <2>3. Spin * (q - 1) + Spin = x
    BY <2>1, Sizes, Distributes, <1>2
  <2> QED
    BY <2>2, <2>3
<1> QED
  BY <1>3, <1>4

(* Going down the last word of a segment is where it begins: that makes no *)
(* chunk less.                                                             *)
LEMMA CeilDown ==
  ASSUME NEW x \in Nat \ {0}, x % Width = 0
  PROVE  Ceil(x - 1) = Ceil(x)
<1>1. PICK q \in Int, m \in 0 .. Spin - 1 : m = (x - 1) - Spin * q
  <2>1. PICK y \in Int : y = x - 1
    OBVIOUS
  <2>2. y % Spin \in 0 .. Spin - 1 /\ y \div Spin \in Int /\ y % Spin = y - Spin * (y \div Spin)
    BY Sizes, DivMod
  <2> QED
    BY <2>1, <2>2
<1>2. PICK w \in Int : w = Spin * q
  BY Sizes
<1>3. x - 1 = w + m /\ x = w + (m + 1)
  BY <1>1, <1>2
<1>4. m # 0
  <2> SUFFICES ASSUME m = 0 PROVE FALSE
    OBVIOUS
  <2>1. x = w + 1
    BY <1>3
  <2>2. w % Width = 0
    <3>1. w % Spin = 0
      BY <1>2, Sizes, UniqueMod
    <3> QED
      BY <3>1, Sizes, ModOfDivisor
  <2>3. (w + 1) % Width = 1 % Width
    <3>1. 1 \in Int /\ w \in Int
      OBVIOUS
    <3> QED
      BY <2>2, <3>1, Sizes, ModOfMultiple
  <2>4. 1 % Width = 1
    BY Sizes, ModSmall
  <2> QED
    BY <2>1, <2>3, <2>4
<1>5. Ceil(w + m) = q + 1 /\ Ceil(w + (m + 1)) = q + 1
  <2>1. m \in 1 .. Spin /\ m + 1 \in 1 .. Spin
    BY <1>4, Sizes
  <2> QED
    BY <1>2, <2>1, CeilOf
<1> QED
  BY <1>3, <1>5

(* Neither does what block_move() leaves out.                              *)
LEMMA CeilBlocks ==
  ASSUME NEW t \in Trials, NEW i \in 1 .. Len(t.map), t.pat = 7
  PROVE  Ceil(t.map[i].end - FirstOf(t, i)) = Ceil(t.map[i].end - t.map[i].start)
<1>1. DOMAIN t.map = 1 .. Len(t.map)
  BY Segments
<1>2. BlocksAssumption(t.map[i])
  BY <1>1, TrialsAssumption
<1>3. PICK s \in Nat, e \in Nat, f \in Nat :
        s = t.map[i].start /\ e = t.map[i].end /\ f = FirstOf(t, i) /\ s <= f /\ f < e
  BY SegmentOrder, FirstHere
<1>4. f - s < Spin /\ ((e - s) % Spin = 0 \/ f - s < (e - s) % Spin)
  BY <1>2, <1>3 DEF BlocksAssumption, FirstOf
<1>5. PICK x \in Nat \ {0}, d \in Nat : x = e - s /\ d = f - s /\ e - f = x - d
  <2>0. s <= f /\ f < e
    BY <1>3
  <2>1. e - s \in Nat \ {0} /\ f - s \in Nat /\ e - f = (e - s) - (f - s)
    BY <2>0, SMT
  <2> QED
    BY <2>1
<1>6. PICK q \in Int, m \in 0 .. Spin - 1 : m = x - Spin * q /\ m = x % Spin
  <2>1. x \in Int
    OBVIOUS
  <2>2. x % Spin \in 0 .. Spin - 1 /\ x \div Spin \in Int /\ x % Spin = x - Spin * (x \div Spin)
    BY <2>1, Sizes, DivMod
  <2> QED
    BY <2>2
<1>7. PICK w \in Int : w = Spin * q
  BY Sizes
<1>8. x = w + m
  BY <1>6, <1>7
<1>9. CASE m = 0
  <2>1. Spin * (q - 1) + Spin = w /\ Spin * (q - 1) \in Int /\ q - 1 \in Int
    BY Sizes, Distributes, <1>7
  <2>2. PICK v \in Int : v = Spin * (q - 1) /\ v + Spin = w
    BY <2>1
  <2>3. Spin \in 1 .. Spin /\ Spin - d \in 1 .. Spin
    BY <1>4, <1>5, Sizes
  <2>4. Ceil(v + Spin) = q /\ Ceil(v + (Spin - d)) = q
    <3>1. PICK y \in 1 .. Spin : y = Spin - d
      BY <2>3
    <3>2. Ceil(v + Spin) = (q - 1) + 1 /\ Ceil(v + y) = (q - 1) + 1
      BY <2>1, <2>2, <2>3, CeilOf
    <3> QED
      BY <3>1, <3>2
  <2>5. x = v + Spin /\ x - d = v + (Spin - d)
    BY <1>8, <1>9, <2>2, Sizes
  <2> QED
    BY <1>3, <1>5, <2>4, <2>5
<1>10. CASE m # 0
  <2>1. d < m
    BY <1>4, <1>5, <1>6, <1>10
  <2>2. m \in 1 .. Spin /\ m - d \in 1 .. Spin
    BY <1>10, <2>1, Sizes
  <2>3. Ceil(w + m) = q + 1 /\ Ceil(w + (m - d)) = q + 1
    BY <1>7, <2>2, CeilOf
  <2>4. x - d = w + (m - d)
    BY <1>8
  <2> QED
    BY <1>3, <1>5, <1>8, <2>3, <2>4
<1> QED
  BY <1>9, <1>10

(* The recursive function exists and is what its equations say.            *)
Adds(g, t, n) ==
  g = [i \in 1 .. n |-> IF i = 1 THEN 0 ELSE g[i - 1] + ChunksOf(t.map[i - 1])]

LEMMA ChunksTyped ==
  ASSUME NEW t \in Trials, NEW i \in 1 .. Len(t.map)
  PROVE  ChunksOf(t.map[i]) = Ceil(t.map[i].end - t.map[i].start) /\ ChunksOf(t.map[i]) \in Int
<1>1. PICK x \in Int : x = t.map[i].end - t.map[i].start + Spin - 1
  <2>1. t.map[i].end - t.map[i].start \in Int /\ Spin \in Int
    BY SegmentOrder, Sizes
  <2> QED
    BY <2>1
<1>2. x \div Spin \in Int
  BY Sizes, DivMod
<1> QED
  BY <1>1, <1>2 DEF ChunksOf, Ceil

LEMMA AddsExists ==
  ASSUME NEW t \in Trials
  PROVE  \E g : Adds(g, t, Len(t.map) + 1)
<1> DEFINE N == Len(t.map)
           S == {n \in Nat : n <= N => \E g : Adds(g, t, n + 1)}
<1>1. 0 \in S
  <2> DEFINE g == [i \in 1 .. 1 |-> 0]
  <2>1. Adds(g, t, 1)
    BY DEF Adds
  <2>2. 0 + 1 = 1
    OBVIOUS
  <2> QED
    BY <2>1, <2>2
<1>2. ASSUME NEW n \in S
      PROVE  n + 1 \in S
  <2>1. n \in Nat /\ (n <= N => \E g : Adds(g, t, n + 1))
    OBVIOUS
  <2> SUFFICES ASSUME n + 1 <= N
               PROVE  \E g : Adds(g, t, (n + 1) + 1)
    BY <2>1
  <2>2. N \in Nat
    BY Segments
  <2>3. PICK h : Adds(h, t, n + 1)
    BY <2>1, <2>2
  <2> DEFINE m == n + 2
             g == [i \in 1 .. m |-> IF i = m THEN h[n + 1] + ChunksOf(t.map[n + 1]) ELSE h[i]]
  <2>4. \A i \in 1 .. n + 1 : h[i] = IF i = 1 THEN 0 ELSE h[i - 1] + ChunksOf(t.map[i - 1])
    BY <2>3 DEF Adds
  <2>5. ASSUME NEW i \in 1 .. m
        PROVE  g[i] = IF i = 1 THEN 0 ELSE g[i - 1] + ChunksOf(t.map[i - 1])
    <3>1. CASE i = m
      <4>1. i # 1 /\ i - 1 = n + 1 /\ n + 1 \in 1 .. m /\ n + 1 # m
        BY <2>1, <3>1
      <4>2. g[n + 1] = h[n + 1]
        BY <4>1
      <4>3. g[i] = h[n + 1] + ChunksOf(t.map[n + 1])
        BY <3>1
      <4> HIDE DEF g, m
      <4> QED
        BY <4>1, <4>2, <4>3
    <3>2. CASE i # m
      <4>1. i \in 1 .. n + 1 /\ g[i] = h[i]
        BY <2>1, <3>2
      <4>2. i # 1 => i - 1 \in 1 .. m /\ i - 1 # m /\ g[i - 1] = h[i - 1]
        BY <2>1, <4>1
      <4> HIDE DEF g, m
      <4> QED
        BY <2>4, <4>1, <4>2
    <3> QED
      BY <3>1, <3>2
  <2>6. Adds(g, t, m)
    <3>1. g = [i \in 1 .. m |-> g[i]]
      OBVIOUS
    <3> HIDE DEF g, m
    <3> QED
      BY <2>5, <3>1 DEF Adds
  <2>7. m = (n + 1) + 1
    BY <2>1
  <2> HIDE DEF g, m
  <2> QED
    BY <2>6, <2>7
<1>3. S = Nat
  <2>1. S \in SUBSET Nat
    OBVIOUS
  <2> HIDE DEF S
  <2> QED
    BY <1>1, <1>2, <2>1, Inductive
<1>4. N \in Nat /\ N <= N
  BY Segments
<1> HIDE DEF N
<1> QED
  BY <1>3, <1>4 DEF N

LEMMA ChunksBeforeIs ==
  ASSUME NEW t \in Trials
  PROVE  /\ ChunksBefore(t)[1] = 0
         /\ \A i \in 1 .. Len(t.map) :
              ChunksBefore(t)[i + 1] = ChunksBefore(t)[i] + ChunksOf(t.map[i])
<1> DEFINE f == CHOOSE g : Adds(g, t, Len(t.map) + 1)
<1>1. Adds(f, t, Len(t.map) + 1)
  BY AddsExists
<1>2. ChunksBefore(t) = f
  BY DEF ChunksBefore, Adds
<1> HIDE DEF f
<1>3. Len(t.map) \in Nat \ {0}
  BY Segments
<1>4. \A i \in 1 .. Len(t.map) + 1 : f[i] = IF i = 1 THEN 0 ELSE f[i - 1] + ChunksOf(t.map[i - 1])
  BY <1>1 DEF Adds
<1>5. 1 \in 1 .. Len(t.map) + 1
  BY <1>3
<1>6. f[1] = 0
  BY <1>4, <1>5
<1>7. ASSUME NEW i \in 1 .. Len(t.map)
      PROVE  f[i + 1] = f[i] + ChunksOf(t.map[i])
  <2>1. i + 1 \in 1 .. Len(t.map) + 1 /\ i + 1 # 1 /\ (i + 1) - 1 = i
    BY <1>3
  <2> QED
    BY <1>4, <2>1
<1> QED
  BY <1>2, <1>6, <1>7

LEMMA ChunksBeforeTyped ==
  ASSUME NEW t \in Trials, NEW i \in 1 .. Len(t.map) + 1
  PROVE  ChunksBefore(t)[i] \in Int
<1> DEFINE S == {n \in Nat : n <= Len(t.map) => ChunksBefore(t)[n + 1] \in Int}
<1>1. Len(t.map) \in Nat
  BY Segments
<1>2. 0 \in S
  BY ChunksBeforeIs
<1>3. ASSUME NEW n \in S
      PROVE  n + 1 \in S
  <2>1. n \in Nat /\ (n <= Len(t.map) => ChunksBefore(t)[n + 1] \in Int)
    OBVIOUS
  <2>2. ASSUME n + 1 <= Len(t.map)
        PROVE  ChunksBefore(t)[(n + 1) + 1] \in Int
    BY <1>1, <2>1, <2>2, ChunksBeforeIs, ChunksTyped
  <2> QED
    BY <2>1, <2>2
<1>4. S = Nat
  <2>1. S \in SUBSET Nat
    OBVIOUS
  <2> HIDE DEF S
  <2> QED
    BY <1>2, <1>3, <2>1, Inductive
<1>5. i - 1 \in Nat /\ i - 1 <= Len(t.map) /\ (i - 1) + 1 = i
  BY <1>1
<1>6. i - 1 \in S
  BY <1>4, <1>5
<1> QED
  BY <1>5, <1>6

-----------------------------------------------------------------------------
(* The ticks of a test *)
LEMMA ExactNow ==
  ASSUME IInv, trial.pat \in Exact
  PROVE  /\ Shape /\ trial \in Trials /\ segs = Len(trial.map) /\ trial.iter \in Nat
         /\ call.fn \in Fns \ {"addr_tst1", "bit_fade"}
         /\ (call.fn = "block_move" <=> trial.pat = 7) /\ (IsMarch <=> trial.pat # 7)
         /\ Looping => loop \notin {"sleep", "line", "bank"}
         /\ Looping /\ loop = "move" => trial.pat = 7
<1>1. Shape /\ trial \in Trials /\ segs = Len(trial.map)
  BY DEF IInv, Shape, segs
<1>2. trial.iter \in Nat
  BY <1>1, TrialsAssumption
<1>3. call.fn \in Fns /\ call.fn = Fn(trial.pat)
  BY <1>1, CallNow
<1>4. /\ Fn(trial.pat) \notin {"addr_tst1", "bit_fade"}
      /\ (Fn(trial.pat) = "block_move" <=> trial.pat = 7)
  <2>1. \A pt \in Exact : Fn(pt) \notin {"addr_tst1", "bit_fade"}
    BY DEF Exact, Fn
  <2> QED
    BY <1>1, <2>1, FnIn
<1>5. IsMarch <=> trial.pat # 7
  BY DEF IsMarch, Exact
<1>6. Looping => loop \in LoopTable(call.fn)
  BY <1>1, LoopNow
<1>7. \A fn \in Fns \ {"addr_tst1", "bit_fade"} :
        /\ {"sleep", "line", "bank"} \cap LoopTable(fn) = {}
        /\ "move" \in LoopTable(fn) => fn = "block_move"
  BY DEF Fns, LoopTable
<1> QED
  BY <1>1, <1>2, <1>3, <1>4, <1>5, <1>6, <1>7

LEMMA ChunksNow ==
  ASSUME IInv, trial.pat \in Exact
  PROVE  /\ Chunks = ChunksBefore(trial)[segs + 1] /\ Chunks \in Int
         /\ ChunksBefore(trial)[j] \in Int /\ ChunksBefore(trial)[j + 1] \in Int
         /\ ChunksBefore(trial)[j + 1] = ChunksBefore(trial)[j] + ChunksOf(trial.map[j])
         /\ ChunksBefore(trial)[1] = 0
<1>1. trial \in Trials /\ segs = Len(trial.map) /\ segs \in Nat /\ j \in 1 .. segs
  BY ExactNow, Here
<1>2. j \in 1 .. segs + 1 /\ j + 1 \in 1 .. segs + 1 /\ segs + 1 \in 1 .. segs + 1
  BY <1>1
<1> QED
  BY <1>1, <1>2, ChunksBeforeIs, ChunksBeforeTyped DEF Chunks

(* What the loops before this one have ticked                               *)
LEMMA TurnsTyped ==
  ASSUME IInv, MInv, TInv, trial.pat \in Exact
  PROVE  Turns \in Int /\ Weight \in Nat /\ Turns * Chunks \in Int
<1>1. Shape /\ trial \in Trials /\ trial.iter \in Nat /\ (IsMarch <=> trial.pat # 7)
  BY ExactNow
<1>2. Weight \in Nat
  BY <1>1 DEF Weight
<1>3. Turns \in Int
  <2>1. CASE IsMarch
    <3>1. trial.pat \notin {5, 7, 8} /\ SweepIs
      BY <2>1 DEF IsMarch, MInv, Books
    <3>2. Len(Calls(trial)) \in Nat /\ PerCall(trial) \in Nat
      BY <1>1, <3>1, CallsPlanned
    <3>3. Len(calls) \in Nat /\ Len(loops) \in Nat
      BY <1>1 DEF Shape, LoopsOf
    <3>4. Finished \in Int
      BY <3>2, <3>3 DEF Finished
    <3>5. PICK x \in Int : x = Finished * PerCall(trial)
      BY <3>2, <3>4
    <3>6. sweep \in Int
      BY <3>1, <3>2, <3>3, <3>5 DEF SweepIs
    <3> QED
      BY <2>1, <3>6 DEF Turns
  <2>2. CASE ~IsMarch
    BY <1>1, <2>2 DEF Turns
  <2> QED
    BY <2>1, <2>2
<1> QED
  BY <1>2, <1>3, ChunksNow

(* Where a test is within a segment, the ticks of the segment are integers. *)
LEMMA ChunksToTyped ==
  ASSUME IInv, trial.pat \in Exact, NEW q \in Int
  PROVE  ChunksTo(q) \in Int
<1>1. Shape
  BY ExactNow
<1>2. end \in Nat /\ SegmentStart \in Nat
  BY <1>1, Here, StartHere
<1>3. PICK x \in Int, y \in Int : x = end - 1 - q + Spin - 1 /\ y = q - SegmentStart + Spin - 1
  BY <1>2, Sizes
<1>4. x \div Spin \in Int /\ y \div Spin \in Int
  BY Sizes, DivMod
<1> QED
  BY <1>3, <1>4 DEF ChunksTo, Ceil

LEMMA PassedTyped ==
  ASSUME IInv, TInv, trial.pat \in Exact
  PROVE  Passed \in Int /\ Moves \in Int /\ Weight * Passed \in Int
<1>1. pe \in Int /\ k \in Int /\ trial.iter \in Nat
  BY ExactNow DEF Shape
<1>2. ChunksTo(pe) \in Int
  BY <1>1, ChunksToTyped
<1>3. Within \in Int
  BY <1>2 DEF Within
<1>4. Behind \in Int
  BY ChunksNow DEF Behind
<1>5. Passed \in Int
  BY <1>3, <1>4, ChunksNow DEF Passed
<1>6. Weight \in Int
  BY <1>1 DEF Weight
<1> QED
  BY <1>1, <1>5, <1>6 DEF Moves

(* A step within a loop: the counter goes on by what the loop adds.        *)
LEMMA WithinTicks ==
  ASSUME IInv, MInv, TInv, trial.pat \in Exact, Looping, Looping',
         UNCHANGED <<trial, calls, loops, sweep>>,
         Inside', Moving', nticks' \in Int,
         \E n \in Int : /\ nticks' = nticks + n
                        /\ (Weight * Passed + Moves)' = (Weight * Passed + Moves) + n
  PROVE  TInv'
<1>1. Turns' = Turns /\ Chunks' = Chunks /\ call' = call
  BY SameTrial, SameLoop DEF Turns, Chunks
<1>2. PICK x \in Int : x = Turns * Chunks
  BY TurnsTyped
<1>3. PICK y \in Int : y = Weight * Passed + Moves
  BY PassedTyped
<1>4. nticks = x + y
  BY <1>2, <1>3 DEF TInv, Ticked
<1>5. PICK n \in Int : nticks' = nticks + n /\ (Weight * Passed + Moves)' = y + n
  BY <1>3
<1>6. nticks' = x + (y + n)
  BY <1>4, <1>5
<1>7. Ticked'
  BY <1>1, <1>2, <1>5, <1>6 DEF Ticked, Looping
<1>8. OneCallOnly'
  BY <1>1 DEF TInv, OneCallOnly, Looping
<1> QED
  BY <1>7, <1>8 DEF TInv

-----------------------------------------------------------------------------
(* Steps of a loop, and what they add to the chunks that are behind it      *)

(* Where a chunk begins                                                     *)
LEMMA ChunkBegins ==
  ASSUME IInv, pc = "chunk", trial.pat \in Exact
  PROVE  /\ IF Down THEN start < pe ELSE pe < end
         /\ Shape /\ Looping /\ call.fn # "bit_fade"
BY ExactNow, Kinds
DEF IInv, Places, AddrPlace, Looping, BlockPlace, ModPlace, DownPlace, UpPlace

(* Where one ends                                                           *)
LEMMA ChunkEnds ==
  ASSUME IInv, pc = "tick", trial.pat \in Exact
  PROVE  done = (IF Down THEN pe = start ELSE pe = end)
BY ExactNow, Kinds
DEF IInv, Places, AddrPlace, Looping, BlockPlace, ModPlace, DownPlace, UpPlace

(* A chunk is one more                                                      *)
LEMMA ChunkTicks ==
  ASSUME IInv, pc = "chunk", trial.pat \in Exact, Placed(pe)
  PROVE  /\ ChunkEnd \in Int /\ Placed(ChunkEnd)
         /\ ChunksTo(ChunkEnd) = ChunksTo(pe) + 1 /\ ChunksTo(pe) \in Int
<1>1. /\ IF Down THEN start < pe ELSE pe < end
      /\ Shape /\ Looping /\ call.fn # "bit_fade"
  BY ChunkBegins
<1>2. pe \in Int /\ start \in Int /\ end \in Int /\ SegmentStart \in Int
  BY <1>1, Here, StartHere DEF Shape
<1>3. CASE Down
  <2>1. ChunkEnd = IF start < pe - Spin THEN pe - Spin ELSE start
    BY <1>1, <1>3, ChunkDown
  <2>2. PICK r \in 1 .. Spin : ChunkEnd = pe - r /\ (r = Spin \/ ChunkEnd = start)
    <3>1. CASE start < pe - Spin
      BY <1>2, <2>1, <3>1, Sizes
    <3>2. CASE ~(start < pe - Spin)
      BY <1>1, <1>2, <1>3, <3>2, Sizes, <2>1
    <3> QED
      BY <3>1, <3>2
  <2>3. PICK x \in Int : x = end - 1 - pe
    BY <1>2
  <2>4. Whole(x)
    BY <1>1, <1>2, <1>3, <2>3 DEF Placed
  <2>5. end - 1 - ChunkEnd = x + r /\ ChunkEnd \in Int
    BY <1>2, <2>2, <2>3
  <2>6. Ceil(x + r) = Ceil(x) + 1 /\ Ceil(x) \in Int
    BY <2>4, CeilStep
  <2>7. ChunksTo(ChunkEnd) = ChunksTo(pe) + 1 /\ ChunksTo(pe) \in Int
    BY <1>3, <2>3, <2>5, <2>6 DEF ChunksTo
  <2>8. r = Spin => Whole(x + r)
    <3>1. Spin \in Int /\ Spin % Spin = 0 /\ Spin \in Nat \ {0}
      BY Sizes, ModOfModulus
    <3>2. (Spin + x) % Spin = x % Spin
      BY <3>1, ModOfMultiple
    <3>3. Spin + x = x + Spin
      BY <3>1
    <3> QED
      BY <2>4, <3>2, <3>3 DEF Whole
  <2> QED
    BY <1>3, <2>2, <2>5, <2>7, <2>8 DEF Placed
<1>4. CASE ~Down
  <2>1. ChunkEnd = IF pe + Spin < end THEN pe + Spin ELSE end
    BY <1>1, <1>4, ChunkUp
  <2>2. PICK r \in 1 .. Spin : ChunkEnd = pe + r /\ (r = Spin \/ ChunkEnd = end)
    <3>1. CASE pe + Spin < end
      BY <1>2, <2>1, <3>1, Sizes
    <3>2. CASE ~(pe + Spin < end)
      BY <1>1, <1>2, <1>4, <3>2, Sizes, <2>1
    <3> QED
      BY <3>1, <3>2
  <2>3. PICK x \in Int : x = pe - SegmentStart
    BY <1>2
  <2>4. Whole(x)
    BY <1>1, <1>2, <1>4, <2>3 DEF Placed
  <2>5. ChunkEnd - SegmentStart = x + r /\ ChunkEnd \in Int
    BY <1>2, <2>2, <2>3
  <2>6. Ceil(x + r) = Ceil(x) + 1 /\ Ceil(x) \in Int
    BY <2>4, CeilStep
  <2>7. ChunksTo(ChunkEnd) = ChunksTo(pe) + 1 /\ ChunksTo(pe) \in Int
    BY <1>4, <2>3, <2>5, <2>6 DEF ChunksTo
  <2>8. r = Spin => Whole(x + r)
    <3>1. Spin \in Int /\ Spin % Spin = 0 /\ Spin \in Nat \ {0}
      BY Sizes, ModOfModulus
    <3>2. (Spin + x) % Spin = x % Spin
      BY <3>1, ModOfMultiple
    <3>3. Spin + x = x + Spin
      BY <3>1
    <3> QED
      BY <2>4, <3>2, <3>3 DEF Whole
  <2> QED
    BY <1>4, <2>2, <2>5, <2>7, <2>8 DEF Placed
<1> QED
  BY <1>3, <1>4

(* At the end of a segment all of its chunks have been.                     *)
LEMMA SegmentTicks ==
  ASSUME IInv, pc = "tick", done, trial.pat \in Exact
  PROVE  ChunksTo(pe) = ChunksOf(trial.map[j])
<1>1. Shape /\ trial \in Trials /\ segs = Len(trial.map)
      /\ (call.fn = "block_move" <=> trial.pat = 7)
  BY ExactNow
<1>2. IF Down THEN pe = start ELSE pe = end
  BY ChunkEnds
<1>3. /\ j \in 1 .. Len(trial.map) /\ start \in Nat /\ end \in Nat /\ start < end
      /\ (end - start) % Width = 0
  BY <1>1, Here, Sizes
<1>4. ChunksOf(trial.map[j]) = Ceil(end - start)
  BY <1>1, <1>3, ChunksTyped DEF start, end
<1>5. CASE Down
  <2>1. PICK x \in Nat \ {0} : x = end - start /\ end - 1 - start = x - 1
    BY <1>3
  <2>2. x % Width = 0
    BY <1>3, <2>1
  <2>3. Ceil(x - 1) = Ceil(x)
    BY <2>2, CeilDown
  <2> QED
    BY <1>2, <1>4, <1>5, <2>1, <2>3 DEF ChunksTo
<1>6. CASE ~Down /\ trial.pat # 7
  BY <1>1, <1>6, StartHere, <1>2, <1>4 DEF ChunksTo
<1>7. CASE ~Down /\ trial.pat = 7
  BY <1>1, <1>7, StartHere, <1>3, CeilBlocks, <1>2, <1>4 DEF start, end, ChunksTo
<1> QED
  BY <1>5, <1>6, <1>7

LEMMA NotExact ==
  ASSUME trial' = trial, trial.pat \notin Exact
  PROVE  TInv'
BY DEF TInv

(* A test that is stopped                                                   *)
LEMMA StoppedTicks ==
  ASSUME TInv, pc' = "done", bail', UNCHANGED <<trial, calls, loops>>
  PROVE  TInv'
BY SameLoop DEF TInv, Ticked, Inside, Moving, OneCallOnly, Looping

LEMMA SameChunks ==
  ASSUME UNCHANGED <<trial, calls, loops, j>>
  PROVE  /\ Behind' = Behind /\ Chunks' = Chunks /\ Weight' = Weight
         /\ ChunksTo(pe)' = ChunksTo(pe') /\ (Placed(pe)' <=> Placed(pe'))
BY SameLoop, SameSegment DEF Behind, Chunks, Weight, ChunksTo, Placed

LEMMA TicksTyped ==
  ASSUME IInv, MInv, TInv, trial.pat \in Exact, Looping
  PROVE  nticks \in Int
<1>1. PICK x \in Int, y \in Int : x = Turns * Chunks /\ y = Weight * Passed + Moves
  BY TurnsTyped, PassedTyped
<1> QED
  BY <1>1 DEF TInv, Ticked

LEMMA EnterTicks ==
  ASSUME IInv, MInv, TInv, EnterSegment
  PROVE  TInv'
<1>1. /\ pc = "segment" /\ pc' = "chunk" /\ UNCHANGED <<trial, calls, loops, j, sweep, nticks>>
      /\ pe' = (IF Down THEN (end - 1) % Space ELSE SegmentStart)
      /\ Registers
  BY DEF EnterSegment, history
<1>2. CASE trial.pat \in Exact
  <2>1. Shape /\ Looping /\ Looping' /\ trial.iter \in Nat
    BY <1>1, <1>2, ExactNow DEF Looping
  <2>2. /\ end \in Nat /\ SegmentStart \in Nat
        /\ end - 1 \in 0 .. Space - 1 /\ end - 1 \in Int
    BY <2>1, Here, StartHere, Sizes
  <2>3. pe' = IF Down THEN end - 1 ELSE SegmentStart
    BY <2>2, Sizes, ModSmall, <1>1
  <2>4. end - 1 - (end - 1) = 0 /\ SegmentStart - SegmentStart = 0
    BY <2>2
  <2>5. ChunksTo(pe') = 0
    BY <2>3, <2>4, CeilNone DEF ChunksTo
  <2>6. Placed(pe')
    BY Sizes, ModSmall, <2>3, <2>4 DEF Placed, Whole
  <2>7. loop' = loop /\ call' = call /\ (Down' <=> Down)
    BY <1>1, SameLoop
  <2>8. loop = "move" => k' = 0
    BY <1>2, <2>1, ExactNow, <1>1 DEF Down, Registers
  <2>9. Inside' /\ Moving'
    BY <1>1, <2>6, <2>7, <2>8, SameChunks DEF Inside, Moving
  <2>10. Passed' = Passed /\ Moves' = Moves /\ Weight' = Weight
    BY <1>1, <2>5, SameChunks, <2>7 DEF Within, Passed, Moves
  <2>11. (Weight * Passed + Moves)' = (Weight * Passed + Moves) + 0
    BY <1>2, <2>10, PassedTyped
  <2>12. nticks' \in Int /\ nticks' = nticks + 0
    BY <1>1, <1>2, <2>1, TicksTyped
  <2> QED
    BY <1>1, <1>2, <2>1, <2>9, <2>11, <2>12, WithinTicks
<1> QED
  BY <1>1, <1>2, NotExact

LEMMA NextChunkTicks ==
  ASSUME IInv, MInv, TInv, NextChunk
  PROVE  TInv'
<1>1. /\ pc = "chunk" /\ pe' = ChunkEnd /\ pc' = "word"
      /\ UNCHANGED <<trial, calls, loops, j, sweep, nticks, k>>
  BY SomethingToDo DEF NextChunk, history, registers
<1>2. CASE trial.pat \in Exact
  <2>1. Shape /\ Looping /\ Looping' /\ trial.iter \in Nat
    BY <1>1, <1>2, ExactNow DEF Looping
  <2>2. Placed(pe)
    BY <1>1, <1>2 DEF TInv, Inside
  <2>3. /\ Placed(pe') /\ ChunksTo(pe') = ChunksTo(pe) + 1 /\ ChunksTo(pe) \in Int
    BY <1>1, <1>2, <2>2, ChunkTicks
  <2>4. loop' = loop
    BY <1>1, SameLoop
  <2>5. loop = "move" => k = 0 /\ trial.pat = 7 /\ trial.iter > 0
    BY <1>1, <1>2, <2>1, ExactNow, TrialsAssumption DEF TInv, Moving
  <2>6. Inside' /\ Moving'
    BY <1>1, <2>1, <2>3, <2>4, <2>5, SameChunks DEF Inside, Moving
  <2>7. Passed' = Passed /\ Moves' = Moves /\ Weight' = Weight
    BY <1>1, <2>3, SameChunks, <2>4, <2>5 DEF Within, Passed, Moves
  <2>11. (Weight * Passed + Moves)' = (Weight * Passed + Moves) + 0
    BY <1>2, <2>7, PassedTyped
  <2>12. nticks' \in Int /\ nticks' = nticks + 0
    BY <1>1, <1>2, <2>1, TicksTyped
  <2> QED
    BY <1>1, <1>2, <2>1, <2>6, <2>11, <2>12, WithinTicks
<1> QED
  BY <1>1, <1>2, NotExact

(* Within a chunk nothing ticks.                                            *)
LEMMA WordTicks ==
  ASSUME IInv, MInv, TInv, pc = "word", pc' \in {"word", "tick"},
         IF loop = "move" THEN pc' = "tick" /\ k' = k + 1 ELSE TRUE,
         UNCHANGED <<trial, calls, loops, j, pe, sweep, nticks>>
  PROVE  TInv'
<1>2. CASE trial.pat \in Exact
  <2>1. Shape /\ Looping /\ Looping' /\ trial.iter \in Nat /\ k \in Nat
    BY <1>2, ExactNow DEF Looping, Shape
  <2>2. loop' = loop
    BY SameLoop
  <2>3. Inside'
    BY <1>2, SameChunks DEF TInv, Inside
  <2>4. Moving'
    BY <1>2, <2>1, <2>2 DEF TInv, Moving
  <2>5. Passed' = Passed /\ Weight' = Weight
    BY SameChunks DEF Within, Passed
  <2>6. Moves' = Moves
    BY <2>1, <2>2 DEF Moves
  <2>11. (Weight * Passed + Moves)' = (Weight * Passed + Moves) + 0
    BY <1>2, <2>5, <2>6, PassedTyped
  <2>12. nticks' \in Int /\ nticks' = nticks + 0
    BY <1>2, <2>1, TicksTyped
  <2> QED
    BY <1>2, <2>1, <2>3, <2>4, <2>11, <2>12, WithinTicks
<1> QED
  BY <1>2, NotExact

(* After a chunk, or the last one of a segment, there is one more behind.   *)
LEMMA ChunkBehind ==
  ASSUME IInv, TInv, trial.pat \in Exact, pc = "tick",
         UNCHANGED <<trial, calls, loops, pe>>,
         IF done THEN NextSegment ELSE pc' = "chunk" /\ UNCHANGED j
  PROVE  Passed' = Passed + 1 /\ Passed \in Int /\ Inside' /\ Looping'
<1>1. /\ Passed = Behind + (ChunksTo(pe) - 1)
      /\ Behind \in Int /\ ChunksTo(pe) \in Int /\ Passed \in Int
  <2>1. pe \in Int
    BY ExactNow DEF Shape
  <2>2. Behind \in Int
    BY ChunksNow DEF Behind
  <2> QED
    BY <2>1, <2>2, ChunksToTyped, PassedTyped DEF Passed, Within
<1>2. CASE ~done
  BY <1>2, SameChunks, <1>1 DEF Within, Passed, TInv, Inside, Looping
<1>3. CASE done
  <2>0. /\ Shape /\ trial \in Trials /\ segs = Len(trial.map) /\ j \in 1 .. segs /\ segs \in Nat
    BY ExactNow, Here
  <2>1. ChunksTo(pe) = ChunksOf(trial.map[j])
    BY <1>3, SegmentTicks
  <2> DEFINE B == ChunksBefore(trial)
  <2>2. /\ Chunks \in Int /\ B[j] \in Int /\ B[j + 1] \in Int
        /\ B[j + 1] = B[j] + ChunksOf(trial.map[j]) /\ B[1] = 0 /\ Chunks = B[segs + 1]
    BY ChunksNow
  <2>3. (Down' <=> Down) /\ Chunks' = Chunks /\ B' = B
    BY SameLoop DEF Chunks
  <2>4. NextSegment
    BY <1>3
  <2> HIDE DEF B
  <2>5. CASE j = (IF Down THEN 1 ELSE segs)
    <3>1. pc' = "over"
      BY <2>4, <2>5 DEF NextSegment
    <3>2. Passed' = Chunks
      BY <2>3, <3>1 DEF Passed
    <3>3. Behind + ChunksTo(pe) = Chunks
      BY <2>5, <1>1, <2>1, <2>2 DEF Behind, B
    <3>4. Inside' /\ Looping'
      BY <3>1 DEF Inside, Looping
    <3> QED
      BY <1>1, <3>2, <3>3, <3>4
  <2>6. CASE j # (IF Down THEN 1 ELSE segs)
    <3>1. pc' = "segment" /\ j' = (IF Down THEN j - 1 ELSE j + 1)
      BY <2>4, <2>6 DEF NextSegment
    <3>2. Passed' = Behind' + 0
      BY <3>1 DEF Passed, Within
    <3>3. Behind' = Behind + ChunksTo(pe)
      <4>1. CASE Down
        <5>1. Behind = Chunks - B[j + 1] /\ Behind' = Chunks - B[(j - 1) + 1]
          BY <2>3, <3>1, <4>1 DEF Behind, B
        <5>2. (j - 1) + 1 = j
          BY <2>0
        <5> QED
          BY <1>1, <2>1, <2>2, <5>1, <5>2
      <4>2. CASE ~Down
        BY <2>3, <3>1, <4>2, <2>1, <2>2 DEF Behind, B
      <4> QED
        BY <4>1, <4>2
    <3>4. Inside' /\ Looping'
      BY <3>1 DEF Inside, Looping
    <3> QED
      BY <1>1, <3>2, <3>3, <3>4
  <2> QED
    BY <2>5, <2>6
<1> QED
  BY <1>2, <1>3

LEMMA TickChunkTicks ==
  ASSUME IInv, MInv, TInv, TickChunk
  PROVE  TInv'
<1>1. /\ pc = "tick" /\ loop # "move" /\ nticks' = nticks + 1
      /\ UNCHANGED <<trial, calls, loops, sweep, k>>
      /\ IF bail' THEN pc' = "done" /\ UNCHANGED pointers
         ELSE /\ IF done THEN NextSegment
                 ELSE pc' = "chunk" /\ UNCHANGED j
              /\ UNCHANGED <<p, pe, done>>
  BY DEF TickChunk, Tick, history, registers
<1>2. CASE bail'
  BY <1>1, <1>2, StoppedTicks
<1>3. CASE ~bail' /\ trial.pat \in Exact
  BY <1>1, SameLoop, <1>3, ChunkBehind, TicksTyped, WithinTicks
  DEF Looping, Moving, Weight, Moves
<1> QED
  BY <1>1, <1>2, <1>3, NotExact

LEMMA TickMoveTicks ==
  ASSUME IInv, MInv, TInv, TickMove
  PROVE  TInv'
<1>1. /\ pc = "tick" /\ loop = "move" /\ nticks' = nticks + 1
      /\ UNCHANGED <<trial, calls, loops, sweep>>
      /\ bail' => pc' = "done"
  BY DEF TickMove, Tick, history
<1>2. CASE bail'
  BY <1>1, <1>2, StoppedTicks
<1>3. CASE ~bail' /\ trial.pat \in Exact
  <2>1. Looping /\ loop' = loop
    BY <1>1, SameLoop DEF Looping
  <2>2. call.iter = trial.iter /\ trial.iter \in Nat
    BY <1>1, <1>3, <2>1, ExactNow DEF TInv, OneCallOnly, Calls, call
  <2>3. k \in 1 .. trial.iter
    BY <1>1, <1>3, <2>1 DEF TInv, Moving
  <2>4. Passed \in Int /\ Weight = trial.iter /\ Weight' = trial.iter /\ Moves = k - 1
    BY <1>1, <1>3, <2>1, PassedTyped DEF Weight, Moves
  <2>5. CASE k < trial.iter
    <3>1. pc' = "word" /\ UNCHANGED pointers /\ k' = k
      BY <1>3, <2>2, <2>5 DEF TickMove, Tick
    <3>2. UNCHANGED <<j, pe>>
      BY <3>1 DEF pointers
    <3>3. Passed' = Passed
      BY <1>1, <3>1, <3>2, SameChunks DEF Within, Passed
    <3>4. Inside' /\ Looping' /\ Moving'
      BY <1>1, <1>3, <2>1, <2>5, <3>1, <3>2, SameChunks DEF TInv, Inside, Looping, Moving
    <3>5. Moves' = (k - 1) + 1
      BY <1>1, <2>1, <2>3, <3>1 DEF Moves
    <3>6. PICK x \in Int : x = trial.iter * Passed
      BY <2>2, <2>4
    <3>7. (Weight * Passed + Moves)' = (Weight * Passed + Moves) + 1
      BY <1>1, <2>3, <2>4, <3>3, <3>5, <3>6
    <3>8. nticks' \in Int
      BY <1>1, <1>3, <2>1, TicksTyped
    <3> QED
      BY <1>1, <1>3, <2>1, <3>4, <3>7, <3>8, WithinTicks
  <2>6. CASE ~(k < trial.iter)
    <3>1. /\ k = trial.iter /\ k' = 0 /\ pe' = pe
          /\ IF done THEN NextSegment ELSE pc' = "chunk" /\ UNCHANGED j
      BY <1>3, <2>2, <2>3, <2>6 DEF TickMove, Tick
    <3>2. Passed' = Passed + 1 /\ Inside' /\ Looping'
      BY <1>1, <1>3, <3>1, ChunkBehind
    <3>3. pc' \in {"chunk", "segment", "over"}
      BY <3>1 DEF NextSegment
    <3>4. Moving' /\ Moves' = 0
      BY <3>1, <3>3 DEF Moving, Moves
    <3>5. /\ trial.iter * Passed \in Int
          /\ trial.iter * (Passed + 1) = trial.iter * Passed + trial.iter * 1
      BY <2>2, <2>4, Distributes
    <3>6. trial.iter * 1 = trial.iter
      BY <2>2
    <3>7. PICK x \in Int : x = trial.iter * Passed /\ trial.iter * (Passed + 1) = x + trial.iter
      BY <3>5, <3>6
    <3>8. (Weight * Passed + Moves)' = (Weight * Passed + Moves) + 1
      BY <1>1, <2>2, <2>4, <3>1, <3>2, <3>4, <3>7
    <3>9. nticks' \in Int
      BY <1>1, <1>3, <2>1, TicksTyped
    <3> QED
      BY <1>1, <1>3, <2>1, <3>2, <3>4, <3>8, <3>9, WithinTicks
  <2> QED
    BY <2>5, <2>6
<1> QED
  BY <1>1, <1>2, <1>3, NotExact

(* Before a segment there is nothing behind of it.                          *)
LEMMA NothingWithin ==
  ASSUME pc = "segment", trial.pat \in Exact, IInv, j = (IF Down THEN segs ELSE 1)
  PROVE  Passed = 0 /\ Moves = 0 /\ Inside /\ Moving
BY ChunksNow DEF Behind, Passed, Within, Moves, Inside, Moving

LEMMA NothingWithinNext ==
  (pc = "segment" /\ trial.pat \in Exact /\ IInv /\ j = (IF Down THEN segs ELSE 1))'
    => (Passed = 0 /\ Moves = 0 /\ Inside /\ Moving)'
BY NothingWithin, PTL

(* The loops of block_move(), which are left                                *)
LEMMA BlockLoops ==
  ASSUME NEW c, c.fn = "block_move", NEW E, NEW s \in Seq(E), Rest(s, Loops(c))
  PROVE  /\ Len(s) \in 0 .. 3
         /\ Len(s) = 3 => s[1] = "blocks"
         /\ Len(s) = 2 => s[1] = "move"
         /\ Len(s) = 1 => s[1] = "pairs"
<1>1. Loops(c) = <<"blocks", "move", "pairs">>
  BY DEF Loops
<1>2. Len(Loops(c)) = 3 /\ Loops(c)[1] = "blocks" /\ Loops(c)[2] = "move" /\ Loops(c)[3] = "pairs"
  BY <1>1
<1> DEFINE l == Loops(c)
<1>3. Len(s) <= 3 /\ \A m \in 1 .. Len(s) : s[m] = l[3 - Len(s) + m]
  BY <1>2 DEF Rest
<1>4. PICK n \in Nat : n = Len(s)
  OBVIOUS
<1>5. n <= 3 /\ \A m \in 1 .. n : s[m] = l[3 - n + m]
  BY <1>3, <1>4
<1>6. l[1] = "blocks" /\ l[2] = "move" /\ l[3] = "pairs"
  BY <1>2
<1> HIDE DEF l
<1>7. n = 3 => s[1] = l[1]
  BY <1>5
<1>8. n = 2 => s[1] = l[2]
  BY <1>5
<1>9. n = 1 => s[1] = l[3]
  BY <1>5
<1>10. n \in 0 .. 3
  BY <1>5
<1> QED
  BY <1>4, <1>6, <1>7, <1>8, <1>9, <1>10

(* A loop more: as many ticks for each chunk as it has                      *)
LEMMA MoreTurns ==
  ASSUME IInv, MInv, TInv, trial.pat \in Exact, LoopOver
  PROVE  /\ Turns' = Turns + Weight /\ Turns \in Int /\ Weight \in Int /\ Chunks \in Int
         /\ OneCallOnly'
<1>1. /\ pc = "over" /\ loops' = Tail(loops) /\ sweep' = sweep + 1
      /\ (pc' = "call") => Len(loops) = 1
      /\ UNCHANGED <<trial, calls>>
  BY DEF LoopOver
<1>2. /\ Looping /\ Shape /\ trial.iter \in Nat /\ (IsMarch <=> trial.pat # 7)
      /\ (loop = "move" => trial.pat = 7) /\ (call.fn = "block_move" <=> trial.pat = 7)
      /\ call' = call /\ (IsMarch' <=> IsMarch)
  BY <1>1, ExactNow, SameTrial DEF Looping, call
<1>3. Turns \in Int /\ Weight \in Nat /\ Chunks \in Int
  BY TurnsTyped, ChunksNow
<1>4. CASE trial.pat # 7
  <2>1. Weight = 1 /\ Turns = sweep - 1 /\ Turns' = (sweep + 1) - 1
    BY <1>1, <1>2, <1>4 DEF Turns, Weight
  <2>2. IsMarch /\ SweepIs
    BY <1>2, <1>4 DEF MInv, Books
  <2>3. sweep \in Int
    <3>1. PerCall(trial) \in Nat /\ Len(Calls(trial)) \in Nat
      BY <2>2, ExactNow, CallsPlanned DEF IsMarch
    <3>2. Len(calls) \in Nat /\ Len(loops) \in Nat
      BY <1>2 DEF Shape, LoopsOf
    <3>3. Finished \in Int
      BY <3>1, <3>2 DEF Finished
    <3>4. PICK x \in Int : x = Finished * PerCall(trial)
      BY <3>1, <3>3
    <3> QED
      BY <2>2, <3>1, <3>2, <3>4 DEF SweepIs
  <2>4. OneCallOnly'
    BY <1>1, <1>4 DEF OneCallOnly
  <2> QED
    BY <1>3, <2>1, <2>3, <2>4
<1>5. CASE trial.pat = 7
  <2>1. calls = Calls(trial) /\ Rest(loops, Loops(call))
    BY <1>5 DEF TInv, OneCallOnly
  <2>2. loops \in Seq(LoopNames(Fn(trial.pat))) /\ loops # <<>>
    BY <1>2 DEF Shape, LoopsOf
  <2>3. call.fn = "block_move" /\ Len(Loops(call)) = 3
    BY <1>2, <1>5 DEF Loops
  <2>4. /\ Rest(Tail(loops), Loops(call)) /\ Len(Tail(loops)) = Len(loops) - 1
        /\ Len(loops) \in Nat \ {0}
    BY <2>3, <2>1, <2>2, RestTail
  <2>5. /\ Len(loops) \in 1 .. 3
        /\ Len(loops) = 3 => loop = "blocks"
        /\ Len(loops) = 2 => loop = "move"
        /\ Len(loops) = 1 => loop = "pairs"
    BY <2>1, <2>2, <2>3, BlockLoops DEF loop
  <2>6. /\ Turns = CASE Len(loops) = 3 -> 0
                     [] Len(loops) = 2 -> 1
                     [] Len(loops) = 1 -> 1 + trial.iter
                     [] OTHER -> 2 + trial.iter
        /\ Turns' = CASE Len(loops) - 1 = 3 -> 0
                      [] Len(loops) - 1 = 2 -> 1
                      [] Len(loops) - 1 = 1 -> 1 + trial.iter
                      [] OTHER -> 2 + trial.iter
    BY <1>1, <1>2, <1>5, <2>4 DEF Turns
  <2>7. Turns' = Turns + Weight
    BY <2>5, <2>6, <1>2 DEF Weight
  <2>8. OneCallOnly'
    BY <1>1, <2>2, <2>4, <1>2, <2>1 DEF OneCallOnly
  <2> QED
    BY <1>3, <2>7, <2>8
<1> QED
  BY <1>4, <1>5

LEMMA LoopOverTicks ==
  ASSUME IInv, MInv, TInv, LoopOver
  PROVE  TInv'
<1>1. /\ pc = "over" /\ loops' = Tail(loops)
      /\ IF Len(loops) = 1 THEN pc' = "call"
         ELSE pc' = "segment" /\ j' = IF loops[2] = "down" THEN segs ELSE 1
      /\ UNCHANGED <<trial, calls, nticks>>
  BY DEF LoopOver
<1>2. CASE trial.pat \in Exact
  <2>1. /\ Turns' = Turns + Weight /\ Turns \in Int /\ Weight \in Int /\ Chunks \in Int
        /\ OneCallOnly'
    BY <1>2, MoreTurns
  <2>2. Looping /\ Shape
    BY <1>1, <1>2, ExactNow DEF Looping
  <2>3. Passed = Chunks /\ Moves = 0
    BY <1>1 DEF Passed, Moves
  <2>4. /\ Chunks * Turns \in Int /\ Chunks * Weight \in Int
        /\ Chunks * (Turns + Weight) = Chunks * Turns + Chunks * Weight
    BY <2>1, Distributes
  <2>5. /\ Chunks * Turns = Turns * Chunks /\ Chunks * Weight = Weight * Chunks
        /\ Chunks * (Turns + Weight) = (Turns + Weight) * Chunks
    BY <2>1
  <2>6. nticks = Turns * Chunks + (Weight * Chunks + 0)
    BY <1>2, <2>2, <2>3 DEF TInv, Ticked
  <2>7. nticks = (Turns + Weight) * Chunks
    <3>1. PICK x \in Int, y \in Int : x = Turns * Chunks /\ y = Weight * Chunks
      BY <2>4, <2>5
    <3> QED
      BY <2>4, <2>5, <2>6, <3>1
  <2>8. Chunks' = Chunks
    BY <1>1 DEF Chunks, segs
  <2>9. nticks' = Turns' * Chunks' + 0 /\ nticks' = Turns' * Chunks'
    <3>1. PICK x \in Int : x = (Turns + Weight) * Chunks
      BY <2>1
    <3> QED
      BY <1>1, <2>1, <2>7, <2>8, <3>1
  <2>10. CASE Len(loops) = 1
    BY <1>1, <2>10, <2>1, <2>9 DEF TInv, Ticked, Inside, Moving, Looping
  <2>11. CASE Len(loops) # 1
    <3>1. pc' = "segment" /\ j' = IF loops[2] = "down" THEN segs ELSE 1
      BY <1>1, <2>11
    <3>2. loop' = loops[2]
      BY <2>2, <1>1, <2>11, TailIs DEF Shape, LoopsOf, loop
    <3>3. segs' = segs
      BY <1>1 DEF segs
    <3>4. IInv'
      BY LoopOverKeeps
    <3>5. Passed' = 0 /\ Moves' = 0 /\ Inside' /\ Moving'
      BY <1>1, <1>2, <3>1, <3>2, <3>3, <3>4, NothingWithinNext DEF Down
    <3>6. Weight' \in Int
      BY <1>2, ExactNow, <1>1 DEF Weight
    <3>7. Weight' * 0 + 0 = 0
      <4>1. PICK w \in Int : w = Weight'
        BY <3>6
      <4>2. w * 0 + 0 = 0
        OBVIOUS
      <4> QED
        BY <4>1, <4>2
    <3> QED
      BY <2>1, <2>9, <3>1, <3>5, <3>7 DEF TInv, Ticked, Looping
  <2> QED
    BY <2>10, <2>11
<1> QED
  BY <1>1, <1>2, NotExact

-----------------------------------------------------------------------------
(* How many calls a test makes                                              *)
LEMMA FlattenLength ==
  ASSUME NEW E, NEW m \in Nat, NEW s \in Seq(Seq(E)), s # <<>>,
         \A i \in 1 .. Len(s) : Len(s[i]) = m
  PROVE  Len(FlattenSeq(s)) = m * Len(s)
<1> DEFINE N == Len(s)
           Flat(g, n) == g = [i \in 1 .. n |-> IF i = 1 THEN s[i] ELSE g[i - 1] \o s[i]]
           Reached(n) == \E g : Flat(g, n) /\ g[n] \in Seq(E) /\ Len(g[n]) = m * n
           S == {n \in Nat : n < N => Reached(n + 1)}
<1>0. N \in Nat \ {0} /\ \A i \in 1 .. N : s[i] \in Seq(E) /\ Len(s[i]) = m
  OBVIOUS
<1>1. Reached(1)
  <2> DEFINE g == [i \in 1 .. 1 |-> s[i]]
  <2>1. Flat(g, 1)
    OBVIOUS
  <2>2. g[1] = s[1]
    OBVIOUS
  <2>3. s[1] \in Seq(E) /\ Len(s[1]) = m * 1
    BY <1>0
  <2> QED
    BY <2>1, <2>2, <2>3
<1>2. ASSUME NEW n \in Nat \ {0}, n < N, Reached(n)
      PROVE  Reached(n + 1)
  <2>1. PICK h : Flat(h, n) /\ h[n] \in Seq(E) /\ Len(h[n]) = m * n
    BY <1>2
  <2> DEFINE g == [i \in 1 .. n + 1 |-> IF i = n + 1 THEN h[n] \o s[n + 1] ELSE h[i]]
  <2>2. \A i \in 1 .. n : h[i] = IF i = 1 THEN s[i] ELSE h[i - 1] \o s[i]
    BY <2>1
  <2>6. n + 1 \in 1 .. n + 1 /\ g[n + 1] = h[n] \o s[n + 1]
    <3>1. n + 1 \in 1 .. n + 1
      OBVIOUS
    <3> QED
      BY <3>1
  <2>3. ASSUME NEW i \in 1 .. n + 1
        PROVE  g[i] = IF i = 1 THEN s[i] ELSE g[i - 1] \o s[i]
    <3>1. CASE i = n + 1
      <4>1. i # 1 /\ i - 1 = n /\ n \in 1 .. n + 1 /\ n # n + 1
        BY <3>1
      <4>2. g[n] = h[n]
        BY <4>1
      <4> HIDE DEF g
      <4> QED
        BY <2>6, <3>1, <4>1, <4>2
    <3>2. CASE i \in 1 .. n
      <4>1. i # n + 1 /\ g[i] = h[i]
        BY <3>2
      <4>2. i # 1 => i - 1 \in 1 .. n + 1 /\ i - 1 # n + 1 /\ g[i - 1] = h[i - 1]
        BY <3>2
      <4> HIDE DEF g
      <4> QED
        BY <3>2, <2>2, <4>1, <4>2
    <3>3. i = n + 1 \/ i \in 1 .. n
      OBVIOUS
    <3> QED
      BY <3>1, <3>2, <3>3
  <2>4. Flat(g, n + 1)
    BY <2>3
  <2>5. g[n + 1] \in Seq(E) /\ Len(g[n + 1]) = m * (n + 1)
    <3>1. s[n + 1] \in Seq(E) /\ Len(s[n + 1]) = m
      BY <1>0, <1>2
    <3> HIDE DEF g
    <3>2. /\ h[n] \o s[n + 1] \in Seq(E)
          /\ Len(h[n] \o s[n + 1]) = Len(h[n]) + Len(s[n + 1])
      <4>1. PICK x \in Seq(E), y \in Seq(E) : x = h[n] /\ y = s[n + 1]
        BY <2>1, <3>1
      <4>2. x \o y \in Seq(E) /\ Len(x \o y) = Len(x) + Len(y)
        BY Appended
      <4> QED
        BY <4>1, <4>2
    <3>3. m * (n + 1) = m * n + m * 1 /\ m * 1 = m
      BY Distributes
    <3> QED
      BY <2>1, <2>6, <3>1, <3>2, <3>3
  <2> QED
    BY <2>4, <2>5
<1>3. S = Nat
  <2>1. 0 \in S
    <3> HIDE DEF Reached
    <3>1. Reached(0 + 1)
      BY <1>1
    <3> QED
      BY <3>1
  <2>2. ASSUME NEW n \in S
        PROVE  n + 1 \in S
    <3> HIDE DEF Reached
    <3>1. n \in Nat /\ n + 1 \in Nat \ {0} /\ (n < N => Reached(n + 1))
      OBVIOUS
    <3>2. n + 1 < N => Reached((n + 1) + 1)
      BY <3>1, <1>0, <1>2
    <3> QED
      BY <3>1, <3>2
  <2>3. S \in SUBSET Nat
    OBVIOUS
  <2> HIDE DEF S
  <2> QED
    BY <2>1, <2>2, <2>3, Inductive
<1>4. PICK g : Flat(g, N) /\ Len(g[N]) = m * N
  <2> HIDE DEF Reached
  <2>1. N - 1 \in S /\ (N - 1) + 1 = N
    <3> HIDE DEF S
    <3> QED
      BY <1>0, <1>3
  <2>2. Reached(N)
    BY <2>1, <1>0
  <2> QED
    BY <2>2 DEF Reached
<1>5. Flats(s, g)
  BY <1>4 DEF Flats
<1>6. FlattenSeq(s) = g[N]
  <2> HIDE DEF Flat
  <2> QED
    BY <1>5, FlattenIs
<1> QED
  BY <1>4, <1>6

LEMMA BothLength ==
  ASSUME NEW C, NEW c \in C, [c EXCEPT !.p1 = Not(@)] \in C
  PROVE  Len(Both(c)) = 2
BY DEF Both

LEMMA FlattenAll ==
  ASSUME NEW C, NEW m \in Nat, NEW n \in Nat \ {0}, NEW f, f = [i \in 1 .. n |-> f[i]],
         \A i \in 1 .. n : f[i] \in Some(C) /\ Len(f[i]) = m
  PROVE  Len(FlattenSeq(f)) = m * n
<1>1. \A i \in 1 .. n : f[i] \in Seq(C)
  BY DEF Some
<1>2. f \in [1 .. n -> Seq(C)]
  BY <1>1
<1>3. f \in Seq(Seq(C)) /\ Len(f) = n
  BY <1>2
<1>4. f # <<>>
  BY <1>3
<1> QED
  BY <1>3, <1>4, FlattenLength

LEMMA OffsetsLength ==
  ASSUME NEW iter \in Nat, NEW w \in SUBSET Bits
  PROVE  Len(AllOffsets(iter, w)) = 2 * ModSz
<1> DEFINE f == [i \in 1 .. ModSz |->
                   Both(ModTst(i - 1, iter, IF i % 2 = 1 THEN w ELSE Not(w)))]
<1>1. \A i \in 1 .. ModSz : f[i] \in Some(Alike("modtst", iter)) /\ Len(f[i]) = 2
  <2> TAKE i \in 1 .. ModSz
  <2>1. i - 1 \in 0 .. ModSz - 1
    BY Sizes
  <2>2. (IF i % 2 = 1 THEN w ELSE Not(w)) \in SUBSET Bits
    BY NotNot
  <2>3. f[i] = Both(ModTst(i - 1, iter, IF i % 2 = 1 THEN w ELSE Not(w)))
    OBVIOUS
  <2>4. Len(f[i]) = 2
    BY <2>3 DEF Both
  <2> HIDE DEF f
  <2> QED
    BY <2>1, <2>2, <2>3, <2>4, BothMod
<1>2. f = [i \in 1 .. ModSz |-> f[i]] /\ AllOffsets(iter, w) = FlattenSeq(f)
  BY DEF AllOffsets
<1> HIDE DEF f
<1> DEFINE C == Alike("modtst", iter)
<1>3. PICK m \in Nat, n \in Nat \ {0} : m = 2 /\ n = ModSz
  BY Sizes
<1>4. /\ \A i \in 1 .. n : f[i] \in Some(C) /\ Len(f[i]) = m
      /\ f = [i \in 1 .. n |-> f[i]]
  BY <1>1, <1>2, <1>3
<1> HIDE DEF C
<1>5. Len(FlattenSeq(f)) = m * n
  BY <1>4, FlattenAll
<1> QED
  BY <1>2, <1>3, <1>5

LEMMA CallsCounted ==
  ASSUME NEW t \in Trials, t.pat \in Exact \ {7}
  PROVE  Len(Calls(t)) = CASE t.pat = 0 -> 2
                           [] t.pat = 3 -> 2 * ModSz
                           [] t.pat = 4 -> 2 * ModSz * Width
                           [] t.pat = 6 -> 1
                           [] t.pat \in {9, 10} -> t.iter
                           [] t.pat = 11 -> 2 * ModSz * t.iter
<1>0. /\ t.iter \in Nat /\ (t.pat \in {9, 10, 11} => t.iter > 0)
      /\ \A i \in 1 .. t.iter : Rand(i) \in SUBSET Bits
      /\ {} \in SUBSET Bits
  BY TrialsAssumption
<1>1. CASE t.pat = 0
  BY <1>1 DEF Calls, Both
<1>2. CASE t.pat = 3
  BY <1>2, <1>0, OffsetsLength DEF Calls
<1>3. CASE t.pat = 4
  <2> DEFINE f == [b \in Bits |-> AllOffsets(t.iter, {Width - 1 - b})]
             g == [i \in 1 .. Width |-> f[i - 1]]
  <2>1. \A b \in Bits : f[b] \in Some(Alike("modtst", t.iter)) /\ Len(f[b]) = 2 * ModSz
    BY <1>0, BitsAre, OffsetsIn, OffsetsLength
  <2>2. Calls(t) = FlattenSeq(g)
    BY <1>3 DEF Calls, Walking
  <2> HIDE DEF f
  <2>3. \A i \in 1 .. Width : g[i] \in Some(Alike("modtst", t.iter)) /\ Len(g[i]) = 2 * ModSz
    BY <2>1, Sizes DEF Bits
  <2>4. g = [i \in 1 .. Width |-> g[i]]
    OBVIOUS
  <2> HIDE DEF g
  <2>5. 2 * ModSz \in Nat /\ Width \in Nat \ {0}
    BY Sizes
  <2> QED
    BY <1>3, <2>2, <2>3, <2>4, <2>5, FlattenAll
<1>4. CASE t.pat = 6
  BY <1>4 DEF Calls
<1>5. CASE t.pat = 9
  <2>1. Calls(t) = Times(t.iter, <<[fn |-> "movinvr"]>>)
    BY <1>5 DEF Calls
  <2>2. Calls(t) = [m \in 1 .. t.iter |-> [fn |-> "movinvr"]]
    BY <1>0, <2>1, TimesOne
  <2> QED
    BY <1>0, <1>5, <2>2
<1>6. CASE t.pat = 10
  <2> DEFINE f == [i \in 1 .. t.iter |-> MovInv1(2, Rand(i))]
  <2>1. Calls(t) = f
    BY <1>6 DEF Calls
  <2>2. DOMAIN f = 1 .. t.iter
    OBVIOUS
  <2> HIDE DEF f
  <2>3. Len(f) = t.iter
    BY <1>0, <2>2
  <2> QED
    BY <1>6, <2>1, <2>3
<1>7. CASE t.pat = 11
  <2> DEFINE f == [i \in 1 .. t.iter |-> AllOffsets(2, Rand(i))]
  <2>1. \A i \in 1 .. t.iter : f[i] \in Some(Alike("modtst", 2)) /\ Len(f[i]) = 2 * ModSz
    BY <1>0, OffsetsIn, OffsetsLength
  <2>2. Calls(t) = FlattenSeq(f) /\ f = [i \in 1 .. t.iter |-> f[i]]
    BY <1>7 DEF Calls
  <2> HIDE DEF f
  <2> DEFINE C == Alike("modtst", 2)
  <2>3. PICK m \in Nat, n \in Nat \ {0} : m = 2 * ModSz /\ n = t.iter
    BY <1>0, <1>7, Sizes
  <2>4. /\ \A i \in 1 .. n : f[i] \in Some(C) /\ Len(f[i]) = m
        /\ f = [i \in 1 .. n |-> f[i]]
    BY <2>1, <2>2, <2>3
  <2> HIDE DEF C
  <2>5. Len(FlattenSeq(f)) = m * n
    BY <2>4, FlattenAll
  <2>6. Len(Calls(t)) = 2 * ModSz * t.iter
    BY <2>2, <2>3, <2>5
  <2> QED
    BY <1>7, <2>6
<1> QED
  BY <1>1, <1>2, <1>3, <1>4, <1>5, <1>6, <1>7 DEF Exact

(* How many loops a call has                                                *)
LEMMA LoopsCounted ==
  ASSUME NEW t \in Trials, t.pat \notin {5, 7, 8}
  PROVE  PerCall(t) = Length(Fn(t.pat), IterOf(t))
<1> DEFINE fn == Fn(t.pat)
           n == IterOf(t)
           s == Calls(t)
<1>1. fn \in Marches
  BY MarchFns
<1>2. n \in Nat
  BY TrialsAssumption DEF IterOf
<1>3. s \in Seq(Alike(fn, n)) /\ s # <<>>
  BY CallsAlike DEF Some
<1> HIDE DEF fn, n, s
<1>4. s[1] \in Alike(fn, n)
  BY <1>3
<1>5. Len(Planned(s[1])) = Length(fn, n)
  BY <1>1, <1>2, <1>4, PlanIs
<1> QED
  BY <1>5 DEF PerCall, s, fn, n

(* do_test() and find_ticks_for_test() agree on how many loops there are.   *)
LEMMA SweepsCounted ==
  ASSUME NEW t \in Trials, t.pat \in Exact \ {7}
  PROVE  Sweeps(t) = TicksPerChunk(t.pat, t.iter)
<1>1. t.iter \in Nat /\ ModSz \in Nat /\ Width \in Nat
  BY TrialsAssumption, Sizes
<1>2. t.pat \notin {5, 7, 8} /\ Sweeps(t) = Len(Calls(t)) * PerCall(t)
  BY DEF Exact, Sweeps
<1>3. PerCall(t) = Length(Fn(t.pat), IterOf(t))
  BY <1>2, LoopsCounted
<1>4. CASE t.pat = 0
  <2>1. Len(Calls(t)) = 2 /\ PerCall(t) = 1 + 2 * t.iter /\ TicksPerChunk(t.pat, t.iter) = 2 + 4 * t.iter
    BY <1>3, <1>4, CallsCounted DEF Fn, Length, IterOf, TicksPerChunk
  <2> QED
    BY <1>1, <1>2, <2>1
<1>5. CASE t.pat = 3
  <2>1. /\ Len(Calls(t)) = 2 * ModSz /\ PerCall(t) = t.iter + 2
        /\ TicksPerChunk(t.pat, t.iter) = (2 + t.iter) * 2 * ModSz
    BY <1>3, <1>5, CallsCounted DEF Fn, Length, IterOf, TicksPerChunk
  <2> QED
    BY <1>1, <1>2, <2>1
<1>6. CASE t.pat = 4
  <2>1. /\ Len(Calls(t)) = 2 * ModSz * Width /\ PerCall(t) = t.iter + 2
        /\ TicksPerChunk(t.pat, t.iter) = (2 + t.iter) * 2 * ModSz * Width
    BY <1>3, <1>6, CallsCounted DEF Fn, Length, IterOf, TicksPerChunk
  <2> QED
    BY <1>1, <1>2, <2>1
<1>7. CASE t.pat = 6
  <2>1. Len(Calls(t)) = 1 /\ PerCall(t) = 2 /\ TicksPerChunk(t.pat, t.iter) = 2
    BY <1>3, <1>7, CallsCounted DEF Fn, Length, IterOf, TicksPerChunk
  <2> QED
    BY <1>2, <2>1
<1>8. CASE t.pat = 9
  BY <1>3, <1>8, CallsCounted, <1>1, <1>2 DEF Fn, Length, IterOf, TicksPerChunk
<1>9. CASE t.pat = 10
  <2>1. /\ Len(Calls(t)) = t.iter /\ PerCall(t) = 1 + 2 * 2
        /\ TicksPerChunk(t.pat, t.iter) = t.iter + 4 * t.iter
    BY <1>3, <1>9, CallsCounted DEF Fn, Length, IterOf, TicksPerChunk
  <2> QED
    BY <1>1, <1>2, <2>1
<1>10. CASE t.pat = 11
  <2>1. /\ Len(Calls(t)) = 2 * ModSz * t.iter /\ PerCall(t) = 2 + 2
        /\ TicksPerChunk(t.pat, t.iter) = 4 * 2 * ModSz * t.iter
    BY <1>3, <1>10, CallsCounted DEF Fn, Length, IterOf, TicksPerChunk
  <2> QED
    BY <1>1, <1>2, <2>1
<1> QED
  BY <1>4, <1>5, <1>6, <1>7, <1>8, <1>9, <1>10 DEF Exact

(* The next call, or the end: then the counter is where it was to be.       *)
LEMMA NextCallTicks ==
  ASSUME IInv, MInv, TInv, NextCall
  PROVE  TInv'
<1>1. /\ pc = "call" /\ UNCHANGED <<trial, sweep, nticks>>
      /\ IF Len(calls) = 1 THEN pc' = "done" /\ UNCHANGED <<calls, loops, j>>
         ELSE /\ calls' = Tail(calls)
              /\ loops' = Loops(calls[2])
              /\ pc' = "segment" /\ j' = 1
  BY DEF NextCall, history
<1>2. CASE trial.pat \in Exact
  <2>1. /\ Shape /\ trial \in Trials /\ trial.iter \in Nat
        /\ (IsMarch <=> trial.pat # 7) /\ (IsMarch' <=> IsMarch)
    BY <1>1, <1>2, ExactNow, SameTrial
  <2>2. nticks = Turns * Chunks
    BY <1>1, <1>2 DEF TInv, Ticked
  <2>3. Chunks' = Chunks
    BY <1>1 DEF Chunks, segs
  <2>4. CASE Len(calls) = 1
    <3>1. Turns = TicksPerChunk(trial.pat, trial.iter)
      <4>1. CASE trial.pat # 7
        BY <1>1, <2>1, <2>4, <4>1, AllSwept, <1>2, SweepsCounted DEF Turns
      <4>2. CASE trial.pat = 7
        BY <1>1, <1>2, <4>2, <2>1 DEF TInv, OneCallOnly, Turns, TicksPerChunk
      <4> QED
        BY <4>1, <4>2
    <3>2. nticks = test_ticks /\ test_ticks' = test_ticks
      BY <1>1, <2>2, <2>3, <3>1 DEF test_ticks
    <3>3. pc' = "done" /\ UNCHANGED <<calls, loops>> /\ call' = call
      BY <1>1, <2>4, SameLoop
    <3> QED
      BY <1>1, <1>2, <3>2, <3>3 DEF TInv, Ticked, Inside, Moving, OneCallOnly, Looping
  <2>5. CASE Len(calls) # 1
    <3>1. trial.pat # 7
      <4>1. ASSUME trial.pat = 7
            PROVE  FALSE
        BY <1>2, <4>1, <2>5 DEF TInv, OneCallOnly, Calls
      <4> QED
        BY <4>1
    <3>2. calls \in Seq(CallsOf(Fn(trial.pat))) /\ calls # <<>>
      BY <2>1 DEF Shape
    <3>3. /\ Tail(calls) \in Seq(CallsOf(Fn(trial.pat))) /\ Tail(calls) # <<>>
          /\ Head(Tail(calls)) = calls[2]
      BY <2>5, <3>2, TailIs
    <3>4. call' = calls[2] /\ loops' = Loops(call')
      BY <1>1, <2>5, <3>3 DEF call
    <3>5. loop' # "down" /\ loop' # "move"
      BY <2>1, <3>3, <3>4, FnIn, LoopsIn, FirstIs DEF Fns, loop, First
    <3>6. IInv'
      BY NextCallKeeps
    <3>7. Passed' = 0 /\ Moves' = 0 /\ Inside' /\ Moving'
      BY <1>1, <1>2, <2>5, <3>5, <3>6, NothingWithinNext DEF Down
    <3>8. Turns' = Turns /\ Weight' = 1
      BY <1>1, <2>1, <3>1, <3>5 DEF Turns, Weight
    <3>9. Turns * Chunks \in Int
      BY <1>2, TurnsTyped
    <3>10. nticks' = Turns' * Chunks' + (Weight' * Passed' + Moves')
      <4>1. PICK x \in Int : x = Turns * Chunks
        BY <3>9
      <4> QED
        BY <1>1, <2>2, <2>3, <3>7, <3>8, <4>1
    <3>11. OneCallOnly'
      BY <1>1, <3>1 DEF OneCallOnly
    <3> QED
      BY <1>1, <2>5, <3>7, <3>10, <3>11 DEF TInv, Ticked, Looping
  <2> QED
    BY <2>4, <2>5
<1> QED
  BY <1>1, <1>2, NotExact

LEMMA InitTicks ==
  ASSUME Init
  PROVE  TInv
<1> SUFFICES ASSUME trial.pat \in Exact
             PROVE  Ticked /\ Inside /\ Moving /\ OneCallOnly
  BY DEF TInv
<1>1. /\ pc = "segment" /\ trial \in Trials /\ j = 1 /\ sweep = 1 /\ nticks = 0
      /\ calls = Calls(trial) /\ loops = Loops(Head(Calls(trial)))
  BY DEF Init
<1>2. IInv
  BY InitHolds
<1>3. /\ Shape /\ trial.iter \in Nat /\ (IsMarch <=> trial.pat # 7)
      /\ (call.fn = "block_move" <=> trial.pat = 7) /\ loops = Loops(call)
  BY <1>1, <1>2, ExactNow DEF call
<1>4. loop # "down" /\ loop # "move"
  BY <1>1, <1>3, CallNow, FnIn, LoopsIn, FirstIs DEF Fns, loop, First
<1>5. Passed = 0 /\ Moves = 0 /\ Inside /\ Moving
  BY <1>1, <1>2, <1>4, NothingWithin DEF Down
<1>6. Weight = 1 /\ Chunks \in Int
  BY <1>2, <1>4, ChunksNow DEF Weight
<1>7. trial.pat = 7 => Len(Loops(call)) = 3
  BY <1>3 DEF Loops
<1>8. Turns = 0
  BY <1>1, <1>3, <1>7 DEF Turns
<1>9. nticks = Turns * Chunks + (Weight * Passed + Moves)
  BY <1>1, <1>5, <1>6, <1>8
<1>10. OneCallOnly
  BY <1>3, <1>7, RestAll, <1>1 DEF OneCallOnly
<1> QED
  BY <1>1, <1>5, <1>9, <1>10 DEF Ticked, Looping

(* The steps that are of other tests                                        *)
LEMMA OtherTicks ==
  ASSUME IInv, TInv,
         FadeFill \/ FadeSleep \/ FadeCheck \/ AddrLines \/ AddrBanks \/ AddrBank
         \/ AddrMask \/ TickLine
  PROVE  TInv'
<1>1. trial.pat \in Exact => /\ call.fn \notin {"addr_tst1", "bit_fade"}
                             /\ Looping => loop # "sleep"
  BY ExactNow
<1>2. CASE FadeFill \/ FadeCheck
  BY <1>1, <1>2, NotExact DEF FadeFill, FadeCheck, In, ReadWrite
<1>3. CASE FadeSleep
  BY <1>1, <1>3, NotExact DEF FadeSleep, Looping
<1>4. CASE AddrLines \/ AddrBanks
  BY <1>1, <1>4, NotExact DEF AddrLines, AddrBanks, Plant
<1>5. CASE AddrBank
  BY <1>5, <1>1, NotExact DEF AddrBank, IInv, Places, AddrPlace
<1>6. CASE AddrMask
  BY <1>6, <1>1, NotExact DEF AddrMask, IInv, Places, AddrPlace
<1>7. CASE TickLine
  BY <1>7, <1>1, NotExact DEF TickLine
<1> QED
  BY <1>2, <1>3, <1>4, <1>5, <1>6, <1>7

LEMMA NextTicks ==
  ASSUME IInv, MInv, TInv, [Next]_vars
  PROVE  TInv'
<1>1. CASE EnterSegment
  BY <1>1, EnterTicks
<1>2. CASE NextChunk
  BY <1>2, NextChunkTicks
<1>3. CASE TickChunk
  BY <1>3, TickChunkTicks
<1>4. CASE LoopOver
  BY <1>4, LoopOverTicks
<1>5. CASE NextCall
  BY <1>5, NextCallTicks
<1>6. CASE MarchWords
  <2>1. WordOfMarch
    BY <1>6, WordsPlanned
  <2>2. PICK read, write : ReadWrite(read, write, StepOf)
    BY <2>1 DEF WordOfMarch
  <2>3. /\ pc = "word" /\ pc' \in {"word", "tick"}
        /\ UNCHANGED <<trial, calls, loops, j, pe, sweep, nticks>>
    BY <2>1, <2>2 DEF WordOfMarch, ReadWrite
  <2>4. loop # "move"
    BY <2>3, <2>1, LoopNow DEF IInv, Looping, WordOfMarch, Marches, LoopTable
  <2> QED
    BY <2>3, <2>4, WordTicks
<1>7. CASE Blocks
  BY <1>7, WordTicks DEF Blocks, In, history
<1>8. CASE BlockMove
  BY <1>8, WordTicks DEF BlockMove, In, history, pointers
<1>9. CASE BlockPairs
  BY <1>9, WordTicks DEF BlockPairs, In, history
<1>10. CASE TickMove
  BY <1>10, TickMoveTicks
<1>11. CASE FadeFill \/ FadeSleep \/ FadeCheck \/ AddrLines \/ AddrBanks \/ AddrBank
            \/ AddrMask \/ TickLine
  BY <1>11, OtherTicks
<1>12. CASE UNCHANGED vars
  <2>1. UNCHANGED <<pc, trial, calls, loops, j, pe, done, k, nticks, bail, sweep>>
    BY <1>12 DEF vars, pointers, registers, history
  <2>2. /\ call' = call /\ loop' = loop /\ (IsMarch' <=> IsMarch)
        /\ Behind' = Behind /\ Chunks' = Chunks /\ Weight' = Weight
        /\ ChunksTo(pe)' = ChunksTo(pe) /\ (Placed(pe)' <=> Placed(pe))
    BY <2>1, SameLoop, SameTrial, SameChunks
  <2>3. Turns' = Turns /\ Passed' = Passed /\ Moves' = Moves
    BY <2>1, <2>2 DEF Turns, Passed, Within, Moves
  <2>4. test_ticks' = test_ticks
    BY <2>1, <2>2 DEF test_ticks
  <2> QED
    BY <2>1, <2>2, <2>3, <2>4 DEF TInv, Ticked, Inside, Moving, OneCallOnly, Looping
<1> QED
  BY <1>1, <1>2, <1>3, <1>4, <1>5, <1>6, <1>7, <1>8, <1>9, <1>10, <1>11, <1>12
  DEF Next, Walk, Others, MarchWords, Done

(* The progress bar is full when the test is, and not before: the number of *)
(* ticks that find_ticks_for_test() expects is the number of calls of       *)
(* do_tick(), for any layout of segments and any number of iterations, in   *)
(* the tests of Exact, of which the code knows that number.                 *)
THEOREM TicksRight == Spec => []TicksAsExpected
<1>1. Init => MInv /\ TInv
  BY InitBooks, InitTicks
<1>2. IInv /\ MInv /\ TInv /\ [Next]_vars => MInv' /\ TInv'
  BY NextBooks, NextTicks
<1>3. TInv => TicksAsExpected
  BY DEF TInv, Ticked, Exact, TicksAsExpected
<1> QED
  BY <1>1, <1>2, <1>3, Invariant, PTL DEF Spec

-----------------------------------------------------------------------------
(* The faults that the march tests find: how the books and the memory change, *)
(* in the terms of sweeps                                                     *)
Deal(a) ==
  /\ sweep \in Plan /\ a \in Nth(sweep).words \ seen
  /\ seen' = seen \cup {a} /\ UNCHANGED <<trial, sweep>>
  /\ \A b \in Nth(sweep).words \ seen : IF Nth(sweep).down THEN b <= a ELSE a <= b
  /\ reported' = (IF Nth(sweep).read[a] # NoWord
                     /\ Load(mem, trial.fault, a) # Nth(sweep).read[a]
                  THEN reported \cup {a} ELSE reported)
  /\ mem' = (IF Nth(sweep).write[a] = NoWord THEN mem
             ELSE Store(mem, trial.fault, a, Nth(sweep).write[a]))
  /\ pc' # "done"

SweepDone ==
  /\ sweep \in Plan /\ seen = Nth(sweep).words
  /\ sweep' = sweep + 1 /\ seen' = {} /\ UNCHANGED <<trial, mem, reported>>
  /\ pc' # "done"

Elsewhere == UNCHANGED <<trial, sweep, seen, mem, reported>>

LEMMA SweepsTyped ==
  ASSUME NEW t \in Trials
  PROVE  Sweeps(t) \in Nat
<1>1. CASE t.pat \in {5, 7, 8}
  BY <1>1 DEF Sweeps
<1>2. CASE t.pat \notin {5, 7, 8}
  <2>1. Len(Calls(t)) \in Nat /\ PerCall(t) \in Nat
    BY <1>2, CallsPlanned
  <2> DEFINE x == Len(Calls(t))
             y == PerCall(t)
  <2>2. Sweeps(t) = x * y
    BY <1>2 DEF Sweeps
  <2>3. x \in Nat /\ y \in Nat
    BY <2>1
  <2> HIDE DEF x, y
  <2> QED
    BY <2>2, <2>3
<1> QED
  BY <1>1, <1>2

LEMMA TrialKept ==
  ASSUME IInv, MInv, [Next]_vars
  PROVE  trial' = trial
BY NextMarches DEF March!Next, March!Operation, March!NextSweep, March!Finish, March!Stop,
   March!vars

(* A step of the refinement, once the test is one *)
LEMMA StepOfMarch ==
  ASSUME IInv, MInv, IsMarch, Swept, [Next]_vars
  PROVE  /\ trial' = trial /\ IsMarch' /\ Sweeps(trial) \in Nat
         /\ \/ \E a : Deal(a)
            \/ SweepDone
            \/ Elsewhere /\ (pc' = "done" /\ ~bail' => sweep = Sweeps(trial) + 1)
<1>0. sweep \in Nat \ {0}
  BY DEF Swept
<1>1. [March!Next]_March!vars
  BY NextMarches
<1>2. trial \in Trials
  BY MarchNow
<1>3. Sweeps(trial) \in Nat
  BY <1>2, SweepsTyped
<1>4. trial' = trial
  BY TrialKept
<1>5. IsMarch'
  BY <1>4, SameTrial
<1>6. CASE March!Operation
  <2>1. PICK a \in NthSweep(trial, sweep).words \ seen :
          /\ seen' = seen \cup {a}
          /\ March!First(NthSweep(trial, sweep).words \ seen, NthSweep(trial, sweep).down, a)
          /\ reported' = (IF NthSweep(trial, sweep).read[a] # NoWord
                             /\ March!Load(mem, trial.fault, a) # NthSweep(trial, sweep).read[a]
                          THEN reported \cup {a} ELSE reported)
          /\ mem' = (IF NthSweep(trial, sweep).write[a] = NoWord THEN mem
                     ELSE March!Store(mem, trial.fault, a, NthSweep(trial, sweep).write[a]))
    BY <1>5, <1>6 DEF March!Operation
  <2>2. sweep <= Sweeps(trial) /\ sweep' = sweep /\ pc' # "done"
    BY <1>4, <1>5, <1>6 DEF March!Operation, March!Sweeping
  <2>3. sweep \in Plan
    BY <1>0, <1>3, <2>2 DEF Plan
  <2>4. \A b \in NthSweep(trial, sweep).words \ seen :
          IF NthSweep(trial, sweep).down THEN b <= a ELSE a <= b
    BY <2>1 DEF March!First
  <2>5. Deal(a)
    BY <1>4, <2>1, <2>2, <2>3, <2>4, SameMemory DEF Deal, Nth
  <2> QED
    BY <1>3, <1>4, <1>5, <2>5
<1>7. CASE March!NextSweep
  BY <1>5, <1>7, <1>0, <1>3, <1>4
  DEF March!NextSweep, March!Sweeping, Plan, SweepDone, Nth
<1>8. CASE March!Finish \/ March!Stop \/ UNCHANGED March!vars
  BY <1>4, <1>5, <1>8, <1>3 DEF March!Finish, March!Stop, March!vars, Elsewhere, Swept
<1> QED
  BY <1>1, <1>6, <1>7, <1>8 DEF March!Next

(* The words of a sweep are words of the memory.                            *)
LEMMA SweepWords ==
  ASSUME trial \in Trials, NEW n
  PROVE  Nth(n).words \subseteq 0 .. Space - 1 /\ Nth(n).words \subseteq Covers(trial)
BY CoversIs, Ordered DEF Nth, NthSweep, Sweep

LEMMA SamePlan ==
  ASSUME trial' = trial
  PROVE  /\ Plan' = Plan /\ Victim' = Victim /\ Other' = Other /\ (IsOne' <=> IsOne)
         /\ Lower' = Lower /\ Upper' = Upper /\ trial.fault' = trial.fault
         /\ \A n : Nth(n)' = Nth(n)
         /\ \A w : HasBit(w)' <=> HasBit(w)
BY DEF Plan, Victim, Other, IsOne, Lower, Upper, Nth, HasBit

(* The same after a step, about a word that the step does not change        *)
HadNext(n, a) == n < sweep' \/ (n = sweep' /\ a \in seen')

(* After the end of a sweep the same words have been dealt with.            *)
LEMMA HadStays ==
  ASSUME Swept, SweepDone \/ Elsewhere, NEW n \in Plan, NEW a \in Nth(n).words,
         Sweeps(trial) \in Nat
  PROVE  HadNext(n, a) <=> Had(n, a)
BY DEF Plan, Swept, Had, HadNext, Elsewhere, SweepDone

LEMMA HadGrows ==
  ASSUME NEW a, Deal(a), NEW n, NEW b
  PROVE  HadNext(n, b) <=> Had(n, b) \/ (n = sweep /\ b = a)
BY DEF Had, HadNext, Deal

(* The words before a have been dealt with, and those after it have not.    *)
LEMMA HadInOrder ==
  ASSUME trial \in Trials, InOrder, Swept, NEW a, Deal(a), NEW b \in Nth(sweep).words
  PROVE  /\ a \in 0 .. Space - 1 /\ b \in 0 .. Space - 1 /\ a \in Nth(sweep).words
         /\ Had(sweep, b) <=> IF Nth(sweep).down THEN a < b ELSE b < a
BY SweepWords, Sizes DEF Deal, Had, Swept, InOrder

LEMMA OrderKept ==
  ASSUME trial \in Trials, InOrder, Swept, trial' = trial, Sweeps(trial) \in Nat,
         \/ \E a : Deal(a)
         \/ SweepDone
         \/ Elsewhere /\ (pc' = "done" /\ ~bail' => sweep = Sweeps(trial) + 1)
  PROVE  InOrder' /\ Swept'
<1>0. \A n : Nth(n)' = Nth(n) /\ Plan' = Plan /\ Sweeps(trial)' = Sweeps(trial)
  BY SamePlan
<1>1. ASSUME NEW a, Deal(a)
      PROVE  InOrder' /\ Swept'
  <2>1. /\ sweep' = sweep /\ seen' = seen \cup {a} /\ sweep \in Plan /\ pc' # "done"
        /\ a \in Nth(sweep).words
    BY <1>1 DEF Deal
  <2>2. Nth(sweep)' = Nth(sweep)
    BY <2>1, <1>0 DEF Nth
  <2>3. Swept'
    BY <2>1, <1>0 DEF Swept
  <2>4. seen' \subseteq Nth(sweep)'.words
    BY <2>1, <2>2 DEF InOrder
  <2>5. ASSUME NEW c \in seen', NEW b \in Nth(sweep).words,
               IF Nth(sweep).down THEN c <= b ELSE b <= c
        PROVE  b \in seen'
    <3>1. CASE c = a
      BY <2>1, <1>1, HadInOrder, <2>5, <3>1, Sizes DEF Had, Swept
    <3>2. CASE c \in seen
      BY <2>1, <2>5, <3>2 DEF InOrder
    <3> QED
      BY <2>1, <3>1, <3>2
  <2> QED
    BY <2>2, <2>3, <2>4, <2>5 DEF InOrder
<1>2. CASE SweepDone
  BY <1>2 DEF SweepDone, Swept, InOrder
<1>3. CASE Elsewhere /\ (pc' = "done" /\ ~bail' => sweep = Sweeps(trial) + 1)
  BY <1>3, <1>0 DEF Elsewhere, Nth, Swept, InOrder
<1> QED
  BY <1>1, <1>2, <1>3

(* What a fault makes of the memory *)
LEMMA FaultIs ==
  ASSUME trial \in Trials
  PROVE  /\ trial.fault.kind \in {"stuck", "couple", "alias"} =>
              Victim \in Covers(trial) /\ Victim \in 0 .. Space - 1
         /\ trial.fault.kind \in {"couple", "alias"} =>
              Other \in Covers(trial) /\ Other \in 0 .. Space - 1 /\ Victim # Other
         /\ trial.fault.kind \in {"stuck", "couple", "fade"} =>
              trial.fault.bit \in Bits /\ trial.fault.value \in BOOLEAN
<1>1. \A a \in FaultyWords(trial.fault) : a \in Covers(trial)
  <2> SUFFICES ASSUME NEW a \in FaultyWords(trial.fault)
               PROVE  a \in Covers(trial)
    OBVIOUS
  <2>1. PICK i \in DOMAIN trial.map : a \in trial.map[i].start .. trial.map[i].end - 1
    BY TrialsAssumption
  <2>2. i \in 1 .. Len(trial.map)
    BY Segments
  <2> QED
    BY <2>1, <2>2, CoversIs DEF WordsOf
<1>2. \A a \in Covers(trial) : a \in 0 .. Space - 1
  BY CoversIs, Ordered
<1>3. /\ trial.fault.kind \in {"stuck", "couple", "alias"} =>
           Victim \in FaultyWords(trial.fault)
      /\ trial.fault.kind \in {"couple", "alias"} => Other \in FaultyWords(trial.fault)
  BY DEF FaultyWords, Victim, Other
<1>4. trial.fault.kind \in {"couple", "alias"} => Victim # Other
  BY FaultsAssumption DEF Victim, Other
<1>5. trial.fault.kind \in {"stuck", "couple", "fade"} =>
        trial.fault.bit \in Bits /\ trial.fault.value \in BOOLEAN
  BY FaultsAssumption
<1> QED
  BY <1>1, <1>2, <1>3, <1>4, <1>5

LEMMA StuckKeeps ==
  ASSUME trial \in Trials, trial.fault.kind = "stuck", Memory(mem), NEW a, NEW w,
         HasBit(mem[Victim]) <=> IsOne
  PROVE  /\ HasBit(Store(mem, trial.fault, a, w)[Victim]) <=> IsOne
         /\ Load(mem, trial.fault, Victim) = mem[Victim]
BY FaultIs DEF Cell, Store, Flips, Memory, Held, Victim, Forced, HasBit, IsOne, Load

LEMMA StuckKept ==
  ASSUME Shape, Swept, StuckFound, trial' = trial, Sweeps(trial) \in Nat,
         (\E a : Deal(a)) \/ SweepDone \/ Elsewhere
  PROVE  StuckFound'
<1>0. /\ trial \in Trials /\ Memory(mem) /\ trial' = trial /\ Plan' = Plan
      /\ Victim' = Victim /\ (IsOne' <=> IsOne)
      /\ \A n : Nth(n)' = Nth(n) /\ \A w : HasBit(w)' <=> HasBit(w)
  BY SamePlan DEF Shape, Memory
<1> SUFFICES ASSUME trial.fault.kind = "stuck"
             PROVE  /\ HasBit(mem'[Victim]) <=> IsOne
                    /\ \A n \in Plan : Shows(n) /\ HadNext(n, Victim) => reported' # {}
  BY <1>0 DEF StuckFound, Shows, Had, HadNext
<1>1. /\ HasBit(mem[Victim]) <=> IsOne
      /\ \A n \in Plan : Shows(n) /\ Had(n, Victim) => reported # {}
  BY DEF StuckFound
<1>2. ASSUME NEW a, Deal(a)
      PROVE  /\ HasBit(mem'[Victim]) <=> IsOne
             /\ \A n \in Plan : Shows(n) /\ HadNext(n, Victim) => reported' # {}
  <2>1. HasBit(mem'[Victim]) <=> IsOne
    BY <1>0, <1>1, <1>2, StuckKeeps DEF Deal
  <2>2. ASSUME NEW n \in Plan, Shows(n), HadNext(n, Victim)
        PROVE  reported' # {}
    BY <1>2, <2>2, HadGrows, <1>0, <1>1, StuckKeeps DEF Deal, Shows
  <2> QED
    BY <2>1, <2>2
<1>3. CASE SweepDone \/ Elsewhere
  BY <1>3, HadStays, <1>1 DEF SweepDone, Elsewhere, Shows
<1> QED
  BY <1>2, <1>3

(* Two words that are one *)
LEMMA AliasStores ==
  ASSUME trial \in Trials, trial.fault.kind = "alias", Memory(mem), NEW a, NEW w
  PROVE  /\ a \in {Lower, Upper} =>
              /\ Load(mem, trial.fault, a) = mem[Other]
              /\ Store(mem, trial.fault, a, w)[Other] = w
         /\ a \notin {Lower, Upper} => Store(mem, trial.fault, a, w)[Other] = mem[Other]
         /\ {Lower, Upper} = {Victim, Other}
         /\ Lower \in 0 .. Space - 1 /\ Upper \in 0 .. Space - 1 /\ Lower < Upper
<1>1. /\ Victim \in 0 .. Space - 1 /\ Other \in 0 .. Space - 1 /\ Victim # Other
  BY FaultIs
<1>2. {Lower, Upper} = {Victim, Other}
  BY DEF Lower, Upper
<1>3. Lower \in 0 .. Space - 1 /\ Upper \in 0 .. Space - 1 /\ Lower < Upper
  BY <1>1, Sizes DEF Lower, Upper
<1>4. Cell(trial.fault, a) = IF a = Victim THEN Other ELSE a
  BY DEF Cell, Victim, Other
<1>5. Store(mem, trial.fault, a, w) = [mem EXCEPT ![Cell(trial.fault, a)] = w]
  BY DEF Store, Flips, Held
<1>6. Other \in DOMAIN mem
  BY <1>1 DEF Memory
<1> QED
  BY <1>1, <1>2, <1>3, <1>4, <1>5, <1>6 DEF Load

LEMMA AliasDealt ==
  ASSUME Shape, Swept, InOrder, trial.fault.kind = "alias", NEW n \in Plan,
         Clash(n), Aliased(n), NEW a, Deal(a)
  PROVE  /\ HadNext(n, Upper) /\ ~HadNext(n + 1, Lower) => mem'[Other] = Nth(n).write[Upper]
         /\ HadNext(n + 1, Lower) /\ ~HadNext(n + 1, Upper) /\ reported' = {} =>
              /\ Nth(n + 1).write[Lower] # NoWord
              /\ Nth(n).write[Upper] = Nth(n).write[Lower]
              /\ mem'[Other] = Nth(n + 1).write[Lower]
         /\ HadNext(n + 1, Upper) => reported' # {}
<1>1. /\ trial \in Trials /\ Memory(mem) /\ n \in Nat /\ sweep \in Nat
  BY DEF Shape, Memory, Swept, Plan
<1>2. Lower \in 0 .. Space - 1 /\ Upper \in 0 .. Space - 1 /\ Lower < Upper
  BY <1>1, AliasStores
<1>3. \A m, b : HadNext(m, b) <=> Had(m, b) \/ (m = sweep /\ b = a)
  BY HadGrows
<1>4. reported \subseteq reported'
  BY DEF Deal
<1>5. CASE a \notin {Lower, Upper}
  BY <1>1, <1>5, AliasStores, <1>3, <1>4 DEF Deal, Aliased
<1>6. CASE sweep \notin {n, n + 1}
  BY <1>1, <1>6, <1>3, <1>4 DEF Had, Aliased
<1>7. CASE sweep = n /\ a \in {Lower, Upper}
  <2>1. ~Had(n + 1, Lower) /\ ~Had(n + 1, Upper) /\ n + 1 # sweep
    BY <1>1, <1>7 DEF Had
  <2>2. CASE a = Upper
    BY <1>1, <1>7, <2>2, AliasStores, <1>3, <2>1 DEF Deal, Clash
  <2>3. CASE a = Lower
    BY <1>1, <1>2, <1>7, <2>3, HadInOrder, Sizes, <1>3, <2>1 DEF Clash
  <2> QED
    BY <1>7, <2>2, <2>3
<1>8. CASE sweep = n + 1 /\ a \in {Lower, Upper}
  <2>1. Had(n, Upper) /\ Load(mem, trial.fault, a) = mem[Other]
    <3>1. Had(n, Upper)
      BY <1>1, <1>8 DEF Had
    <3>2. \A w : Load(mem, trial.fault, a) = mem[Other]
      BY <1>1, <1>8, AliasStores
    <3> QED
      BY <3>1, <3>2
  <2>2. ASSUME Nth(n + 1).read[a] # NoWord, mem[Other] # Nth(n + 1).read[a]
        PROVE  reported' # {}
    BY <1>8, <2>1, <2>2 DEF Deal
  <2>3. /\ Nth(n + 1).read[a] = Nth(n).write[a] /\ Nth(n + 1).read[a] # NoWord
        /\ Upper \in Nth(n + 1).words /\ Lower \in Nth(n + 1).words /\ ~Nth(n + 1).down
    BY <1>8 DEF Clash
  <2>4. CASE a = Lower
    <3>1. ~Had(n + 1, Upper) /\ ~Had(n + 1, Lower)
      BY <1>1, <1>2, <1>8, <2>3, <2>4, HadInOrder, Sizes
    <3>2. mem[Other] = Nth(n).write[Upper]
      BY <2>1, <3>1 DEF Aliased
    <3>3. HadNext(n + 1, Lower) /\ ~HadNext(n + 1, Upper)
      BY <1>2, <1>3, <1>8, <2>4, <3>1, Sizes
    <3>4. CASE reported' = {}
      <4>1. Nth(n).write[Upper] = Nth(n).write[Lower]
        BY <2>2, <2>3, <2>4, <3>2, <3>4
      <4>2. Nth(n + 1).write[Lower] # NoWord
        BY <4>1 DEF Clash
      <4>3. mem'[Other] = Nth(n + 1).write[Lower]
        BY <1>1, <1>8, <2>4, <4>2, AliasStores DEF Deal
      <4> QED
        BY <3>3, <4>1, <4>2, <4>3
    <3> QED
      BY <3>3, <3>4
  <2>5. CASE a = Upper
    <3>1. Had(n + 1, Lower) /\ ~Had(n + 1, Upper)
      BY <1>1, <1>2, <1>8, <2>3, <2>5, HadInOrder, Sizes
    <3>2. reported' # {}
      BY <3>1, <2>2, <2>3, <2>5, <1>4 DEF Aliased, Clash
    <3> QED
      BY <1>3, <3>1, <3>2
  <2> QED
    BY <1>8, <2>4, <2>5
<1> QED
  BY <1>5, <1>6, <1>7, <1>8

LEMMA AliasKept ==
  ASSUME Shape, Swept, InOrder, AliasFound, trial' = trial, Sweeps(trial) \in Nat,
         (\E a : Deal(a)) \/ SweepDone \/ Elsewhere
  PROVE  AliasFound'
<1>0. /\ Plan' = Plan /\ Lower' = Lower /\ Upper' = Upper /\ Other' = Other
      /\ trial.fault' = trial.fault /\ \A n : Nth(n)' = Nth(n)
  BY SamePlan
<1>1. \A n : Clash(n)' <=> Clash(n)
  BY <1>0 DEF Clash
<1> SUFFICES ASSUME trial.fault.kind = "alias", NEW n \in Plan, Clash(n)
             PROVE  Aliased(n)'
  BY <1>0, <1>1 DEF AliasFound
<1>2. Aliased(n)
  BY DEF AliasFound
<1>3. ASSUME NEW a, Deal(a)
      PROVE  Aliased(n)'
  BY <1>0, <1>2, <1>3, AliasDealt DEF Aliased, Had, HadNext
<1>4. CASE SweepDone \/ Elsewhere
  BY <1>4, HadStays, <1>0, <1>2 DEF SweepDone, Elsewhere, Clash, Aliased, Had, HadNext
<1> QED
  BY <1>3, <1>4

(* Two words that are coupled *)
LEMMA CoupleStores ==
  ASSUME trial \in Trials, trial.fault.kind = "couple", Memory(mem), NEW a, NEW w
  PROVE  LET m == Store(mem, trial.fault, a, w)
         IN  /\ Load(mem, trial.fault, a) = mem[a]
             /\ a = Other =>
                  /\ HasBit(m[Other]) <=> HasBit(w)
                  /\ (HasBit(m[Victim]) <=> HasBit(mem[Victim])) <=>
                       ((HasBit(mem[Other]) <=> HasBit(w)) \/ ~(HasBit(w) <=> IsOne))
             /\ a = Victim =>
                  /\ HasBit(m[Other]) <=> HasBit(mem[Other])
                  /\ HasBit(m[Victim]) <=> HasBit(w)
             /\ a \notin {Victim, Other} =>
                  /\ HasBit(m[Other]) <=> HasBit(mem[Other])
                  /\ HasBit(m[Victim]) <=> HasBit(mem[Victim])
<1> DEFINE f == trial.fault
           m == Store(mem, f, a, w)
           new == [mem EXCEPT ![a] = w]
           flipped == [new EXCEPT ![Victim] =
                         IF f.bit \in @ THEN @ \ {f.bit} ELSE @ \cup {f.bit}]
<1>1. /\ Victim \in 0 .. Space - 1 /\ Other \in 0 .. Space - 1 /\ Victim # Other
      /\ f.value \in BOOLEAN
  BY FaultIs
<1>2. Victim \in DOMAIN mem /\ Other \in DOMAIN mem
  BY <1>1 DEF Memory
<1>3. Cell(f, a) = a /\ Held(f, a, w) = w
  BY DEF Cell, Held
<1>4. m = IF Flips(f, a, mem[a], w) THEN flipped ELSE new
  BY <1>3 DEF Store, Victim
<1>5. Flips(f, a, mem[a], w) <=>
        a = Other /\ ~(HasBit(mem[a]) <=> HasBit(w)) /\ (HasBit(w) <=> IsOne)
  BY <1>1 DEF Flips, HasBit, IsOne, Other
<1>6. /\ new[Other] = IF a = Other THEN w ELSE mem[Other]
      /\ new[Victim] = IF a = Victim THEN w ELSE mem[Victim]
      /\ flipped[Other] = new[Other]
      /\ flipped[Victim] = IF f.bit \in new[Victim] THEN new[Victim] \ {f.bit}
                           ELSE new[Victim] \cup {f.bit}
  BY <1>1, <1>2
<1>7. HasBit(flipped[Victim]) <=> ~HasBit(new[Victim])
  <2> HIDE DEF new, flipped
  <2> QED
    BY <1>6 DEF HasBit
<1>8. Load(mem, f, a) = mem[a]
  BY <1>3 DEF Load
<1> HIDE DEF m, new, flipped
<1>9. CASE Flips(f, a, mem[a], w)
  BY <1>4, <1>5, <1>9, <1>1, <1>6, <1>7, <1>8 DEF m, f
<1>10. CASE ~Flips(f, a, mem[a], w)
  BY <1>4, <1>10, <1>1, <1>5, <1>6, <1>8 DEF m, f
<1> QED
  BY <1>9, <1>10

IsSetNext(a) == HasBit(mem'[a])

(* What a step does to the two words of an inversion: which of them has     *)
(* been dealt with, what they hold, and that a wrong word is reported       *)
LEMMA CoupleStep ==
  ASSUME Shape, Swept, InOrder, trial.fault.kind = "couple", NEW a, Deal(a)
  PROVE  /\ \A m, b : HadNext(m, b) <=> Had(m, b) \/ (m = sweep /\ b = a)
         /\ reported # {} => reported' # {}
         /\ a \notin {Victim, Other} =>
              (IsSetNext(Other) <=> IsSet(Other)) /\ (IsSetNext(Victim) <=> IsSet(Victim))
         /\ \A x \in BOOLEAN : Writes(sweep, x) /\ a = Victim =>
              (IsSetNext(Other) <=> IsSet(Other)) /\ (IsSetNext(Victim) <=> x)
         /\ \A x \in BOOLEAN : Writes(sweep, x) /\ a = Other =>
              /\ IsSetNext(Other) <=> x
              /\ (IsSetNext(Victim) <=> IsSet(Victim)) <=>
                   ((IsSet(Other) <=> x) \/ ~(x <=> IsOne))
         /\ \A x \in BOOLEAN : Reads(sweep, x) /\ a = Victim /\ ~(IsSet(Victim) <=> x) =>
              reported' # {}
<1>1. trial \in Trials /\ Memory(mem)
  BY DEF Shape, Memory
<1> DEFINE w == Nth(sweep).write[a]
           r == Nth(sweep).read[a]
           f == trial.fault
<1>2. /\ mem' = (IF w = NoWord THEN mem ELSE Store(mem, f, a, w))
      /\ reported' = (IF r # NoWord /\ Load(mem, f, a) # r THEN reported \cup {a} ELSE reported)
  BY DEF Deal
<1> HIDE DEF w, r
<1>3. \A m, b : HadNext(m, b) <=> Had(m, b) \/ (m = sweep /\ b = a)
  BY HadGrows
<1>4. reported # {} => reported' # {}
  BY <1>2
<1>5. /\ Load(mem, f, a) = mem[a]
      /\ a = Other =>
           /\ HasBit(Store(mem, f, a, w)[Other]) <=> HasBit(w)
           /\ (HasBit(Store(mem, f, a, w)[Victim]) <=> HasBit(mem[Victim])) <=>
                ((HasBit(mem[Other]) <=> HasBit(w)) \/ ~(HasBit(w) <=> IsOne))
      /\ a = Victim =>
           /\ HasBit(Store(mem, f, a, w)[Other]) <=> HasBit(mem[Other])
           /\ HasBit(Store(mem, f, a, w)[Victim]) <=> HasBit(w)
      /\ a \notin {Victim, Other} =>
           /\ HasBit(Store(mem, f, a, w)[Other]) <=> HasBit(mem[Other])
           /\ HasBit(Store(mem, f, a, w)[Victim]) <=> HasBit(mem[Victim])
  BY <1>1, CoupleStores
<1>6. a \notin {Victim, Other} =>
        (IsSetNext(Other) <=> IsSet(Other)) /\ (IsSetNext(Victim) <=> IsSet(Victim))
  BY <1>2, <1>5 DEF IsSetNext, IsSet
<1>7. ASSUME NEW x \in BOOLEAN, Writes(sweep, x), a \in {Victim, Other}
      PROVE  w # NoWord /\ (HasBit(w) <=> x)
  BY <1>7 DEF Writes, w
<1>8. ASSUME NEW x \in BOOLEAN, Writes(sweep, x), a = Victim
      PROVE  (IsSetNext(Other) <=> IsSet(Other)) /\ (IsSetNext(Victim) <=> x)
  BY <1>2, <1>5, <1>7, <1>8 DEF IsSetNext, IsSet
<1>9. ASSUME NEW x \in BOOLEAN, Writes(sweep, x), a = Other
      PROVE  /\ IsSetNext(Other) <=> x
             /\ (IsSetNext(Victim) <=> IsSet(Victim)) <=>
                  ((IsSet(Other) <=> x) \/ ~(x <=> IsOne))
  BY <1>2, <1>5, <1>7, <1>9 DEF IsSetNext, IsSet
<1>10. ASSUME NEW x \in BOOLEAN, Reads(sweep, x), a = Victim, ~(IsSet(Victim) <=> x)
       PROVE  reported' # {}
  BY <1>10, <1>2, <1>5 DEF Reads, r, IsSet
<1> QED
  BY <1>3, <1>4, <1>6, <1>8, <1>9, <1>10

(* Where an inversion is when a word is dealt with                          *)
LEMMA InversionAt ==
  ASSUME Shape, Swept, InOrder, trial.fault.kind = "couple", NEW n \in Plan,
         NEW x \in BOOLEAN, Inverts(n, x), NEW a, Deal(a)
  PROVE  /\ n \in Nat /\ sweep \in Nat /\ a \in Int
         /\ Victim \in Int /\ Other \in Int /\ Victim # Other
         /\ \A m \in Nat : \A b : (m < sweep => Had(m, b)) /\ (sweep < m => ~Had(m, b))
         /\ \A b \in {Victim, Other} :
              /\ sweep \in {n, n + 1} => (Had(sweep, b) <=> b < a)
              /\ sweep = n + 2 => (Had(sweep, b) <=> a < b)
              /\ sweep = n + 3 /\ InvertsTwice(n, x) => (Had(sweep, b) <=> b < a)
<1>1. trial \in Trials /\ n \in Nat /\ sweep \in Nat
  BY DEF Shape, Plan, Swept
<1>2. Victim \in 0 .. Space - 1 /\ Other \in 0 .. Space - 1 /\ Victim # Other
  BY <1>1, FaultIs
<1>3. a \in Nth(sweep).words
  BY DEF Deal
<1>4. a \in 0 .. Space - 1
  BY <1>1, <1>3, SweepWords
<1>5. \A m \in Nat : \A b : (m < sweep => Had(m, b)) /\ (sweep < m => ~Had(m, b))
  BY <1>1 DEF Had
<1>6. ASSUME NEW b \in {Victim, Other}
      PROVE  /\ sweep \in {n, n + 1} => (Had(sweep, b) <=> b < a)
             /\ sweep = n + 2 => (Had(sweep, b) <=> a < b)
             /\ sweep = n + 3 /\ InvertsTwice(n, x) => (Had(sweep, b) <=> b < a)
  BY <1>1, HadInOrder, <1>6 DEF Inverts, Writes, InvertsTwice
<1> QED
  BY <1>1, <1>2, <1>4, <1>5, <1>6, Sizes

LEMMA CoupledDealt ==
  ASSUME Shape, Swept, InOrder, trial.fault.kind = "couple", NEW n \in Plan,
         NEW x \in BOOLEAN, Inverts(n, x), NEW a, Deal(a), Coupled(n, x)
  PROVE  Coupled(n, x)'
<1>0. /\ Victim' = Victim /\ Other' = Other /\ (IsOne' <=> IsOne)
      /\ (InvertsTwice(n, x)' <=> InvertsTwice(n, x))
  BY SamePlan DEF Deal, InvertsTwice, Inverts, Writes, Reads
<1>1. /\ n \in Nat /\ sweep \in Nat /\ a \in Int
      /\ Victim \in Int /\ Other \in Int /\ Victim # Other
      /\ \A m \in Nat : \A b : (m < sweep => Had(m, b)) /\ (sweep < m => ~Had(m, b))
      /\ \A b \in {Victim, Other} :
           /\ sweep \in {n, n + 1} => (Had(sweep, b) <=> b < a)
           /\ sweep = n + 2 => (Had(sweep, b) <=> a < b)
           /\ sweep = n + 3 /\ InvertsTwice(n, x) => (Had(sweep, b) <=> b < a)
  BY InversionAt
<1>2. /\ \A m : Had(m, Victim)' <=> Had(m, Victim) \/ (m = sweep /\ Victim = a)
      /\ \A m : Had(m, Other)' <=> Had(m, Other) \/ (m = sweep /\ Other = a)
      /\ IsSet(Victim)' <=> IsSetNext(Victim)
      /\ IsSet(Other)' <=> IsSetNext(Other)
  BY CoupleStep, SamePlan, <1>0 DEF Deal, Had, HadNext, IsSet, IsSetNext
<1>3. /\ reported # {} => reported' # {}
      /\ a \notin {Victim, Other} =>
           (IsSetNext(Other) <=> IsSet(Other)) /\ (IsSetNext(Victim) <=> IsSet(Victim))
  BY CoupleStep
<1>4. CASE a \notin {Victim, Other}
  BY <1>0, <1>1, <1>2, <1>3, <1>4
  DEF Coupled, OtherHolds, AboveRising, BelowRising, BelowFalling, AboveFalling
<1>5. CASE sweep < n \/ n + 3 < sweep
  BY <1>1, <1>5, <1>0, <1>2, <1>3
  DEF Coupled, OtherHolds, AboveRising, BelowRising, BelowFalling, AboveFalling
<1>6. CASE sweep = n /\ a \in {Victim, Other}
  BY <1>1, <1>6, CoupleStep, <1>0, <1>2
  DEF Inverts, Coupled, OtherHolds, AboveRising, BelowRising, BelowFalling, AboveFalling
<1>7. CASE sweep = n + 1 /\ a \in {Victim, Other}
  <2>1. /\ Had(n, Victim) /\ Had(n, Other) /\ ~Had(n + 2, Victim)
        /\ ~Had(n + 2, Other) /\ ~Had(n + 3, Victim)
        /\ Had(n + 1, Victim) <=> Victim < a
        /\ Had(n + 1, Other) <=> Other < a
        /\ n # sweep /\ n + 2 # sweep /\ n + 3 # sweep
    BY <1>1, <1>7
  <2>2. CASE a = Victim
    BY <1>7, <2>2, CoupleStep, <1>0, <1>1, <1>2, <1>3, <2>1
    DEF Inverts, Coupled, OtherHolds, AboveRising, BelowRising, BelowFalling,
       AboveFalling
  <2>3. CASE a = Other
    <3>1. /\ IsSetNext(Other) <=> ~x
          /\ (IsSetNext(Victim) <=> IsSet(Victim)) <=>
               ((IsSet(Other) <=> ~x) \/ ~(~x <=> IsOne))
      BY <1>7, <2>3, CoupleStep DEF Inverts
    <3> QED
      BY <1>0, <1>1, <1>2, <1>3, <1>7, <2>1, <2>3, <3>1
      DEF Coupled, OtherHolds, AboveRising, BelowRising, BelowFalling, AboveFalling
  <2> QED
    BY <1>7, <2>2, <2>3
<1>8. CASE sweep = n + 2 /\ a \in {Victim, Other}
  <2>1. /\ Had(n, Victim) /\ Had(n, Other) /\ Had(n + 1, Victim)
        /\ Had(n + 1, Other) /\ ~Had(n + 3, Victim)
        /\ Had(n + 2, Victim) <=> a < Victim
        /\ Had(n + 2, Other) <=> a < Other
        /\ n # sweep /\ n + 1 # sweep /\ n + 3 # sweep
    BY <1>1, <1>8
  <2>2. CASE a = Victim
    <3>1. (IsSetNext(Other) <=> IsSet(Other)) /\ (IsSetNext(Victim) <=> x)
      BY <1>8, <2>2, CoupleStep DEF Inverts
    <3>2. ~(IsSet(Victim) <=> ~x) => reported' # {}
      BY <1>8, <2>2, CoupleStep DEF Inverts
    <3> QED
      BY <1>0, <1>1, <1>2, <1>3, <1>8, <2>1, <2>2, <3>1, <3>2
      DEF Coupled, OtherHolds, AboveRising, BelowRising, BelowFalling, AboveFalling
  <2>3. CASE a = Other
    BY <1>8, <2>3, CoupleStep, <1>0, <1>1, <1>2, <1>3, <2>1
    DEF Inverts, Coupled, OtherHolds, AboveRising, BelowRising, BelowFalling,
       AboveFalling
  <2> QED
    BY <1>8, <2>2, <2>3
<1>9. CASE sweep = n + 3 /\ a \in {Victim, Other}
  <2>1. /\ Had(n, Victim) /\ Had(n, Other) /\ Had(n + 1, Victim)
        /\ Had(n + 1, Other) /\ Had(n + 2, Victim) /\ Had(n + 2, Other)
        /\ InvertsTwice(n, x) => (Had(n + 3, Victim) <=> Victim < a)
        /\ n # sweep /\ n + 1 # sweep /\ n + 2 # sweep
    BY <1>1, <1>9
  <2>2. CASE a = Victim
    BY <1>9, <2>2, CoupleStep, <1>0, <1>1, <1>2, <1>3, <2>1
    DEF InvertsTwice, Coupled, OtherHolds, AboveRising, BelowRising, BelowFalling,
       AboveFalling
  <2>3. CASE a = Other
    BY <1>9, <2>3, CoupleStep, <1>0, <1>1, <1>2, <1>3, <2>1
    DEF InvertsTwice, Coupled, OtherHolds, AboveRising, BelowRising, BelowFalling,
       AboveFalling
  <2> QED
    BY <1>9, <2>2, <2>3
<1>10. sweep < n \/ sweep = n \/ sweep = n + 1 \/ sweep = n + 2 \/ sweep = n + 3 \/ n + 3 < sweep
  BY <1>1
<1> QED
  BY <1>4, <1>5, <1>6, <1>7, <1>8, <1>9, <1>10

LEMMA CoupledKept ==
  ASSUME Shape, Swept, InOrder, CoupledFound, trial' = trial, Sweeps(trial) \in Nat,
         (\E a : Deal(a)) \/ SweepDone \/ Elsewhere
  PROVE  CoupledFound'
<1>0. /\ Plan' = Plan /\ Victim' = Victim /\ Other' = Other /\ (IsOne' <=> IsOne)
      /\ trial.fault' = trial.fault /\ (\A n : Nth(n)' = Nth(n))
      /\ \A w : HasBit(w)' <=> HasBit(w)
  BY SamePlan
<1>1. \A n : \A x \in BOOLEAN : /\ Inverts(n, x)' <=> Inverts(n, x)
                                /\ InvertsTwice(n, x)' <=> InvertsTwice(n, x)
  BY <1>0 DEF InvertsTwice, Inverts, Writes, Reads
<1> SUFFICES ASSUME trial.fault.kind = "couple", NEW n \in Plan, NEW x \in BOOLEAN,
                    Inverts(n, x)
             PROVE  Coupled(n, x)'
  BY <1>0, <1>1 DEF CoupledFound
<1>2. Coupled(n, x)
  BY DEF CoupledFound
<1>3. ASSUME NEW a, Deal(a)
      PROVE  Coupled(n, x)'
  BY <1>2, <1>3, CoupledDealt
<1>4. CASE SweepDone \/ Elsewhere
  <2>1. mem' = mem /\ reported' = reported
    BY <1>4 DEF SweepDone, Elsewhere
  <2>2. (IsSet(Victim)' <=> IsSet(Victim)) /\ (IsSet(Other)' <=> IsSet(Other))
    BY <1>0, <2>1 DEF IsSet
  <2>3. ASSUME NEW m \in Plan, NEW b \in Nth(m).words
        PROVE  HadNext(m, b) <=> Had(m, b)
    BY <1>4, HadStays
  <2>4. \A m : /\ Had(m, Victim)' <=> HadNext(m, Victim)
               /\ Had(m, Other)' <=> HadNext(m, Other)
    BY <1>0 DEF Had, HadNext
  <2>5. ASSUME NEW m, m \in {n, n + 1, n + 2}
        PROVE  /\ Had(m, Victim)' <=> Had(m, Victim)
               /\ Had(m, Other)' <=> Had(m, Other)
    BY <2>5, <2>3, <2>4 DEF Inverts, Writes
  <2>6. InvertsTwice(n, x) => (Had(n + 3, Victim)' <=> Had(n + 3, Victim))
    BY <2>3, <2>4 DEF InvertsTwice, Writes
  <2>7. /\ Had(n, Victim)' <=> Had(n, Victim)
        /\ Had(n, Other)' <=> Had(n, Other)
        /\ Had(n + 1, Victim)' <=> Had(n + 1, Victim)
        /\ Had(n + 1, Other)' <=> Had(n + 1, Other)
        /\ Had(n + 2, Victim)' <=> Had(n + 2, Victim)
        /\ Had(n + 2, Other)' <=> Had(n + 2, Other)
    BY <2>5
  <2> QED
    BY <1>0, <1>1, <1>2, <2>1, <2>2, <2>6, <2>7
    DEF Coupled, OtherHolds, AboveRising, BelowRising, BelowFalling, AboveFalling
<1> QED
  BY <1>3, <1>4

LEMMA InitFound ==
  ASSUME Init
  PROVE  FInv
<1>1. /\ trial \in Trials /\ sweep = 1 /\ seen = {} /\ pc = "segment" /\ Shape
      /\ \E m \in Contents : mem = [a \in DOMAIN m |-> Held(trial.fault, a, m[a])]
  BY InitHolds DEF IInv, Init
<1>2. Sweeps(trial) \in Nat
  BY <1>1, SweepsTyped
<1>3. \A n \in Nat \ {0} : \A a : ~Had(n, a)
  BY <1>1 DEF Had
<1>4. \A n \in Plan : /\ n \in Nat \ {0} /\ n + 1 \in Nat \ {0} /\ n + 2 \in Nat \ {0}
                      /\ n + 3 \in Nat \ {0}
  BY DEF Plan
<1>5. InOrder /\ Swept
  BY <1>1 DEF InOrder, Swept
<1>6. StuckFound
  <2>1. trial.fault.kind = "stuck" => (HasBit(mem[Victim]) <=> IsOne)
    <3> SUFFICES ASSUME trial.fault.kind = "stuck"
                 PROVE  HasBit(mem[Victim]) <=> IsOne
      OBVIOUS
    <3>1. Victim \in 0 .. Space - 1 /\ trial.fault.value \in BOOLEAN
      BY <1>1, FaultIs
    <3>2. PICK m \in Contents : mem = [a \in DOMAIN m |-> Held(trial.fault, a, m[a])]
      BY <1>1
    <3>3. DOMAIN m = 0 .. Space - 1
      BY TestsAssumption
    <3>4. mem[Victim] = Held(trial.fault, Victim, m[Victim])
      BY <3>1, <3>2, <3>3
    <3>5. Held(trial.fault, Victim, m[Victim]) = Forced(m[Victim], trial.fault)
      BY DEF Held, Victim
    <3> QED
      BY <3>1, <3>4, <3>5 DEF Forced, HasBit, IsOne
  <2> QED
    BY <1>3, <1>4, <2>1 DEF StuckFound
<1>7. AliasFound
  BY <1>3, <1>4 DEF AliasFound, Aliased
<1>8. CoupledFound
  BY <1>3, <1>4
  DEF CoupledFound, Coupled, OtherHolds, AboveRising, BelowRising, BelowFalling, AboveFalling
<1> QED
  BY <1>5, <1>6, <1>7, <1>8 DEF FInv

LEMMA NextFound ==
  ASSUME IInv, MInv, FInv, [Next]_vars
  PROVE  FInv'
<1>1. trial' = trial
  BY TrialKept
<1>2. CASE ~IsMarch
  BY <1>1, <1>2, SameTrial DEF FInv
<1>3. CASE IsMarch
  BY <1>3, StepOfMarch, <1>1, OrderKept, StuckKept, AliasKept, CoupledKept
  DEF FInv, IInv, Shape
<1> QED
  BY <1>2, <1>3

-----------------------------------------------------------------------------
(* Which calls are among those of a test                                    *)
Occurs(e, s) == \E m \in 1 .. Len(s) : s[m] = e

LEMMA AppendHas ==
  ASSUME NEW E, NEW x \in Seq(E), NEW y \in Seq(E), NEW e
  PROVE  x \o y \in Seq(E) /\ (Occurs(e, x) \/ Occurs(e, y) => Occurs(e, x \o y))
<1>1. /\ x \o y \in Seq(E) /\ Len(x \o y) = Len(x) + Len(y)
      /\ Len(x) \in Nat /\ Len(y) \in Nat
      /\ \A i \in 1 .. Len(x) : (x \o y)[i] = x[i]
      /\ \A i \in 1 .. Len(y) : (x \o y)[Len(x) + i] = y[i]
  BY Appended
<1>2. ASSUME NEW m \in 1 .. Len(x), x[m] = e
      PROVE  Occurs(e, x \o y)
  BY <1>1, <1>2 DEF Occurs
<1>3. ASSUME NEW m \in 1 .. Len(y), y[m] = e
      PROVE  Occurs(e, x \o y)
  <2>1. Len(x) + m \in 1 .. Len(x \o y) /\ (x \o y)[Len(x) + m] = e
    BY <1>1, <1>3
  <2> QED
    BY <2>1 DEF Occurs
<1> QED
  BY <1>1, <1>2, <1>3 DEF Occurs

LEMMA FlattenHas ==
  ASSUME NEW E, NEW s \in Seq(Seq(E)), s # <<>>, NEW i \in 1 .. Len(s), NEW e,
         Occurs(e, s[i])
  PROVE  Occurs(e, FlattenSeq(s))
<1> DEFINE N == Len(s)
           Flat(g, n) == g = [a \in 1 .. n |-> IF a = 1 THEN s[a] ELSE g[a - 1] \o s[a]]
           Reached(n) == \E g : /\ Flat(g, n) /\ g[n] \in Seq(E)
                                /\ i <= n => Occurs(e, g[n])
           S == {n \in Nat : n < N => Reached(n + 1)}
<1>0. N \in Nat \ {0} /\ \A a \in 1 .. N : s[a] \in Seq(E)
  OBVIOUS
<1>1. Reached(1)
  <2> DEFINE g == [a \in 1 .. 1 |-> s[a]]
  <2>1. Flat(g, 1)
    OBVIOUS
  <2>2. g[1] = s[1]
    OBVIOUS
  <2>3. s[1] \in Seq(E)
    BY <1>0
  <2>4. i <= 1 => i = 1
    OBVIOUS
  <2> HIDE DEF g
  <2>5. i <= 1 => Occurs(e, g[1])
    BY <2>2, <2>4
  <2> QED
    BY <2>1, <2>2, <2>3, <2>5
<1>2. ASSUME NEW n \in Nat \ {0}, n < N, Reached(n)
      PROVE  Reached(n + 1)
  <2>1. PICK h : Flat(h, n) /\ h[n] \in Seq(E) /\ (i <= n => Occurs(e, h[n]))
    BY <1>2
  <2> DEFINE g == [a \in 1 .. n + 1 |-> IF a = n + 1 THEN h[n] \o s[n + 1] ELSE h[a]]
  <2>2. \A a \in 1 .. n : h[a] = IF a = 1 THEN s[a] ELSE h[a - 1] \o s[a]
    BY <2>1
  <2>6. n + 1 \in 1 .. n + 1 /\ g[n + 1] = h[n] \o s[n + 1]
    <3>1. n + 1 \in 1 .. n + 1
      OBVIOUS
    <3> QED
      BY <3>1
  <2>3. ASSUME NEW a \in 1 .. n + 1
        PROVE  g[a] = IF a = 1 THEN s[a] ELSE g[a - 1] \o s[a]
    <3>1. CASE a = n + 1
      <4>1. a # 1 /\ a - 1 = n /\ n \in 1 .. n + 1 /\ n # n + 1
        BY <3>1
      <4>2. g[n] = h[n]
        BY <4>1
      <4> HIDE DEF g
      <4> QED
        BY <2>6, <3>1, <4>1, <4>2
    <3>2. CASE a \in 1 .. n
      <4>1. a # n + 1 /\ g[a] = h[a]
        BY <3>2
      <4>2. a # 1 => a - 1 \in 1 .. n + 1 /\ a - 1 # n + 1 /\ g[a - 1] = h[a - 1]
        BY <3>2
      <4> HIDE DEF g
      <4> QED
        BY <3>2, <2>2, <4>1, <4>2
    <3>3. a = n + 1 \/ a \in 1 .. n
      OBVIOUS
    <3> QED
      BY <3>1, <3>2, <3>3
  <2>4. Flat(g, n + 1)
    BY <2>3
  <2>5. g[n + 1] \in Seq(E) /\ (i <= n + 1 => Occurs(e, g[n + 1]))
    <3>1. s[n + 1] \in Seq(E)
      BY <1>0, <1>2
    <3> HIDE DEF g
    <3>2. /\ h[n] \o s[n + 1] \in Seq(E)
          /\ Occurs(e, h[n]) \/ Occurs(e, s[n + 1]) => Occurs(e, h[n] \o s[n + 1])
      BY <2>1, <3>1, AppendHas
    <3>3. i <= n + 1 => i <= n \/ i = n + 1
      BY <1>0
    <3> QED
      BY <2>1, <2>6, <3>2, <3>3
  <2> QED
    BY <2>4, <2>5
<1>3. S = Nat
  <2>1. 0 \in S
    <3> HIDE DEF Reached
    <3>1. Reached(0 + 1)
      BY <1>1
    <3> QED
      BY <3>1
  <2>2. ASSUME NEW n \in S
        PROVE  n + 1 \in S
    <3> HIDE DEF Reached
    <3>1. n \in Nat /\ n + 1 \in Nat \ {0} /\ (n < N => Reached(n + 1))
      OBVIOUS
    <3>2. n + 1 < N => Reached((n + 1) + 1)
      BY <3>1, <1>0, <1>2
    <3> QED
      BY <3>1, <3>2
  <2>3. S \in SUBSET Nat
    OBVIOUS
  <2> HIDE DEF S
  <2> QED
    BY <2>1, <2>2, <2>3, Inductive
<1>4. PICK g : Flat(g, N) /\ Occurs(e, g[N])
  <2> HIDE DEF Reached
  <2>1. N - 1 \in S /\ (N - 1) + 1 = N
    <3> HIDE DEF S
    <3> QED
      BY <1>0, <1>3
  <2>2. Reached(N)
    BY <2>1, <1>0
  <2>3. i <= N
    BY <1>0
  <2> QED
    BY <2>2, <2>3 DEF Reached
<1>5. Flats(s, g)
  BY <1>4 DEF Flats
<1>6. FlattenSeq(s) = g[N]
  <2> HIDE DEF Flat
  <2> QED
    BY <1>5, FlattenIs
<1> QED
  BY <1>4, <1>6

LEMMA FlattenEach ==
  ASSUME NEW C, NEW n \in Nat \ {0}, NEW f, f = [i \in 1 .. n |-> f[i]],
         \A i \in 1 .. n : f[i] \in Some(C), NEW i \in 1 .. n, NEW e, Occurs(e, f[i])
  PROVE  Occurs(e, FlattenSeq(f))
<1>1. \A m \in 1 .. n : f[m] \in Seq(C)
  BY DEF Some
<1>2. f \in [1 .. n -> Seq(C)]
  BY <1>1
<1>3. f \in Seq(Seq(C)) /\ Len(f) = n
  BY <1>2
<1>4. f # <<>>
  BY <1>3
<1> QED
  BY <1>3, <1>4, FlattenHas

LEMMA WalkingHas ==
  ASSUME NEW C, NEW f, \A b \in Bits : f[b] \in Some(C), NEW b \in Bits, NEW e,
         Occurs(e, f[b])
  PROVE  Occurs(e, Walking(f))
<1> DEFINE g == [i \in 1 .. Width |-> f[i - 1]]
<1>1. \A i \in 1 .. Width : g[i] \in Some(C)
  BY Sizes DEF Bits
<1>2. g = [i \in 1 .. Width |-> g[i]]
  OBVIOUS
<1>3. b + 1 \in 1 .. Width /\ (b + 1) - 1 = b
  BY Sizes DEF Bits
<1>4. g[b + 1] = f[b]
  BY <1>3
<1> HIDE DEF g
<1>5. Occurs(e, g[b + 1])
  BY <1>4
<1>6. Occurs(e, FlattenSeq(g))
  BY <1>1, <1>2, <1>3, <1>5, Sizes, FlattenEach
<1> QED
  BY <1>6 DEF Walking, g

LEMMA BothHas ==
  ASSUME NEW c
  PROVE  Occurs(c, Both(c)) /\ Occurs([c EXCEPT !.p1 = Not(@)], Both(c))
BY DEF Both, Occurs

(* For each offset modtst() is called with a pattern and its complement.    *)
Opposed(off, iter, s) ==
  \E w \in SUBSET Bits :
    Occurs(ModTst(off, iter, w), s) /\ Occurs(ModTst(off, iter, Not(w)), s)

LEMMA OffsetsHave ==
  ASSUME NEW iter \in Nat, NEW w \in SUBSET Bits, NEW off \in 0 .. ModSz - 1
  PROVE  Opposed(off, iter, AllOffsets(iter, w))
<1> DEFINE x(i) == IF i % 2 = 1 THEN w ELSE Not(w)
           f == [i \in 1 .. ModSz |-> Both(ModTst(i - 1, iter, x(i)))]
           C == Alike("modtst", iter)
<1>1. \A i \in 1 .. ModSz : x(i) \in SUBSET Bits
  BY NotNot
<1>2. \A i \in 1 .. ModSz : f[i] \in Some(C)
  <2> TAKE i \in 1 .. ModSz
  <2>1. i - 1 \in 0 .. ModSz - 1
    BY Sizes
  <2>2. x(i) \in SUBSET Bits
    BY <1>1
  <2>3. f[i] = Both(ModTst(i - 1, iter, x(i)))
    OBVIOUS
  <2> HIDE DEF f, x
  <2> QED
    BY <2>1, <2>2, <2>3, BothMod
<1>3. f = [i \in 1 .. ModSz |-> f[i]] /\ AllOffsets(iter, w) = FlattenSeq(f)
  BY DEF AllOffsets
<1>4. off + 1 \in 1 .. ModSz /\ (off + 1) - 1 = off
  BY Sizes
<1>5. f[off + 1] = Both(ModTst(off, iter, x(off + 1)))
  BY <1>4
<1> DEFINE v == x(off + 1)
<1>6. v \in SUBSET Bits
  BY <1>1, <1>4
<1> HIDE DEF f, x, C
<1>7. [ModTst(off, iter, v) EXCEPT !.p1 = Not(@)] = ModTst(off, iter, Not(v))
  BY DEF ModTst
<1>8. Occurs(ModTst(off, iter, v), f[off + 1]) /\ Occurs(ModTst(off, iter, Not(v)), f[off + 1])
  BY <1>5, <1>7, BothHas
<1>9. \A e : Occurs(e, f[off + 1]) => Occurs(e, AllOffsets(iter, w))
  <2> TAKE e
  <2>1. ModSz \in Nat \ {0}
    BY Sizes
  <2> QED
    BY <1>2, <1>3, <1>4, <2>1, FlattenEach
<1> QED
  BY <1>6, <1>8, <1>9 DEF Opposed

LEMMA CallsOfInversion ==
  ASSUME NEW t \in Trials, t.pat \in {0, 1}, NEW b \in Bits, NEW x \in BOOLEAN
  PROVE  \E w \in SUBSET Bits : (b \in w <=> x) /\ Occurs(MovInv1(t.iter, w), Calls(t))
<1>0. t.iter \in Nat
  BY TrialsAssumption
<1>1. \A w : [MovInv1(t.iter, w) EXCEPT !.p1 = Not(@)] = MovInv1(t.iter, Not(w))
  BY DEF MovInv1
<1>2. CASE t.pat = 0
  <2>1. Calls(t) = Both(MovInv1(t.iter, {}))
    BY <1>2 DEF Calls
  <2>2. Occurs(MovInv1(t.iter, {}), Calls(t)) /\ Occurs(MovInv1(t.iter, Not({})), Calls(t))
    BY <1>1, <2>1, BothHas
  <2>3. b \notin {} /\ b \in Not({}) /\ Not({}) \in SUBSET Bits /\ {} \in SUBSET Bits
    BY DEF Not
  <2>4. PICK w \in {{}, Not({})} : b \in w <=> x
    BY <2>3
  <2> QED
    BY <2>2, <2>3, <2>4
<1>3. CASE t.pat = 1
  <2> DEFINE f == [c \in Bits |-> Both(MovInv1(t.iter, {Width - 1 - c}))]
             C == Alike("movinv1", t.iter)
             d == Width - 1 - b
  <2>1. \A c \in Bits : f[c] \in Some(C)
    BY <1>0, BitsAre, Both1
  <2>2. Calls(t) = Walking(f)
    BY <1>3 DEF Calls
  <2>3. d \in Bits /\ Width - 1 - d = b
    BY Sizes DEF Bits
  <2>4. f[d] = Both(MovInv1(t.iter, {b}))
    BY <2>3
  <2> HIDE DEF f, C, d
  <2>5. Occurs(MovInv1(t.iter, {b}), f[d]) /\ Occurs(MovInv1(t.iter, Not({b})), f[d])
    BY <1>1, <2>4, BothHas
  <2>6. Occurs(MovInv1(t.iter, {b}), Calls(t)) /\ Occurs(MovInv1(t.iter, Not({b})), Calls(t))
    BY <2>1, <2>2, <2>3, <2>5, WalkingHas
  <2>7. b \in {b} /\ b \notin Not({b}) /\ Not({b}) \in SUBSET Bits /\ {b} \in SUBSET Bits
    BY DEF Not
  <2>8. PICK w \in {{b}, Not({b})} : b \in w <=> x
    BY <2>7
  <2> QED
    BY <2>6, <2>7, <2>8
<1> QED
  BY <1>2, <1>3

LEMMA CallsOf32 ==
  ASSUME NEW t \in Trials, t.pat = 2, NEW b \in Bits
  PROVE  /\ Occurs(MovInv32(t.iter, {b}, {0}, b), Calls(t))
         /\ Occurs(MovInv32(t.iter, Not({b}), Not({0}), b), Calls(t))
<1> DEFINE c == MovInv32(t.iter, {b}, {0}, b)
           d == MovInv32(t.iter, Not({b}), Not({0}), b)
           f == [a \in Bits |-> <<MovInv32(t.iter, {a}, {0}, a),
                                  MovInv32(t.iter, Not({a}), Not({0}), a)>>]
           C == Alike("movinv32", t.iter)
<1>1. \A a \in Bits : f[a] \in Some(C)
  BY TrialsAssumption, Patterns32
<1>2. Calls(t) = Walking(f)
  BY DEF Calls
<1>3. f[b] = <<c, d>>
  OBVIOUS
<1> HIDE DEF f, C, c, d
<1>4. Occurs(c, f[b]) /\ Occurs(d, f[b])
  BY <1>3 DEF Occurs
<1>5. Occurs(c, Calls(t)) /\ Occurs(d, Calls(t))
  BY <1>1, <1>2, <1>4, WalkingHas
<1> QED
  BY <1>5 DEF c, d

LEMMA CallsOfRandom ==
  ASSUME NEW t \in Trials, t.pat = 10
  PROVE  \E w \in SUBSET Bits : Occurs(MovInv1(2, w), Calls(t))
<1> DEFINE f == [i \in 1 .. t.iter |-> MovInv1(2, Rand(i))]
<1>0. t.iter \in Nat \ {0} /\ 1 \in 1 .. t.iter
  BY TrialsAssumption
<1>1. Rand(1) \in SUBSET Bits
  BY <1>0, TrialsAssumption
<1>2. Calls(t) = f
  BY DEF Calls
<1>3. f[1] = MovInv1(2, Rand(1)) /\ DOMAIN f = 1 .. t.iter
  BY <1>0
<1> HIDE DEF f
<1>4. Len(f) = t.iter
  BY <1>0, <1>3
<1>5. Occurs(MovInv1(2, Rand(1)), Calls(t))
  BY <1>0, <1>2, <1>3, <1>4 DEF Occurs
<1> QED
  BY <1>1, <1>5

LEMMA CallsOfModulo ==
  ASSUME NEW t \in Trials, t.pat \in {3, 4, 11}, NEW off \in 0 .. ModSz - 1
  PROVE  Opposed(off, IterOf(t), Calls(t))
<1>0. /\ t.iter \in Nat /\ (t.pat = 11 => t.iter > 0) /\ {} \in SUBSET Bits
      /\ \A i \in 1 .. t.iter : Rand(i) \in SUBSET Bits
  BY TrialsAssumption
<1>1. CASE t.pat = 3
  BY <1>1, <1>0, OffsetsHave DEF Calls, IterOf
<1>2. CASE t.pat = 4
  <2> DEFINE f == [b \in Bits |-> AllOffsets(t.iter, {Width - 1 - b})]
             C == Alike("modtst", t.iter)
  <2>1. \A b \in Bits : f[b] \in Some(C)
    BY <1>0, BitsAre, OffsetsIn
  <2>2. Calls(t) = Walking(f) /\ IterOf(t) = t.iter
    BY <1>2 DEF Calls, IterOf
  <2>3. 0 \in Bits
    BY Sizes DEF Bits
  <2>4. Opposed(off, t.iter, f[0])
    BY <1>0, <2>3, BitsAre, OffsetsHave
  <2> HIDE DEF f, C
  <2>5. \A e : Occurs(e, f[0]) => Occurs(e, Calls(t))
    BY <2>1, <2>2, <2>3, WalkingHas
  <2> QED
    BY <2>2, <2>4, <2>5 DEF Opposed
<1>3. CASE t.pat = 11
  <2> DEFINE f == [i \in 1 .. t.iter |-> AllOffsets(2, Rand(i))]
             C == Alike("modtst", 2)
  <2>1. \A i \in 1 .. t.iter : f[i] \in Some(C)
    BY <1>0, OffsetsIn
  <2>2. f = [i \in 1 .. t.iter |-> f[i]]
    OBVIOUS
  <2>3. Calls(t) = FlattenSeq(f) /\ IterOf(t) = 2 /\ t.iter \in Nat \ {0}
    BY <1>0, <1>3 DEF Calls, IterOf
  <2>4. 1 \in 1 .. t.iter
    BY <2>3
  <2>5. Opposed(off, 2, f[1])
    BY <1>0, <2>4, OffsetsHave
  <2> HIDE DEF f, C
  <2>6. ASSUME NEW e, Occurs(e, f[1])
        PROVE  Occurs(e, Calls(t))
    <3>1. PICK n \in Nat \ {0} : n = t.iter
      BY <2>3
    <3>2. /\ f = [i \in 1 .. n |-> f[i]] /\ 1 \in 1 .. n
          /\ \A i \in 1 .. n : f[i] \in Some(C)
      BY <2>1, <2>2, <2>4, <3>1
    <3>3. Occurs(e, FlattenSeq(f))
      BY <2>6, <3>2, FlattenEach
    <3> QED
      BY <2>3, <3>3
  <2> QED
    BY <2>3, <2>5, <2>6 DEF Opposed
<1> QED
  BY <1>1, <1>2, <1>3

LEMMA CallsOfOthers ==
  ASSUME NEW t \in Trials, t.pat \in {6, 9}
  PROVE  Occurs([fn |-> IF t.pat = 6 THEN "addr_tst2" ELSE "movinvr"], Calls(t))
<1>1. CASE t.pat = 6
  BY <1>1 DEF Calls, Occurs
<1>2. CASE t.pat = 9
  <2>0. t.iter \in Nat \ {0} /\ 1 \in 1 .. t.iter
    BY <1>2, TrialsAssumption
  <2>1. Calls(t) = Times(t.iter, <<[fn |-> "movinvr"]>>)
    BY <1>2 DEF Calls
  <2>2. Calls(t) = [m \in 1 .. t.iter |-> [fn |-> "movinvr"]]
    BY <2>0, <2>1, TimesOne
  <2>3. Len(Calls(t)) = t.iter /\ Calls(t)[1] = [fn |-> "movinvr"]
    BY <2>0, <2>2
  <2> QED
    BY <1>2, <2>0, <2>3 DEF Occurs
<1> QED
  BY <1>1, <1>2

(***************************************************************************)
(* The sweeps of a call are among those of the test, one after the other.  *)
(***************************************************************************)
LEMMA SweepsOf ==
  ASSUME NEW t \in Trials, t.pat \notin {5, 7, 8}, NEW c, Occurs(c, Calls(t))
  PROVE  \E n \in Nat : \A m \in 1 .. PerCall(t) :
           /\ n + m \in 1 .. Sweeps(t)
           /\ NthSweep(t, n + m) = Sweep(t, c, Planned(c)[m])
<1> DEFINE N == Len(Calls(t))
           P == PerCall(t)
<1>1. N \in Nat \ {0} /\ P \in Nat \ {0} /\ Sweeps(t) = N * P
  BY CallsPlanned DEF Sweeps
<1>2. PICK i \in 1 .. N : Calls(t)[i] = c
  BY DEF Occurs
<1> DEFINE D == i - 1
           n == P * D
<1>3. D \in Nat /\ D + 1 = i /\ N - i \in Nat /\ N = D + (1 + (N - i))
  BY <1>1, <1>2
<1> HIDE DEF N, P
<1>4. n \in Nat
  <2> HIDE DEF D
  <2> QED
    BY <1>1, <1>3
<1>5. ASSUME NEW m \in 1 .. P
      PROVE  n + m \in 1 .. Sweeps(t) /\ NthSweep(t, n + m) = Sweep(t, c, Planned(c)[m])
  <2> DEFINE e == N - i
             r == m - 1
             x == (n + m) - 1
  <2>1. P * (D + (1 + e)) = P * D + P * (1 + e) /\ P * (1 + e) = P * 1 + P * e
    <3> HIDE DEF D, e
    <3>1. D \in Int /\ 1 \in Int /\ e \in Int /\ 1 + e \in Int /\ P \in Int
      BY <1>1, <1>3 DEF e
    <3> QED
      BY <3>1, Distributes
  <2>2. P * e \in Nat /\ P * 1 = P /\ N * P = P * N
    <3>1. e \in Nat
      BY <1>3
    <3> HIDE DEF e
    <3> QED
      BY <1>1, <3>1
  <2>3. Sweeps(t) = n + (P + P * e)
    <3>1. N = D + (1 + e)
      BY <1>3
    <3> HIDE DEF D, e, N
    <3> QED
      BY <1>1, <2>1, <2>2, <3>1
  <2>4. n + m \in 1 .. Sweeps(t)
    <3> DEFINE y == P * e
    <3>1. y \in Nat /\ Sweeps(t) = n + (P + y)
      BY <2>2, <2>3
    <3> HIDE DEF n, y, e
    <3> QED
      BY <1>1, <1>4, <3>1
  <2>5. r \in 0 .. P - 1 /\ r = x - P * D /\ x \in Int /\ r + 1 = m
    <3> DEFINE z == P * D
    <3>1. z \in Nat /\ x = (z + m) - 1
      BY <1>4
    <3> HIDE DEF z, x, D
    <3>2. r \in 0 .. P - 1 /\ r = x - z /\ x \in Int /\ r + 1 = m
      BY <1>1, <3>1
    <3> QED
      BY <3>2 DEF z
  <2>6. x \div P = D /\ x % P = r
    <3>1. D \in Int
      BY <1>3
    <3> HIDE DEF D, r, x
    <3> QED
      BY <1>1, <2>5, <3>1, UniqueDiv, UniqueMod
  <2>7. NthSweep(t, n + m) = Sweep(t, Calls(t)[D + 1], Planned(Calls(t)[D + 1])[r + 1])
    <3> HIDE DEF D, r, n
    <3> QED
      BY <2>6 DEF NthSweep, P, x
  <2> QED
    BY <1>2, <1>3, <2>4, <2>5, <2>7
<1> QED
  BY <1>4, <1>5 DEF P

(* What a loop over all words reads and writes there                        *)
Runs(n, c, down, reads, writes) ==
  /\ n \in Plan /\ Nth(n).words = Covers(trial) /\ (Nth(n).down <=> down)
  /\ \A a \in Covers(trial) : /\ Nth(n).read[a] = Datum(trial, c, reads, a)
                              /\ Nth(n).write[a] = Datum(trial, c, writes, a)

LEMMA SweepIsWhole ==
  ASSUME NEW t, NEW c, NEW s, ~s.sparse
  PROVE  /\ Sweep(t, c, s).words = Covers(t) /\ (Sweep(t, c, s).down <=> s.down)
         /\ \A a \in Covers(t) : /\ Sweep(t, c, s).read[a] = Datum(t, c, s.reads, a)
                                 /\ Sweep(t, c, s).write[a] = Datum(t, c, s.writes, a)
<1> DEFINE words == {a \in Covers(t) : s.sparse => AtOffset(t, c, a)}
<1>1. words = Covers(t)
  OBVIOUS
<1> HIDE DEF words
<1>2. Sweep(t, c, s) = [words |-> words, down |-> s.down,
                        read |-> [a \in words |-> Datum(t, c, s.reads, a)],
                        write |-> [a \in words |-> Datum(t, c, s.writes, a)]]
  BY DEF Sweep, words
<1> QED
  BY <1>1, <1>2

LEMMA RunsAre ==
  ASSUME NEW n \in Plan, NEW c, NEW s, ~s.sparse, Nth(n) = Sweep(trial, c, s),
         NEW down, s.down <=> down, NEW reads, s.reads = reads, NEW writes, s.writes = writes
  PROVE  Runs(n, c, down, reads, writes)
<1> DEFINE w == Sweep(trial, c, s)
<1>1. /\ w.words = Covers(trial) /\ (w.down <=> s.down)
      /\ \A a \in Covers(trial) : /\ w.read[a] = Datum(trial, c, s.reads, a)
                                  /\ w.write[a] = Datum(trial, c, s.writes, a)
  BY SweepIsWhole
<1>2. Nth(n) = w
  OBVIOUS
<1> HIDE DEF w
<1>3. /\ Nth(n).words = Covers(trial) /\ (Nth(n).down <=> down)
      /\ \A a \in Covers(trial) : /\ Nth(n).read[a] = Datum(trial, c, reads, a)
                                  /\ Nth(n).write[a] = Datum(trial, c, writes, a)
  BY <1>1, <1>2
<1> QED
  BY <1>3, Zenon DEF Runs

LEMMA Elements ==
  ASSUME NEW r, NEW w
  PROVE  /\ ~Up(r, w).sparse /\ ~Up(r, w).down
         /\ Up(r, w).reads = r /\ Up(r, w).writes = w
         /\ ~Downwards(r, w).sparse /\ Downwards(r, w).down
         /\ Downwards(r, w).reads = r /\ Downwards(r, w).writes = w
         /\ Sparse(r, w).sparse /\ ~Sparse(r, w).down
         /\ Sparse(r, w).reads = r /\ Sparse(r, w).writes = w
BY DEF Up, Downwards, Sparse

LEMMA UpRuns ==
  ASSUME NEW n \in Plan, NEW c, NEW r, NEW w
  PROVE  /\ Nth(n) = Sweep(trial, c, Up(r, w)) => Runs(n, c, FALSE, r, w)
         /\ Nth(n) = Sweep(trial, c, Downwards(r, w)) => Runs(n, c, TRUE, r, w)
<1>1. ASSUME Nth(n) = Sweep(trial, c, Up(r, w))
      PROVE  Runs(n, c, FALSE, r, w)
  <2>1. PICK s : s = Up(r, w)
    OBVIOUS
  <2>2. ~s.sparse /\ (s.down <=> FALSE) /\ s.reads = r /\ s.writes = w
    BY <2>1, Elements
  <2>3. Nth(n) = Sweep(trial, c, s)
    BY <1>1, <2>1
  <2> QED
    BY <2>2, <2>3, RunsAre
<1>2. ASSUME Nth(n) = Sweep(trial, c, Downwards(r, w))
      PROVE  Runs(n, c, TRUE, r, w)
  <2>1. PICK s : s = Downwards(r, w)
    OBVIOUS
  <2>2. ~s.sparse /\ (s.down <=> TRUE) /\ s.reads = r /\ s.writes = w
    BY <2>1, Elements
  <2>3. Nth(n) = Sweep(trial, c, s)
    BY <1>2, <2>1
  <2> QED
    BY <2>2, <2>3, RunsAre
<1> QED
  BY <1>1, <1>2

(* A moving inversion writes, inverts upwards and inverts downwards.        *)
LEMMA InversionRuns ==
  ASSUME trial \in Trials, trial.pat \in {0, 1, 2, 10}, NEW c, Occurs(c, Calls(trial)),
         c.fn \in {"movinv1", "movinv32"}, c.iter = IterOf(trial)
  PROVE  \E n \in Plan :
           /\ Runs(n, c, FALSE, "nothing", "value")
           /\ Runs(n + 1, c, FALSE, "value", "complement")
           /\ Runs(n + 2, c, TRUE, "complement", "value")
           /\ c.iter > 1 => Runs(n + 3, c, FALSE, "value", "complement")
<1> DEFINE i == c.iter
           x == Up("value", "complement")
           y == Downwards("complement", "value")
<1>0. i \in Nat \ {0} /\ trial.pat \notin {5, 7, 8}
  BY TrialsAssumption, FaultsAssumption DEF IterOf
<1>1. PerCall(trial) = 1 + 2 * i
  BY <1>0, LoopsCounted DEF Length, Fn
<1>2. PICK b \in Nat : \A m \in 1 .. PerCall(trial) :
        /\ b + m \in 1 .. Sweeps(trial)
        /\ NthSweep(trial, b + m) = Sweep(trial, c, Planned(c)[m])
  BY <1>0, SweepsOf
<1>3. Planned(c) = <<Up("nothing", "value")>> \o Times(i, <<x, y>>)
  BY DEF Planned
<1> HIDE DEF i, x, y
<1>4. WithPairs(Planned(c), i, Up("nothing", "value"), x, y)
  BY <1>0, <1>3, OneAndPairs
<1>5. /\ Planned(c)[1] = Up("nothing", "value")
      /\ \A m \in 1 .. 2 * i : Planned(c)[1 + m] = IF m % 2 = 1 THEN x ELSE y
  BY <1>4 DEF WithPairs
<1>6. /\ 1 \in 1 .. 1 + 2 * i /\ 2 \in 1 .. 1 + 2 * i /\ 3 \in 1 .. 1 + 2 * i
      /\ 1 \in 1 .. 2 * i /\ 2 \in 1 .. 2 * i
      /\ i > 1 => 4 \in 1 .. 1 + 2 * i /\ 3 \in 1 .. 2 * i
  BY <1>0
<1>7. 1 + 1 = 2 /\ 1 + 2 = 3 /\ 1 + 3 = 4 /\ 1 % 2 = 1 /\ 2 % 2 # 1 /\ 3 % 2 = 1
  OBVIOUS
<1>8. Planned(c)[2] = x /\ Planned(c)[3] = y /\ (i > 1 => Planned(c)[4] = x)
  BY <1>5, <1>6, <1>7
<1> DEFINE n == b + 1
<1>9. n + 1 = b + 2 /\ n + 2 = b + 3 /\ n + 3 = b + 4
  OBVIOUS
<1> HIDE DEF n
<1>10. /\ n \in Plan /\ Nth(n) = Sweep(trial, c, Up("nothing", "value"))
       /\ n + 1 \in Plan /\ Nth(n + 1) = Sweep(trial, c, x)
       /\ n + 2 \in Plan /\ Nth(n + 2) = Sweep(trial, c, y)
       /\ i > 1 => n + 3 \in Plan /\ Nth(n + 3) = Sweep(trial, c, x)
  BY <1>1, <1>2, <1>5, <1>6, <1>8, <1>9 DEF Plan, Nth, n
<1>11. Runs(n, c, FALSE, "nothing", "value")
  BY <1>10, UpRuns
<1>12. Runs(n + 1, c, FALSE, "value", "complement")
  BY <1>10, UpRuns DEF x
<1>13. Runs(n + 2, c, TRUE, "complement", "value")
  BY <1>10, UpRuns DEF y
<1>14. i > 1 => Runs(n + 3, c, FALSE, "value", "complement")
  BY <1>10, UpRuns DEF x
<1> QED
  BY <1>10, <1>11, <1>12, <1>13, <1>14 DEF i

(* The own-address test writes and reads; random numbers are written, read  *)
(* and inverted, and read again.                                            *)
LEMMA OtherRuns ==
  ASSUME trial \in Trials, trial.pat \in {6, 9}
  PROVE  \E c, n :
           /\ c.fn = (IF trial.pat = 6 THEN "addr_tst2" ELSE "movinvr")
           /\ Runs(n, c, FALSE, "nothing", "value")
           /\ trial.pat = 6 => Runs(n + 1, c, FALSE, "value", "nothing")
           /\ trial.pat = 9 =>
                /\ Runs(n + 1, c, FALSE, "value", "complement")
                /\ Runs(n + 2, c, FALSE, "complement", "value")
<1> DEFINE c == [fn |-> IF trial.pat = 6 THEN "addr_tst2" ELSE "movinvr"]
<1>0. trial.pat \notin {5, 7, 8}
  OBVIOUS
<1>1. PerCall(trial) = IF trial.pat = 6 THEN 2 ELSE 3
  BY <1>0, LoopsCounted DEF Length, Fn
<1>2. PICK b \in Nat : \A m \in 1 .. PerCall(trial) :
        /\ b + m \in 1 .. Sweeps(trial)
        /\ NthSweep(trial, b + m) = Sweep(trial, c, Planned(c)[m])
  <2>1. Occurs(c, Calls(trial))
    BY CallsOfOthers
  <2> HIDE DEF c
  <2> QED
    BY <1>0, <2>1, SweepsOf
<1>3. /\ c.fn = IF trial.pat = 6 THEN "addr_tst2" ELSE "movinvr"
  OBVIOUS
<1> HIDE DEF c
<1>4. /\ trial.pat = 6 => Planned(c) = <<Up("nothing", "value"), Up("value", "nothing")>>
      /\ trial.pat = 9 => Planned(c) = <<Up("nothing", "value"), Up("value", "complement"),
                                         Up("complement", "value")>>
  BY <1>3 DEF Planned
<1> DEFINE n == b + 1
<1>5. /\ n + 1 = b + 2 /\ n + 2 = b + 3 /\ 1 \in 1 .. 2 /\ 2 \in 1 .. 2
      /\ 1 \in 1 .. 3 /\ 2 \in 1 .. 3 /\ 3 \in 1 .. 3
  OBVIOUS
<1> HIDE DEF n
<1>6. /\ Planned(c)[1] = Up("nothing", "value")
      /\ trial.pat = 6 => Planned(c)[2] = Up("value", "nothing")
      /\ trial.pat = 9 => Planned(c)[2] = Up("value", "complement")
                          /\ Planned(c)[3] = Up("complement", "value")
  BY <1>4
<1>7. /\ n \in Plan /\ Nth(n) = Sweep(trial, c, Up("nothing", "value"))
      /\ trial.pat = 6 => n + 1 \in Plan /\ Nth(n + 1) = Sweep(trial, c, Up("value", "nothing"))
      /\ trial.pat = 9 =>
           /\ n + 1 \in Plan /\ Nth(n + 1) = Sweep(trial, c, Up("value", "complement"))
           /\ n + 2 \in Plan /\ Nth(n + 2) = Sweep(trial, c, Up("complement", "value"))
  BY <1>1, <1>2, <1>5, <1>6 DEF Plan, Nth, n
<1>8. Runs(n, c, FALSE, "nothing", "value")
  BY <1>7, UpRuns
<1>9. trial.pat = 6 => Runs(n + 1, c, FALSE, "value", "nothing")
  BY <1>7, UpRuns
<1>10. trial.pat = 9 => /\ Runs(n + 1, c, FALSE, "value", "complement")
                        /\ Runs(n + 2, c, FALSE, "complement", "value")
  BY <1>7, UpRuns
<1> QED
  BY <1>3, <1>8, <1>9, <1>10

(* The last loop of modtst() reads the words at its offset.                 *)
LEMMA ModuloRuns ==
  ASSUME trial \in Trials, trial.pat \in {3, 4, 11}, NEW c, Occurs(c, Calls(trial)),
         c.fn = "modtst", c.iter = IterOf(trial), NEW a \in Covers(trial),
         AtOffset(trial, c, a)
  PROVE  \E n \in Plan : a \in Nth(n).words /\ Nth(n).read[a] = Value(trial, c, a)
<1> DEFINE i == c.iter
           s == Sparse("value", "nothing")
<1>0. i \in Nat /\ trial.pat \notin {5, 7, 8}
  BY TrialsAssumption DEF IterOf
<1>1. PerCall(trial) = i + 2
  BY <1>0, LoopsCounted DEF Length, Fn
<1>2. PICK b \in Nat : \A m \in 1 .. PerCall(trial) :
        /\ b + m \in 1 .. Sweeps(trial)
        /\ NthSweep(trial, b + m) = Sweep(trial, c, Planned(c)[m])
  BY <1>0, SweepsOf
<1>3. Planned(c) = <<Sparse("nothing", "value")>> \o Times(i, <<Up("nothing", "rest")>>)
                   \o <<s>>
  BY DEF Planned
<1> HIDE DEF i, s
<1>4. WithMiddle(Planned(c), i, Sparse("nothing", "value"), Up("nothing", "rest"), s)
  BY <1>0, <1>3, OneSomeOne
<1>5. Planned(c)[i + 2] = s
  BY <1>4 DEF WithMiddle
<1>6. i + 2 \in 1 .. i + 2
  BY <1>0
<1> DEFINE n == b + (i + 2)
<1>7. n \in Plan /\ Nth(n) = Sweep(trial, c, s)
  <2>1. n \in 1 .. Sweeps(trial) /\ NthSweep(trial, n) = Sweep(trial, c, Planned(c)[i + 2])
    BY <1>1, <1>2, <1>6
  <2> HIDE DEF n
  <2> QED
    BY <1>5, <2>1 DEF Plan, Nth
<1> HIDE DEF n
<1> DEFINE words == {d \in Covers(trial) : s.sparse => AtOffset(trial, c, d)}
<1>8. a \in words
  OBVIOUS
<1>9. Sweep(trial, c, s) = [words |-> words, down |-> s.down,
                            read |-> [d \in words |-> Datum(trial, c, s.reads, d)],
                            write |-> [d \in words |-> Datum(trial, c, s.writes, d)]]
  BY DEF Sweep
<1> HIDE DEF words
<1>10. Nth(n).words = words /\ Nth(n).read[a] = Datum(trial, c, s.reads, a)
  BY <1>7, <1>8, <1>9
<1>11. s.reads = "value"
  BY Elements DEF s
<1> QED
  BY <1>7, <1>8, <1>10, <1>11, DataAre

LEMMA OffsetMod ==
  ASSUME trial \in Trials, NEW a \in Covers(trial), NEW m \in Nat \ {0}
  PROVE  Offset(trial, a) % m \in 0 .. m - 1
<1>1. PICK i \in 1 .. Len(trial.map) : a \in WordsOf(trial, i)
  BY CoversIs
<1>2. PICK n \in Int : n = Offset(trial, a)
  BY <1>1, OffsetIs
<1>3. PICK d \in Int : n % m \in 0 .. m - 1 /\ n % m = n - m * d
  BY DivMod
<1> QED
  BY <1>2, <1>3

(* What a word holds is a word, and so is its complement.                   *)
LEMMA ValueTyped ==
  ASSUME trial \in Trials, NEW c, NEW a \in Covers(trial),
         \/ c.fn \in {"movinv1", "movinv32", "modtst"} /\ c.p1 \in SUBSET Bits
         \/ c.fn = "movinvr"
  PROVE  Value(trial, c, a) \in SUBSET Bits
<1>1. PICK i \in 1 .. Len(trial.map) : a \in WordsOf(trial, i)
  BY CoversIs
<1>2. CASE c.fn = "movinv32" /\ c.p1 \in SUBSET Bits
  BY Sizes, OffsetMod, <1>2, RolType DEF Value
<1>3. CASE c.fn = "movinvr"
  BY <1>1, BeforeStep, <1>3, TestsAssumption DEF Value
<1>4. CASE c.fn \in {"movinv1", "modtst"} /\ c.p1 \in SUBSET Bits
  BY <1>4 DEF Value
<1> QED
  BY <1>2, <1>3, <1>4

LEMMA Complements ==
  ASSUME NEW w \in SUBSET Bits
  PROVE  /\ w # NoWord /\ Not(w) # NoWord /\ Not(w) # w /\ Not(w) \in SUBSET Bits
         /\ \A b \in Bits : b \in Not(w) <=> b \notin w
<1>1. -1 \notin Bits /\ 0 \in Bits
  BY Sizes DEF Bits
<1> QED
  BY <1>1 DEF NoWord, Not

(* The bit that rotating moves to b                                         *)
LEMMA RolHas ==
  ASSUME NEW b \in Bits, NEW w \in SUBSET Bits, NEW n \in Int
  PROVE  (b - n) % Width \in Bits /\ (b \in Rol(w, n) <=> (b - n) % Width \in w)
<1> DEFINE e == (b - n) % Width
<1>0. b \in 0 .. Width - 1 /\ b \in Int /\ b - n \in Int /\ (b - n) + n = b /\ -n \in Int
  BY DEF Bits
<1>1. e \in Bits
  BY <1>0, Sizes, DivMod DEF Bits
<1>2. (e + n) % Width = b
  BY <1>0, Sizes, ModOfSum, ModSmall
<1>3. ASSUME NEW d \in Bits, (d + n) % Width = b
      PROVE  d = e
  <2>1. d \in 0 .. Width - 1 /\ d + n \in Int /\ (d + n) + (-n) = d
    BY DEF Bits
  <2>2. (((d + n) % Width) + (-n)) % Width = ((d + n) + (-n)) % Width
    <3>1. PICK x \in Int, y \in Int : x = d + n /\ y = -n
      BY <1>0, <2>1
    <3>2. ((x % Width) + y) % Width = (x + y) % Width
      BY Sizes, ModOfSum
    <3> QED
      BY <3>1, <3>2
  <2>3. d % Width = d
    BY <2>1, Sizes, ModSmall
  <2>4. b + (-n) = b - n
    BY <1>0
  <2> QED
    BY <1>3, <2>1, <2>2, <2>3, <2>4
<1> HIDE DEF e
<1>4. b \in Rol(w, n) <=> \E d \in w : (d + n) % Width = b
  BY DEF Rol
<1>5. b \in Rol(w, n) <=> e \in w
  BY <1>2, <1>3, <1>4
<1> QED
  BY <1>1, <1>5 DEF e

(* There is a call that writes x to the bit b of two words.                 *)
LEMMA CallFor32 ==
  ASSUME trial \in Trials, trial.pat = 2, NEW b \in Bits, NEW x \in BOOLEAN,
         NEW a1 \in Covers(trial), NEW a2 \in Covers(trial)
  PROVE  \E c : /\ Occurs(c, Calls(trial)) /\ c.fn = "movinv32" /\ c.iter = IterOf(trial)
                /\ c.p1 \in SUBSET Bits
                /\ \A a \in {a1, a2} : b \in Value(trial, c, a) <=> x
<1> DEFINE n(a) == Offset(trial, a) % Width
           e(a) == (b - n(a)) % Width
<1>1. ASSUME NEW a \in {a1, a2}
      PROVE  n(a) \in Int /\ e(a) \in Bits
  <2>2. n(a) \in Int
    BY Sizes, OffsetMod
  <2> HIDE DEF n
  <2>3. {} \in SUBSET Bits
    OBVIOUS
  <2> QED
    BY <2>2, <2>3, RolHas
<1>2. PICK d \in Bits : d # e(a1) /\ d # e(a2)
  <2>1. 0 \in Bits /\ 1 \in Bits /\ 2 \in Bits
    BY Sizes DEF Bits
  <2>2. 0 # 1 /\ 0 # 2 /\ 1 # 2
    OBVIOUS
  <2> HIDE DEF e, n
  <2> QED
    BY <2>1, <2>2, Zenon
<1>3. {d} \in SUBSET Bits /\ Not({d}) \in SUBSET Bits
  BY DEF Not
<1>4. ASSUME NEW w \in SUBSET Bits, NEW c, c.fn = "movinv32", c.p1 = w, NEW a \in {a1, a2}
      PROVE  b \in Value(trial, c, a) <=> e(a) \in w
  <2>1. Value(trial, c, a) = Rol(w, n(a))
    BY <1>4 DEF Value
  <2>2. n(a) \in Int
    BY <1>1
  <2> HIDE DEF n
  <2> QED
    BY <2>1, <2>2, RolHas
<1>5. \A a \in {a1, a2} : e(a) \notin {d} /\ e(a) \in Not({d})
  BY <1>1, <1>2 DEF Not
<1> HIDE DEF e, n
<1>6. /\ Occurs(MovInv32(trial.iter, {d}, {0}, d), Calls(trial))
      /\ Occurs(MovInv32(trial.iter, Not({d}), Not({0}), d), Calls(trial))
  BY CallsOf32
<1>7. IterOf(trial) = trial.iter
  BY DEF IterOf
<1>8. CASE ~x
  <2>1. PICK c : c = MovInv32(trial.iter, {d}, {0}, d)
    OBVIOUS
  <2>2. c.fn = "movinv32" /\ c.iter = trial.iter /\ c.p1 = {d}
    BY <2>1 DEF MovInv32
  <2>3. \A a \in {a1, a2} : b \in Value(trial, c, a) <=> x
    BY <1>3, <1>4, <1>5, <1>8, <2>2
  <2> QED
    BY <1>3, <1>6, <1>7, <2>1, <2>2, <2>3
<1>9. CASE x
  <2>1. PICK c : c = MovInv32(trial.iter, Not({d}), Not({0}), d)
    OBVIOUS
  <2>2. c.fn = "movinv32" /\ c.iter = trial.iter /\ c.p1 = Not({d})
    BY <2>1 DEF MovInv32
  <2>3. \A a \in {a1, a2} : b \in Value(trial, c, a) <=> x
    BY <1>3, <1>4, <1>5, <1>9, <2>2
  <2> QED
    BY <1>3, <1>6, <1>7, <2>1, <2>2, <2>3
<1> QED
  BY <1>8, <1>9

(* A call for a moving inversion; what it writes to the bit b of two words   *)
Inversion(c) ==
  /\ Occurs(c, Calls(trial)) /\ c.fn \in {"movinv1", "movinv32"} /\ c.iter = IterOf(trial)
  /\ \A a \in Covers(trial) : Value(trial, c, a) \in SUBSET Bits
WritesAlike(c, b, x, a1, a2) ==
  \E y \in BOOLEAN : /\ \A a \in {a1, a2} : b \in Value(trial, c, a) <=> y
                     /\ trial.pat # 10 => (y <=> x)

LEMMA CallForInversion ==
  ASSUME trial \in Trials, trial.pat \in {0, 1, 2, 10}, NEW b \in Bits, NEW x \in BOOLEAN,
         NEW a1 \in Covers(trial), NEW a2 \in Covers(trial)
  PROVE  \E c : Inversion(c) /\ WritesAlike(c, b, x, a1, a2)
<1>1. CASE trial.pat \in {0, 1}
  <2>1. PICK w \in SUBSET Bits : (b \in w <=> x) /\ Occurs(MovInv1(trial.iter, w), Calls(trial))
    BY <1>1, CallsOfInversion
  <2>2. PICK c : c = MovInv1(trial.iter, w)
    OBVIOUS
  <2>3. c.fn = "movinv1" /\ c.p1 = w /\ c.iter = IterOf(trial)
    BY <1>1, <2>2 DEF MovInv1, IterOf
  <2>4. \A a : Value(trial, c, a) = w
    BY <2>3 DEF Value
  <2>5. Inversion(c)
    BY <2>1, <2>2, <2>3, <2>4 DEF Inversion
  <2>6. WritesAlike(c, b, x, a1, a2)
    BY <2>1, <2>4 DEF WritesAlike
  <2> QED
    BY <2>5, <2>6
<1>2. CASE trial.pat = 2
  <2>1. PICK c : /\ Occurs(c, Calls(trial)) /\ c.fn = "movinv32" /\ c.iter = IterOf(trial)
                 /\ c.p1 \in SUBSET Bits
                 /\ \A a \in {a1, a2} : b \in Value(trial, c, a) <=> x
    BY <1>2, CallFor32
  <2>2. \A a \in Covers(trial) : Value(trial, c, a) \in SUBSET Bits
    BY <2>1, ValueTyped
  <2>3. Inversion(c)
    BY <2>1, <2>2 DEF Inversion
  <2>4. WritesAlike(c, b, x, a1, a2)
    BY <2>1 DEF WritesAlike
  <2> QED
    BY <2>3, <2>4
<1>3. CASE trial.pat = 10
  <2>1. PICK w \in SUBSET Bits : Occurs(MovInv1(2, w), Calls(trial))
    BY <1>3, CallsOfRandom
  <2>2. PICK c : c = MovInv1(2, w)
    OBVIOUS
  <2>3. c.fn = "movinv1" /\ c.p1 = w /\ c.iter = IterOf(trial)
    BY <1>3, <2>2 DEF MovInv1, IterOf
  <2>4. \A a : Value(trial, c, a) = w
    BY <2>3 DEF Value
  <2>5. PICK y \in BOOLEAN : y <=> b \in w
    OBVIOUS
  <2>6. Inversion(c)
    BY <2>1, <2>2, <2>3, <2>4 DEF Inversion
  <2>7. WritesAlike(c, b, x, a1, a2)
    BY <1>3, <2>4, <2>5 DEF WritesAlike
  <2> QED
    BY <2>6, <2>7
<1> QED
  BY <1>1, <1>2, <1>3

LEMMA InversionCall ==
  ASSUME trial \in Trials, trial.pat \in {0, 1, 2, 10}
  PROVE  \E c : Inversion(c)
<1>1. 0 \in Bits /\ TRUE \in BOOLEAN
  BY Sizes DEF Bits
<1>2. PICK a : a \in Covers(trial)
  <2>1. 1 \in 1 .. Len(trial.map)
    BY Segments
  <2>2. trial.map[1].start \in WordsOf(trial, 1)
    BY <2>1, SegmentOrder DEF WordsOf
  <2> QED
    BY <2>1, <2>2, CoversIs
<1> QED
  BY <1>1, <1>2, CallForInversion

(***************************************************************************)
(* There are sweeps that show a fault that the test is made for.           *)
(***************************************************************************)
LEMMA RunReads ==
  ASSUME NEW n, NEW c, NEW down, NEW reads, NEW writes, Runs(n, c, down, reads, writes),
         NEW a \in Covers(trial)
  PROVE  /\ n \in Plan /\ a \in Nth(n).words
         /\ reads = "value" => Nth(n).read[a] = Value(trial, c, a)
         /\ reads = "complement" => Nth(n).read[a] = Not(Value(trial, c, a))
         /\ writes = "value" => Nth(n).write[a] = Value(trial, c, a)
         /\ writes = "complement" => Nth(n).write[a] = Not(Value(trial, c, a))
         /\ writes = "nothing" => Nth(n).write[a] = NoWord
BY DataAre DEF Runs

LEMMA TwiceShows ==
  ASSUME trial \in Trials, trial.fault.kind = "stuck", NEW c, NEW n, NEW down, NEW w1, NEW w2,
         Runs(n, c, FALSE, "value", w1), Runs(n + 1, c, down, "complement", w2),
         Value(trial, c, Victim) \in SUBSET Bits
  PROVE  \E m \in Plan : Shows(m)
<1> DEFINE v == Value(trial, c, Victim)
<1>0. Victim \in Covers(trial) /\ trial.fault.bit \in Bits
  BY FaultIs
<1>1. /\ n \in Plan /\ Victim \in Nth(n).words /\ Nth(n).read[Victim] = v
      /\ n + 1 \in Plan /\ Victim \in Nth(n + 1).words /\ Nth(n + 1).read[Victim] = Not(v)
  BY <1>0, RunReads
<1> HIDE DEF v
<1>2. v # NoWord /\ Not(v) # NoWord /\ (HasBit(Not(v)) <=> ~HasBit(v))
  BY <1>0, Complements DEF HasBit, v
<1> QED
  BY <1>1, <1>2 DEF Shows

LEMMA StuckShows ==
  ASSUME trial \in Trials, trial.fault.kind = "stuck",
         trial.pat \in {0, 1, 2, 3, 4, 9, 10, 11}
  PROVE  \E m \in Plan : Shows(m)
<1>0. Victim \in Covers(trial) /\ trial.fault.bit \in Bits
  BY FaultIs
<1>1. CASE trial.pat \in {0, 1, 2, 10}
  <2>1. PICK c : Inversion(c)
    BY <1>1, InversionCall
  <2>2. PICK n \in Plan : /\ Runs(n + 1, c, FALSE, "value", "complement")
                          /\ Runs(n + 2, c, TRUE, "complement", "value")
    BY <1>1, <2>1, InversionRuns DEF Inversion
  <2>3. PICK m : m = n + 1
    OBVIOUS
  <2>4. n + 2 = m + 1
    BY <2>3 DEF Plan
  <2>5. Value(trial, c, Victim) \in SUBSET Bits
    BY <1>0, <2>1 DEF Inversion
  <2> QED
    BY <2>2, <2>3, <2>4, <2>5, TwiceShows
<1>2. CASE trial.pat = 9
  <2>1. PICK c, n : /\ c.fn = "movinvr" /\ Runs(n, c, FALSE, "nothing", "value")
                    /\ Runs(n + 1, c, FALSE, "value", "complement")
                    /\ Runs(n + 2, c, FALSE, "complement", "value")
    <3>1. PICK c, n :
            /\ c.fn = (IF trial.pat = 6 THEN "addr_tst2" ELSE "movinvr")
            /\ Runs(n, c, FALSE, "nothing", "value")
            /\ trial.pat = 6 => Runs(n + 1, c, FALSE, "value", "nothing")
            /\ trial.pat = 9 =>
                 /\ Runs(n + 1, c, FALSE, "value", "complement")
                 /\ Runs(n + 2, c, FALSE, "complement", "value")
      BY <1>2, OtherRuns, Zenon
    <3>2. c.fn = "movinvr"
      BY <1>2, <3>1
    <3> QED
      BY <1>2, <3>1, <3>2
  <2>2. Value(trial, c, Victim) \in SUBSET Bits
    BY <1>0, <2>1, ValueTyped
  <2>3. PICK m : m = n + 1
    OBVIOUS
  <2>4. n + 2 = m + 1
    BY <2>1, <2>3 DEF Runs, Plan
  <2> QED
    BY <2>1, <2>2, <2>3, <2>4, TwiceShows
<1>3. CASE trial.pat \in {3, 4, 11}
  <2> DEFINE off == Offset(trial, Victim) % ModSz
  <2>1. off \in 0 .. ModSz - 1
    BY <1>0, Sizes, OffsetMod
  <2>0. \A c : c.off = off => AtOffset(trial, c, Victim)
    BY DEF AtOffset
  <2> HIDE DEF off
  <2>2. PICK w \in SUBSET Bits :
          /\ Occurs(ModTst(off, IterOf(trial), w), Calls(trial))
          /\ Occurs(ModTst(off, IterOf(trial), Not(w)), Calls(trial))
    BY <1>3, <2>1, CallsOfModulo DEF Opposed
  <2>3. /\ w # NoWord /\ Not(w) # NoWord /\ Not(w) \in SUBSET Bits
        /\ HasBit(Not(w)) <=> ~HasBit(w)
    BY <1>0, Complements DEF HasBit
  <2>4. PICK v \in {w, Not(w)} : ~(HasBit(v) <=> IsOne)
    BY <2>3
  <2>5. PICK c : c = ModTst(off, IterOf(trial), v)
    OBVIOUS
  <2>6. /\ c.fn = "modtst" /\ c.iter = IterOf(trial) /\ c.off = off /\ c.p1 = v
    BY <2>5 DEF ModTst
  <2>7. Occurs(c, Calls(trial)) /\ v # NoWord
    BY <2>2, <2>3, <2>4, <2>5
  <2>8. AtOffset(trial, c, Victim)
    BY <2>0, <2>6
  <2>9. PICK n \in Plan : Victim \in Nth(n).words /\ Nth(n).read[Victim] = Value(trial, c, Victim)
    BY <1>0, <1>3, <2>6, <2>7, <2>8, ModuloRuns
  <2>10. Value(trial, c, Victim) = v
    BY <2>6 DEF Value
  <2> QED
    BY <2>4, <2>7, <2>9, <2>10 DEF Shows
<1> QED
  BY <1>1, <1>2, <1>3

LEMMA ClashIs ==
  ASSUME trial \in Trials, trial.fault.kind = "alias", NEW c, NEW n,
         Runs(n, c, FALSE, "nothing", "value"), NEW w, Runs(n + 1, c, FALSE, "value", w),
         \/ /\ w = "complement"
            /\ \A a \in Covers(trial) : Value(trial, c, a) \in SUBSET Bits
         \/ w = "nothing" /\ c.fn = "addr_tst2"
  PROVE  Clash(n)
<1>0. Lower \in Covers(trial) /\ Upper \in Covers(trial) /\ Lower # Upper
      /\ Lower \in 0 .. Space - 1 /\ Upper \in 0 .. Space - 1
  BY FaultIs DEF Lower, Upper
<1>1. n + 1 \in Plan /\ ~Nth(n).down /\ ~Nth(n + 1).down
  BY DEF Runs
<1>2. ASSUME NEW a \in {Lower, Upper}
      PROVE  /\ a \in Nth(n).words /\ a \in Nth(n + 1).words
             /\ Nth(n).write[a] = Value(trial, c, a)
             /\ Nth(n + 1).read[a] = Value(trial, c, a)
             /\ w = "complement" => Nth(n + 1).write[a] = Not(Value(trial, c, a))
             /\ w = "nothing" => Nth(n + 1).write[a] = NoWord
  <2>1. a \in Covers(trial)
    BY <1>0
  <2> QED
    BY <2>1, RunReads
<1>3. CASE w = "complement" /\ \A a \in Covers(trial) : Value(trial, c, a) \in SUBSET Bits
  <2>1. ASSUME NEW a \in {Lower, Upper}
        PROVE  /\ Value(trial, c, a) # NoWord /\ Not(Value(trial, c, a)) # NoWord
               /\ Not(Value(trial, c, a)) # Value(trial, c, a)
    BY <1>0, <1>3, Complements, <2>1
  <2> QED
    BY <1>1, <1>2, <1>3, <2>1 DEF Clash
<1>4. CASE w = "nothing" /\ c.fn = "addr_tst2"
  <2>1. \A a : Value(trial, c, a) = {Width + a}
    BY <1>4 DEF Value, Own
  <2>2. ASSUME NEW a \in 0 .. Space - 1
        PROVE  {Width + a} # NoWord
    <3>1. Width + a # -1
      BY Sizes
    <3> QED
      BY <3>1 DEF NoWord
  <2>3. {Width + Lower} # {Width + Upper}
    BY <1>0, Sizes
  <2> QED
    BY <1>0, <1>1, <1>2, <1>4, <2>1, <2>2, <2>3 DEF Clash
<1> QED
  BY <1>3, <1>4

LEMMA Clashes ==
  ASSUME trial \in Trials, trial.fault.kind = "alias", trial.pat \in {0, 1, 2, 6, 10}
  PROVE  \E n \in Plan : Clash(n)
<1>1. CASE trial.pat = 6
  <2>1. PICK c, n : /\ c.fn = "addr_tst2" /\ Runs(n, c, FALSE, "nothing", "value")
                    /\ Runs(n + 1, c, FALSE, "value", "nothing")
    BY <1>1, OtherRuns
  <2>2. Clash(n)
    BY <2>1, ClashIs
  <2> QED
    BY <2>1, <2>2 DEF Runs, Clash
<1>2. CASE trial.pat \in {0, 1, 2, 10}
  <2>1. PICK c : Inversion(c)
    BY <1>2, InversionCall
  <2>2. PICK n \in Plan : /\ Runs(n, c, FALSE, "nothing", "value")
                          /\ Runs(n + 1, c, FALSE, "value", "complement")
    BY <1>2, <2>1, InversionRuns DEF Inversion
  <2>3. Clash(n)
    BY <2>1, <2>2, ClashIs DEF Inversion
  <2> QED
    BY <2>3
<1> QED
  BY <1>1, <1>2

(* A moving inversion of the bit that is coupled, which shows in the end    *)
LEMMA Inversions ==
  ASSUME trial \in Trials, trial.fault.kind = "couple", trial.pat \in {0, 1, 2, 10}
  PROVE  \E n \in Plan, x \in BOOLEAN :
           /\ Inverts(n, x)
           /\ ~(x <=> IsOne) \/ InvertsTwice(n, x)
<1> DEFINE b == trial.fault.bit
<1>0. /\ Victim \in Covers(trial) /\ Other \in Covers(trial) /\ b \in Bits
  BY FaultIs
<1>1. PICK y \in BOOLEAN : ~(y <=> IsOne)
  OBVIOUS
<1>2. PICK c : Inversion(c) /\ WritesAlike(c, b, y, Victim, Other)
  BY <1>0, CallForInversion
<1>3. PICK x \in BOOLEAN : /\ \A a \in {Victim, Other} : b \in Value(trial, c, a) <=> x
                           /\ trial.pat # 10 => (x <=> y)
  BY <1>2 DEF WritesAlike
<1>4. PICK n \in Plan : /\ Runs(n, c, FALSE, "nothing", "value")
                        /\ Runs(n + 1, c, FALSE, "value", "complement")
                        /\ Runs(n + 2, c, TRUE, "complement", "value")
                        /\ c.iter > 1 => Runs(n + 3, c, FALSE, "value", "complement")
  BY <1>2, InversionRuns DEF Inversion
<1>5. ASSUME NEW a \in {Victim, Other}
      PROVE  LET v == Value(trial, c, a)
             IN  /\ a \in Covers(trial) /\ v # NoWord /\ Not(v) # NoWord
                 /\ (HasBit(v) <=> x) /\ (HasBit(Not(v)) <=> ~x)
  BY <1>0, <1>2, <1>3, Complements, <1>5 DEF Inversion, HasBit
<1>6. \A m, down, reads, writes :
        Runs(m, c, down, reads, writes) =>
          /\ m \in Plan /\ (Nth(m).down <=> down)
          /\ writes = "value" => Writes(m, x)
          /\ writes = "complement" => Writes(m, ~x)
          /\ reads = "value" => Reads(m, x)
          /\ reads = "complement" => Reads(m, ~x)
  <2> SUFFICES ASSUME NEW m, NEW down, NEW reads, NEW writes,
                      Runs(m, c, down, reads, writes)
               PROVE  /\ m \in Plan /\ (Nth(m).down <=> down)
                      /\ writes = "value" => Writes(m, x)
                      /\ writes = "complement" => Writes(m, ~x)
                      /\ reads = "value" => Reads(m, x)
                      /\ reads = "complement" => Reads(m, ~x)
    OBVIOUS
  <2>1. m \in Plan /\ (Nth(m).down <=> down)
    BY DEF Runs
  <2>2. ASSUME NEW a \in {Victim, Other}
        PROVE  /\ a \in Nth(m).words
               /\ reads = "value" => Nth(m).read[a] = Value(trial, c, a)
               /\ reads = "complement" => Nth(m).read[a] = Not(Value(trial, c, a))
               /\ writes = "value" => Nth(m).write[a] = Value(trial, c, a)
               /\ writes = "complement" => Nth(m).write[a] = Not(Value(trial, c, a))
    BY <1>5, RunReads, <2>2
  <2>3. writes = "value" => Writes(m, x)
    BY <1>5, <2>2 DEF Writes
  <2>4. writes = "complement" => Writes(m, ~x)
    BY <1>5, <2>2 DEF Writes
  <2>5. reads = "value" => Reads(m, x)
    BY <1>5, <2>2 DEF Reads
  <2>6. reads = "complement" => Reads(m, ~x)
    BY <1>5, <2>2 DEF Reads
  <2> QED
    BY <2>1, <2>3, <2>4, <2>5, <2>6
<1>7. Inverts(n, x)
  BY <1>4, <1>6 DEF Inverts
<1>8. c.iter > 1 => InvertsTwice(n, x)
  BY <1>4, <1>6, <1>7 DEF InvertsTwice
<1>9. trial.pat = 10 => c.iter > 1
  BY <1>2 DEF Inversion, IterOf
<1> QED
  BY <1>1, <1>3, <1>7, <1>8, <1>9

(***************************************************************************)
(* A march that has come to its end has found its fault.                   *)
(***************************************************************************)
LEMMA MarchFinds ==
  ASSUME Shape, FInv, IsMarch, pc = "done", ~bail,
         trial.fault.kind \in MadeFor(trial.pat)
  PROVE  reported # {}
<1>0. /\ trial \in Trials /\ sweep = Sweeps(trial) + 1 /\ Sweeps(trial) \in Nat
      /\ StuckFound /\ AliasFound /\ CoupledFound
      /\ trial.pat \in 0 .. 11 /\ trial.pat \notin {5, 7, 8}
  BY SweepsTyped, TrialsAssumption DEF Shape, FInv, Swept, IsMarch
<1>1. \A n \in Plan : \A a : Had(n, a)
  BY <1>0 DEF Plan, Had
<1>2. \/ trial.fault.kind = "stuck" /\ trial.pat \in {0, 1, 2, 3, 4, 9, 10, 11}
      \/ trial.fault.kind = "alias" /\ trial.pat \in {0, 1, 2, 6, 10}
      \/ trial.fault.kind = "couple" /\ trial.pat \in {0, 1, 2, 10}
  BY <1>0 DEF MadeFor
<1>3. CASE trial.fault.kind = "stuck" /\ trial.pat \in {0, 1, 2, 3, 4, 9, 10, 11}
  <2>1. PICK n \in Plan : Shows(n)
    BY <1>0, <1>3, StuckShows
  <2> QED
    BY <1>0, <1>1, <1>3, <2>1 DEF StuckFound
<1>4. CASE trial.fault.kind = "alias" /\ trial.pat \in {0, 1, 2, 6, 10}
  <2>1. PICK n \in Plan : Clash(n)
    BY <1>0, <1>4, Clashes
  <2>2. n + 1 \in Plan /\ Aliased(n)
    BY <1>0, <1>4, <2>1 DEF AliasFound, Clash
  <2> QED
    BY <1>1, <2>2 DEF Aliased
<1>5. CASE trial.fault.kind = "couple" /\ trial.pat \in {0, 1, 2, 10}
  <2>1. PICK n \in Plan, x \in BOOLEAN :
          Inverts(n, x) /\ (~(x <=> IsOne) \/ InvertsTwice(n, x))
    BY <1>0, <1>5, Inversions
  <2>2. Coupled(n, x) /\ n + 1 \in Plan /\ n + 2 \in Plan
        /\ (InvertsTwice(n, x) => n + 3 \in Plan)
    BY <1>0, <1>5, <2>1 DEF CoupledFound, Inverts, InvertsTwice
  <2>3. Other < Victim \/ Victim < Other
    BY <1>0, <1>5, FaultIs, Sizes
  <2> QED
    BY <1>1, <2>1, <2>2, <2>3
    DEF Coupled, AboveRising, BelowRising, BelowFalling, AboveFalling
<1> QED
  BY <1>2, <1>3, <1>4, <1>5
-----------------------------------------------------------------------------
(* The faults that the bit fade test finds *)
LEMMA FadeNow ==
  ASSUME IInv, Fading
  PROVE  /\ Shape /\ trial \in Trials /\ call.fn = "bit_fade" /\ call.p1 \in SUBSET Bits
         /\ Victim \in Covers(trial) /\ Victim \in 0 .. Space - 1
         /\ trial.fault.bit \in Bits /\ trial.fault.value \in BOOLEAN
         /\ Looping => loop \in {"fill", "sleep", "check"} /\ ~Down /\ ~Modular
<1>1. Shape /\ trial \in Trials
  BY DEF IInv, Shape
<1>2. call.fn = "bit_fade"
  BY <1>1, CallNow DEF Fading, Fn
<1>3. call.p1 \in SUBSET Bits
  BY <1>1, <1>2, CallFields
<1>4. FaultyWords(trial.fault) = {Victim}
  BY DEF FaultyWords, Fading, Victim
<1>5. Victim \in Covers(trial)
  BY <1>1, <1>4, FaultsCovered DEF Covered
<1>6. Victim \in 0 .. Space - 1
  BY <1>1, <1>5, CoversIs, Ordered
<1>7. trial.fault.bit \in Bits /\ trial.fault.value \in BOOLEAN
  BY <1>1, FaultsAssumption DEF Fading
<1>8. Looping => loop \in {"fill", "sleep", "check"}
  BY <1>1, <1>2, LoopNow DEF LoopTable
<1> QED
  BY <1>1, <1>2, <1>3, <1>5, <1>6, <1>7, <1>8 DEF Down, Modular

LEMMA SameFade ==
  ASSUME trial' = trial
  PROVE  /\ (Fading' <=> Fading) /\ Victim' = Victim /\ (IsOne' <=> IsOne)
         /\ trial.fault' = trial.fault
         /\ \A w : HasBit(w)' <=> HasBit(w)
BY SamePlan DEF Fading

(* A step within a loop: what it makes of the bit, and whether it has seen  *)
(* the bit that it checks                                                   *)
LEMMA FadeWithin ==
  ASSUME IInv, FadeInv, Fading, Looping, Looping', UNCHANGED <<trial, calls, loops>>,
         bail => bail', reported \subseteq reported',
         Settled' => (HasBit(mem'[Victim]) <=> IsOne),
         NEW a, a = Victim,
         loop = "check" /\ Dealt(a)' /\ Different /\ ~bail' => Dealt(a) \/ reported' # {}
  PROVE  FadeInv'
<1>1. /\ Fading' /\ Victim' = Victim /\ (IsOne' <=> IsOne) /\ trial.fault' = trial.fault
      /\ \A w : HasBit(w)' <=> HasBit(w)
  BY SameFade
<1>2. call' = call /\ loop' = loop
  BY SameLoop
<1>3. Different' <=> Different
  BY <1>1, <1>2 DEF Different
<1>4. (Dealt(Victim)' <=> Dealt(a)') /\ (Dealt(Victim) <=> Dealt(a))
  BY <1>1 DEF Dealt
<1>5. pc' # "call" /\ pc' # "done"
  BY DEF Looping
<1>6. Settled' => (HasBit(mem[Victim])' <=> IsOne')
  BY <1>1
<1>7. ~bail' /\ Checked' /\ Different' => reported' # {}
  BY <1>2, <1>3, <1>4 DEF Checked, FadeInv
<1>8. ~bail' /\ calls' = <<Ones>> /\ IsOne' => reported' # {}
  BY <1>1 DEF FadeInv
<1>9. /\ calls' \in {<<Zeros, Ones>>, <<Ones>>}
      /\ loops' \in {<<"fill", "sleep", "check">>, <<"sleep", "check">>, <<"check">>, <<>>}
  BY DEF FadeInv
<1>10. UNCHANGED <<Zeros, Ones>>
  BY DEF Zeros, Ones, Not
<1> QED
  BY <1>5, <1>6, <1>7, <1>8, <1>9, <1>10 DEF FadeInv

(* A test that has been stopped *)
LEMMA FadeStopped ==
  ASSUME IInv, FadeInv, UNCHANGED <<trial, calls, loops, mem>>, pc' = "done", bail'
  PROVE  FadeInv'
BY SameFade DEF Settled, Looping, Zeros, Ones, Not, FadeInv

(* Through segments and chunks *)
LEMMA FadeWalks ==
  ASSUME IInv, FadeInv, Fading, EnterSegment \/ NextChunk \/ TickChunk
  PROVE  FadeInv'
<1>0. /\ Shape /\ trial \in Trials /\ call.fn = "bit_fade" /\ Victim \in Covers(trial)
      /\ Looping => ~Down /\ ~Modular
  BY FadeNow
<1>1. PICK a : a = Victim
  OBVIOUS
<1>2. PICK i \in 1 .. segs : a \in WordsOf(trial, i)
  BY <1>0, <1>1, CoversIs DEF segs
<1>3. ASSUME Looping, Looping', UNCHANGED <<trial, calls, loops, mem, reported>>,
             bail' = bail, Dealt(a)' <=> Dealt(a), pc # "over", pc' = "over" => loop # "sleep"
      PROVE  FadeInv'
  BY <1>3, SameLoop, <1>1, FadeWithin DEF Settled, FadeInv
<1>4. CASE EnterSegment
  BY <1>4, <1>0, <1>2, EnterDealt, <1>3 DEF EnterSegment, Looping
<1>5. CASE NextChunk
  BY <1>5, SomethingToDo, SameLoop, <1>3 DEF NextChunk, Dealt, Looping
<1>6. CASE TickChunk
  <2>1. /\ pc = "tick" /\ UNCHANGED <<trial, calls, loops, mem, reported>>
        /\ bail' = bail \/ bail' = TRUE
        /\ IF bail' THEN pc' = "done" /\ UNCHANGED pointers
           ELSE /\ IF done THEN NextSegment
                   ELSE pc' = "chunk" /\ UNCHANGED j
                /\ UNCHANGED <<p, pe, done>>
    BY <1>6 DEF TickChunk, Tick
  <2>2. CASE bail'
    BY <2>1, <2>2, FadeStopped
  <2>3. CASE ~bail'
    BY <2>1, <2>3, <1>0, <1>2, OverDealt, <1>3, MoreDealt
    DEF Looping, NextSegment, IInv, Places, AddrPlace
  <2> QED
    BY <2>2, <2>3
<1> QED
  BY <1>4, <1>5, <1>6

(* The words of a segment are filled, and later looked at. *)
LEMMA FadeWords ==
  ASSUME IInv, FadeInv, Fading, FadeFill \/ FadeCheck
  PROVE  FadeInv'
<1>0. /\ Shape /\ trial \in Trials /\ call.fn = "bit_fade" /\ Victim \in Covers(trial)
      /\ call.p1 \in SUBSET Bits
      /\ Looping => ~Down /\ ~Modular
  BY FadeNow
<1>1. PICK a : a = Victim
  OBVIOUS
<1>2. PICK i \in 1 .. segs : a \in WordsOf(trial, i)
  BY <1>0, <1>1, CoversIs DEF segs
<1>3. pc = "word" /\ Looping
  BY DEF FadeFill, FadeCheck, In, Looping
<1>4. CASE FadeFill
  BY <1>4, <1>0, Complements, SameLoop, StuckKeeps, <1>1, <1>3, FadeWithin
  DEF FadeFill, In, ReadWrite, Looping, Compare, Write, Settled, Shape, Memory, FadeInv
<1>5. CASE FadeCheck
  <2>1. loop = "check" /\ ReadWrite(call.p1, NoWord, 1)
    BY <1>5 DEF FadeCheck, In
  <2>2. /\ UNCHANGED <<trial, calls, loops, bail, mem>> /\ Looping'
        /\ reported' = (IF call.p1 # NoWord /\ Load(mem, trial.fault, p) # call.p1
                        THEN reported \cup {p} ELSE reported)
    BY <2>1 DEF ReadWrite, Looping, Compare, Write
  <2>3. call.p1 # NoWord
    BY <1>0, Complements
  <2>4. loop' = loop /\ trial.fault' = trial.fault
    BY <2>2, SameLoop
  <2>5. Settled' => Settled
    BY <1>3, <2>1, <2>2, <2>4 DEF Settled
  <2>6. Settled' => (HasBit(mem'[Victim]) <=> IsOne)
    BY <2>2, <2>5 DEF FadeInv
  <2>7. Dealt(a)' <=> Dealt(a) \/ a = p
    BY <1>0, <1>3, <2>1, <1>2, DealtNext DEF StepOf
  <2>8. Different /\ ~bail' /\ a = p => reported' # {}
    <3> SUFFICES ASSUME Different, ~bail', a = p
                 PROVE  p \in reported'
      OBVIOUS
    <3>1. Settled
      BY <1>3, <2>1, <2>2 DEF Settled
    <3>2. HasBit(mem[Victim]) <=> IsOne
      BY <3>1 DEF FadeInv
    <3>3. Load(mem, trial.fault, p) = mem[Victim]
      BY <1>1 DEF Load, Cell, Fading
    <3>4. mem[Victim] # call.p1
      BY <3>2 DEF Different
    <3> QED
      BY <2>2, <2>3, <3>3, <3>4
  <2> QED
    BY <1>1, <1>3, <2>1, <2>2, <2>6, <2>7, <2>8, FadeWithin
<1> QED
  BY <1>4, <1>5

(* Asleep the bit fades, unless the sleep is cut short. *)
LEMMA FadeSleeps ==
  ASSUME IInv, FadeInv, Fading, FadeSleep
  PROVE  FadeInv'
<1>0. /\ Shape /\ trial \in Trials /\ Victim \in 0 .. Space - 1
      /\ trial.fault.value \in BOOLEAN
  BY FadeNow
<1>1. /\ pc = "segment" /\ loop = "sleep" /\ pc' = "over"
      /\ UNCHANGED <<trial, calls, loops, reported>>
      /\ \/ mem' = Faded(mem, trial.fault) /\ bail' = bail
         \/ bail' = TRUE /\ mem' = mem
  BY DEF FadeSleep
<1>2. loop' = loop /\ trial.fault' = trial.fault
  BY <1>1, SameLoop
<1>3. Settled' => (HasBit(mem'[Victim]) <=> IsOne)
  <2>1. CASE trial.fault.kind = "stuck"
    BY <1>1, <2>1 DEF Faded, FadeInv, Settled
  <2>2. CASE trial.fault.kind = "fade"
    <3> SUFFICES ASSUME ~bail'
                 PROVE  HasBit(mem'[Victim]) <=> IsOne
      BY <1>2, <2>2 DEF Settled
    <3>1. mem' = [mem EXCEPT ![Victim] = Forced(mem[Victim], trial.fault)]
      BY <1>1, <2>2 DEF Faded, Victim
    <3>2. Victim \in DOMAIN mem
      BY <1>0 DEF Shape
    <3>3. mem'[Victim] = Forced(mem[Victim], trial.fault)
      BY <3>1, <3>2
    <3> QED
      BY <1>0, <3>3 DEF Forced, HasBit, IsOne
  <2> QED
    BY <2>1, <2>2 DEF Fading
<1>4. Looping /\ Looping'
  BY <1>1 DEF Looping
<1>5. PICK a : a = Victim
  OBVIOUS
<1> QED
  BY <1>1, <1>3, <1>4, <1>5, FadeWithin

LEMMA FreshUntouchedNext == Fresh' => (\A a \in Covers(trial) : ~Dealt(a))'
BY FreshUntouched, PTL

(* From loop to loop, and to the end of the call *)
LEMMA FadeLoopOver ==
  ASSUME IInv, FadeInv, Fading, LoopOver
  PROVE  FadeInv'
<1>0. /\ Shape /\ trial \in Trials /\ Victim \in Covers(trial)
  BY FadeNow
<1>1. /\ pc = "over" /\ Looping /\ loops' = Tail(loops)
      /\ IF Len(loops) = 1 THEN pc' = "call" /\ UNCHANGED j
         ELSE pc' = "segment" /\ j' = IF loops[2] = "down" THEN segs ELSE 1
      /\ UNCHANGED <<trial, calls, bail, mem, reported>>
  BY DEF LoopOver, Looping
<1>2. /\ Fading' /\ Victim' = Victim /\ (IsOne' <=> IsOne) /\ trial.fault' = trial.fault
      /\ \A w : HasBit(w)' <=> HasBit(w)
  BY <1>1, SameFade
<1>3. call' = call /\ (Different' <=> Different) /\ Zeros' = Zeros /\ Ones' = Ones
  BY <1>1, <1>2 DEF call, Different, Zeros, Ones, Not
<1>4. loops # <<>>
  BY <1>0, <1>1 DEF Shape
<1>5. /\ calls' \in {<<Zeros, Ones>>, <<Ones>>}
      /\ ~bail' /\ calls' = <<Ones>> /\ IsOne' => reported' # {}
  BY <1>1, <1>2 DEF FadeInv
<1>6. CASE loops \in {<<"fill", "sleep", "check">>, <<"sleep", "check">>}
  <2>1. /\ (loop = "fill" /\ loop' = "sleep") \/ (loop = "sleep" /\ loop' = "check")
        /\ loops' \in {<<"sleep", "check">>, <<"check">>}
        /\ pc' = "segment" /\ loops[2] # "down"
    <3>1. CASE loops = <<"fill", "sleep", "check">>
      BY <1>1, <3>1 DEF loop
    <3>2. CASE loops = <<"sleep", "check">>
      BY <1>1, <3>2 DEF loop
    <3> QED
      BY <1>6, <3>1, <3>2
  <2>2. loops[2] # "down" /\ loop' # "down"
    BY <2>1
  <2>3. Fresh'
    BY <1>0, <1>1, <2>1, <2>2 DEF Fresh, Down
  <2>4. ~Dealt(Victim)'
    BY <1>0, <1>1, <1>2, <2>3, FreshUntouchedNext
  <2>5. Settled' => Settled
    BY <1>1, <1>2, <2>1 DEF Settled
  <2>6. Settled' => (HasBit(mem[Victim])' <=> IsOne')
    BY <1>1, <1>2, <2>5 DEF FadeInv
  <2> QED
    BY <1>2, <1>3, <1>5, <2>1, <2>4, <2>6 DEF FadeInv, Checked
<1>7. CASE loops = <<"check">>
  BY <1>1, <1>7, <1>3, <1>2, <1>5 DEF loop, Checked, Dealt, FadeInv, Settled, Looping
<1> QED
  BY <1>4, <1>6, <1>7 DEF FadeInv

(* The first check expects zeros, the second one ones. *)
LEMMA FadeNextCall ==
  ASSUME IInv, FadeInv, Fading, NextCall
  PROVE  FadeInv'
<1>0. /\ Shape /\ trial \in Trials /\ Victim \in Covers(trial) /\ trial.fault.bit \in Bits
  BY FadeNow
<1>1. /\ pc = "call" /\ UNCHANGED <<trial, bail, mem, reported>>
      /\ IF Len(calls) = 1 THEN pc' = "done" /\ UNCHANGED <<calls, loops, j>>
         ELSE /\ calls' = Tail(calls)
              /\ loops' = Loops(calls[2])
              /\ pc' = "segment" /\ j' = 1
  BY DEF NextCall
<1>2. /\ Fading' /\ Victim' = Victim /\ (IsOne' <=> IsOne) /\ trial.fault' = trial.fault
      /\ \A w : HasBit(w)' <=> HasBit(w)
  BY <1>1, SameFade
<1>3. Zeros' = Zeros /\ Ones' = Ones
  BY DEF Zeros, Ones, Not
<1>4. ~bail /\ Different => reported # {}
  BY <1>1 DEF FadeInv
<1>5. CASE calls = <<Zeros, Ones>>
  BY <1>1, <1>5, <1>4, <1>2, <1>3
  DEF call, Loops, Ones, loop, Different, HasBit, Zeros, Settled, FadeInv, Checked
<1>6. CASE calls = <<Ones>>
  BY <1>1, <1>6, <1>0, <1>4, <1>2, <1>3
  DEF call, HasBit, Ones, Not, Different, FadeInv, Settled, Looping, Checked
<1> QED
  BY <1>5, <1>6 DEF FadeInv

(* A bit fade test takes no other step. *)
LEMMA FadeSteps ==
  ASSUME IInv, Fading, [Next]_vars
  PROVE  \/ EnterSegment \/ NextChunk \/ TickChunk \/ LoopOver \/ NextCall
         \/ FadeFill \/ FadeCheck \/ FadeSleep \/ UNCHANGED vars
<1>0. Shape /\ call.fn = "bit_fade" /\ (Looping => loop \in {"fill", "sleep", "check"})
  BY FadeNow
<1>1. ~MarchWords
  BY WordsPlanned, <1>0 DEF WordOfMarch, Marches
<1>2. ~Blocks /\ ~BlockMove /\ ~BlockPairs
  BY <1>0 DEF Blocks, BlockMove, BlockPairs, In
<1>3. ~TickMove
  BY <1>0 DEF TickMove, Looping
<1>4. ~AddrLines /\ ~AddrBanks /\ ~TickLine
  BY <1>0 DEF AddrLines, AddrBanks, TickLine
<1>5. ~AddrBank /\ ~AddrMask
  BY <1>0 DEF AddrBank, AddrMask, IInv, Places, AddrPlace
<1> QED
  BY <1>1, <1>2, <1>3, <1>4, <1>5 DEF Next, Walk, Others, MarchWords, Done

LEMMA InitFades ==
  ASSUME Init
  PROVE  FadeInv
<1> SUFFICES ASSUME Fading
             PROVE  FadeInv
  BY DEF FadeInv
<1>0. IInv
  BY InitHolds
<1>1. /\ trial \in Trials /\ Victim \in Covers(trial) /\ Victim \in 0 .. Space - 1
      /\ trial.fault.value \in BOOLEAN
  BY <1>0, FadeNow
<1>2. calls = <<Zeros, Ones>>
  BY DEF Init, Calls, Both, Fading, Zeros, Ones
<1>3. loops = <<"fill", "sleep", "check">> /\ loop = "fill"
  <2>1. loops = Loops(Zeros)
    BY <1>2 DEF Init
  <2> QED
    BY <2>1 DEF Loops, Zeros, loop
<1>4. trial.fault.kind = "stuck" => (HasBit(mem[Victim]) <=> IsOne)
  <2> SUFFICES ASSUME trial.fault.kind = "stuck"
               PROVE  HasBit(mem[Victim]) <=> IsOne
    OBVIOUS
  <2>1. PICK m \in Contents : mem = [a \in DOMAIN m |-> Held(trial.fault, a, m[a])]
    BY DEF Init
  <2>2. DOMAIN m = 0 .. Space - 1
    BY TestsAssumption
  <2>3. mem[Victim] = Held(trial.fault, Victim, m[Victim])
    BY <1>1, <2>1, <2>2
  <2>4. Held(trial.fault, Victim, m[Victim]) = Forced(m[Victim], trial.fault)
    BY DEF Held, Victim
  <2> QED
    BY <1>1, <2>3, <2>4 DEF Forced, HasBit, IsOne
<1>5. pc = "segment" /\ calls # <<Ones>>
  BY <1>2 DEF Init
<1> QED
  BY <1>2, <1>3, <1>4, <1>5 DEF FadeInv, Settled, Checked

LEMMA NextFades ==
  ASSUME IInv, FadeInv, [Next]_vars, trial' = trial
  PROVE  FadeInv'
<1>1. CASE ~Fading
  BY <1>1, SameFade DEF FadeInv
<1>2. CASE Fading
  <2>1. CASE EnterSegment \/ NextChunk \/ TickChunk
    BY <1>2, <2>1, FadeWalks
  <2>2. CASE LoopOver
    BY <1>2, <2>2, FadeLoopOver
  <2>3. CASE NextCall
    BY <1>2, <2>3, FadeNextCall
  <2>4. CASE FadeFill \/ FadeCheck
    BY <1>2, <2>4, FadeWords
  <2>5. CASE FadeSleep
    BY <1>2, <2>5, FadeSleeps
  <2>6. CASE UNCHANGED vars
    BY <2>6, SameLoop, SameSegment, <1>2, SameFade
    DEF vars, pointers, Different, Zeros, Ones, Not, Checked, Dealt, Settled, Looping,
       FadeInv
  <2> QED
    BY <1>2, <2>1, <2>2, <2>3, <2>4, <2>5, <2>6, FadeSteps
<1> QED
  BY <1>1, <1>2

(* What is made for a fault: a march, or the bit fade test *)
LEMMA FaultsShow ==
  ASSUME IInv, FInv, FadeInv
  PROVE  FaultsFound
<1> SUFFICES ASSUME pc = "done", ~bail, trial.fault.kind \in MadeFor(trial.pat)
             PROVE  reported # {}
  BY DEF FaultsFound
<1>1. Shape /\ trial.pat \in 0 .. 11
  BY TrialsAssumption DEF IInv, Shape
<1>2. CASE IsMarch
  BY <1>1, <1>2, MarchFinds
<1>3. CASE trial.pat = 8
  BY <1>3 DEF MadeFor, Fading, FadeInv
<1>4. CASE trial.pat \in {5, 7}
  BY <1>4 DEF MadeFor
<1> QED
  BY <1>2, <1>3, <1>4 DEF IsMarch

(* A test that was not interrupted has found a stuck bit, two coupled or    *)
(* aliased words or a fading bit, if it is made for it: wherever the fault  *)
(* is, whatever was in memory, for any layout of segments, any number of    *)
(* iterations and any random numbers.                                       *)
THEOREM FaultsDetected == Spec => []FaultsFound
<1>1. Init => MInv /\ FInv /\ FadeInv
  BY InitBooks, InitFound, InitFades
<1>2. IInv /\ MInv /\ FInv /\ FadeInv /\ [Next]_vars => MInv' /\ FInv' /\ FadeInv'
  BY NextBooks, NextFound, NextFades, TrialKept
<1>3. IInv /\ FInv /\ FadeInv => FaultsFound
  BY FaultsShow
<1> QED
  BY <1>1, <1>2, <1>3, Invariant, PTL DEF Spec
=============================================================================
