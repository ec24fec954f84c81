------------------------ MODULE TestDriver_proofs ------------------------
(***************************************************************************)
(* Proofs about TestDriver: its type invariant, that each window is        *)
(* entered by the copy of the program that can test it, and that no test   *)
(* reaches the running image while the menu has recomputed the segments at *)
(* most once; and that the tests write nothing outside the limits and the  *)
(* memory map, that they reach every page inside them that some window     *)
(* reaches, and that they spare what is below 0x500.                       *)
(***************************************************************************)
EXTENDS TestDriver, WellFoundedInduction, TLAPS

-----------------------------------------------------------------------------
(* Arithmetic of the windows. *)

(* A page is mapped to a page; below 2GB to itself, above not below 2GB.    *)
LEMMA MappingType ==
  ASSUME NEW page \in Nat
  PROVE  /\ Mapping(page) \in Nat
         /\ page < WinPages => Mapping(page) = page
         /\ page >= WinPages => Mapping(page) >= WinPages
<1>1. WinPages \in Nat /\ WinPages > 0
  BY LayoutAssumption DEF Win0Start
<1>2. page % WinPages \in Nat
  BY <1>1
<1>3. QED
  BY <1>1, <1>2 DEF Mapping

(* The windows from the third on lie above 2GB. *)
LEMMA HighWindows ==
  ASSUME NEW w \in Nat, w >= 2
  PROVE  WinStart(w) \in Nat /\ WinStart(w) >= WinPages
<1>1. WinPages \in Nat
  BY LayoutAssumption
<1>2. PICK k \in Nat : w - 1 = k + 1
  <2>1. w - 2 \in Nat /\ w - 1 = (w - 2) + 1
    OBVIOUS
  <2>2. QED
    BY <2>1
<1>3. k * WinPages \in Nat
  BY <1>1
<1>4. (k + 1) * WinPages = k * WinPages + WinPages
  BY <1>1
<1>5. WinStart(w) = (k + 1) * WinPages
  BY <1>2 DEF WinStart
<1>6. QED
  BY <1>1, <1>3, <1>4, <1>5

(* Both ends of every window are pages. *)
LEMMA WindowType ==
  ASSUME NEW w \in Nat, NEW high \in Nat
  PROVE  WinStart(w) \in Nat /\ WinEnd(w, high) \in Nat
<1>1. WinPages \in Nat /\ Win0Start \in Nat
  BY LayoutAssumption DEF Win0Start
<1>2. w * WinPages \in Nat
  BY <1>1
<1>3. CASE w \in {0, 1}
  BY <1>1, <1>2, <1>3 DEF WinStart, WinEnd
<1>4. CASE w >= 2
  BY <1>1, <1>2, <1>4, HighWindows DEF WinEnd
<1>5. QED
  BY <1>3, <1>4

(* What compute_segments() lists is well-formed, and none of it reaches the *)
(* image of the copy that fits the window.                                  *)
LEMMA SegmentsFit ==
  ASSUME NEW w \in Nat, NEW pm \in PMaps, NEW lower \in Nat, NEW upper \in Nat,
         NEW high \in {HighSmall, HighBig}
  PROVE  LET m == Segments(w, pm, lower, upper, high)
         IN  /\ SegmentsOf(m, pm)
             /\ SparesImage(m, IF w = 1 THEN high ELSE Low)
             /\ w = 1 => \A i \in DOMAIN m : m[i].last < high
<1> DEFINE m == Segments(w, pm, lower, upper, high)
           a == IF w = 1 THEN high ELSE Low
           ws == Larger(WinStart(w), lower)
           we == Smaller(WinEnd(w, high), upper)
           Start(i) == Larger(pm[i].start, ws)
           End(i) == Smaller(pm[i].end, we)
<1>1. /\ DOMAIN m = {j \in DOMAIN pm : ws < we /\ Start(j) < End(j)}
      /\ m = [i \in DOMAIN m |-> m[i]]
      /\ \A i \in DOMAIN m :
           m[i] = [pbase |-> Start(i), first |-> Mapping(Start(i)),
                   last |-> Mapping(End(i) - 1), usb |-> FALSE]
  BY DEF Segments
<1>2. /\ {Low, CodePages, CodeTail, high, WinPages} \subseteq Nat
      /\ high + CodePages + CodeTail <= WinPages
      /\ Low + CodePages + CodeTail <= high
  BY LayoutAssumption DEF Win0Start
<1>3. WinStart(w) \in Nat /\ WinEnd(w, high) \in Nat
  BY <1>2, WindowType
<1>4. \A i \in DOMAIN pm : pm[i].start \in Nat /\ pm[i].end \in Nat
  <2>1. pm \in Seq(PMapEntry)
    BY PMapAssumption
  <2>2. \A i \in DOMAIN pm : pm[i] \in PMapEntry
    BY <2>1
  <2>3. QED
    BY <2>2 DEF PMapEntry
<1>5. ASSUME NEW i \in DOMAIN m
      PROVE  /\ m[i] \in Segment /\ ~HitsImage(m[i], a)
             /\ w = 1 => m[i].last < high
  <2>1. i \in DOMAIN pm /\ Start(i) < End(i)
    BY <1>1, <1>5
  <2>2. pm[i].start \in Nat /\ pm[i].end \in Nat
    BY <2>1, <1>4
  <2>3. /\ Start(i) \in Nat /\ Start(i) >= WinStart(w)
        /\ End(i) \in Nat /\ End(i) <= WinEnd(w, high)
    BY <2>2, <1>3 DEF Larger, Smaller
  <2>4. End(i) - 1 \in Nat
    BY <2>1, <2>3
  <2>5. Mapping(Start(i)) \in Nat /\ Mapping(End(i) - 1) \in Nat
    BY <2>3, <2>4, MappingType
  <2>6. /\ m[i].first = Mapping(Start(i))
        /\ m[i].last = Mapping(End(i) - 1)
        /\ m[i] \in Segment
    <3> HIDE DEF m, Start, End
    <3>1. m[i] = [pbase |-> Start(i), first |-> Mapping(Start(i)),
                  last |-> Mapping(End(i) - 1), usb |-> FALSE]
      BY <1>1
    <3>2. QED
      BY <3>1, <2>3, <2>5 DEF Segment
  <2>7. CASE w = 1
    <3>1. End(i) - 1 < high /\ End(i) - 1 < WinPages
      BY <2>3, <2>4, <2>7, <1>2 DEF WinEnd
    <3>2. m[i].last < a
      BY <3>1, <2>4, <2>6, <2>7, MappingType
    <3>3. QED
      BY <3>2, <2>5, <2>6, <2>7, <1>2 DEF HitsImage
  <2>8. CASE w # 1
    <3>1. Mapping(Start(i)) >= Win0Start
      <4>1. WinStart(w) >= Win0Start
        BY <2>8, <1>2, HighWindows DEF WinStart, Win0Start
      <4>2. Win0Start <= WinPages /\ Win0Start \in Nat
        BY <1>2 DEF Win0Start
      <4>3. Start(i) >= Win0Start
        BY <4>1, <4>2, <2>3, <1>3
      <4>4. QED
        BY <4>2, <4>3, <2>3, <2>5, <1>2, MappingType
    <3>2. QED
      BY <3>1, <2>5, <2>6, <2>8, <1>2 DEF Win0Start, HitsImage
  <2>9. QED
    BY <2>6, <2>7, <2>8
<1>6. DOMAIN m \subseteq DOMAIN pm
  BY <1>1
<1>7. QED
  BY <1>1, <1>5, <1>6 DEF SegmentsOf, SparesImage

(* The segments of a relocated image end where they ended, though the first  *)
(* may start elsewhere.                                                      *)
LEMMA FromLowerLimitFit ==
  ASSUME NEW m, NEW pm, SegmentsOf(m, pm), plimLower \in Nat
  PROVE  LET r == FromLowerLimit(m)
         IN  /\ SegmentsOf(r, pm)
             /\ DOMAIN r = DOMAIN m
             /\ \A i \in DOMAIN m : r[i].last = m[i].last
<1> DEFINE f == FirstSeg(m)
           r == FromLowerLimit(m)
<1>1. Mapping(plimLower) \in Nat
  BY MappingType
<1>2. r = [m EXCEPT ![f] = [m[f] EXCEPT !.first = Mapping(plimLower),
                                         !.usb = (plimLower = 0)]]
  BY DEF FromLowerLimit
<1>3. /\ DOMAIN m \subseteq DOMAIN pm
      /\ m = [i \in DOMAIN m |-> m[i]]
      /\ \A i \in DOMAIN m : m[i] \in Segment
  BY DEF SegmentsOf
<1> HIDE DEF f, r
<1>4. DOMAIN r = DOMAIN m /\ r = [i \in DOMAIN m |-> r[i]]
  BY <1>2, <1>3
<1>5. ASSUME NEW i \in DOMAIN m
      PROVE  r[i] \in Segment /\ r[i].last = m[i].last
  <2>1. CASE i = f
    <3>1. r[i] = [m[i] EXCEPT !.first = Mapping(plimLower),
                              !.usb = (plimLower = 0)]
      BY <1>2, <1>3, <2>1
    <3>2. QED
      BY <3>1, <1>1, <1>3 DEF Segment
  <2>2. CASE i # f
    BY <1>2, <1>3, <2>2
  <2>3. QED
    BY <2>1, <2>2
<1>6. QED
  BY <1>3, <1>4, <1>5 DEF SegmentsOf, r

(* A set of numbers that is not empty has a least member. *)
LEMMA LeastNat ==
  ASSUME NEW T, T \subseteq Nat, T # {}
  PROVE  \E k \in T : \A j \in T : k <= j
<1> DEFINE R == OpToRel(<, Nat)
<1>1. IsWellFoundedOn(R, Nat)
  BY NatLessThanWellFounded
<1>2. R = {ss \in Nat \X Nat : ss[1] < ss[2]}
  BY DEF OpToRel
<1> HIDE DEF R
<1>3. PICK k \in T : \A j \in T : <<j, k>> \notin R
  BY <1>1, WFMin, Zenon
<1>4. \A j \in T : <<j, k>> \in Nat \X Nat
  OBVIOUS
<1>5. \A j \in T : ~(j < k)
  BY <1>2, <1>3, <1>4
<1>6. QED
  BY <1>5

(* A list of segments that is not empty has a first one. *)
LEMMA FirstSegExists ==
  ASSUME NEW m, NEW pm \in PMaps, SegmentsOf(m, pm), DOMAIN m # {}
  PROVE  FirstSeg(m) \in DOMAIN m
<1>1. DOMAIN m \subseteq Nat
  <2>1. pm \in Seq(PMapEntry)
    BY PMapAssumption
  <2>2. QED
    BY <2>1 DEF SegmentsOf
<1>2. PICK k \in DOMAIN m : \A j \in DOMAIN m : k <= j
  <2>1. PICK x : x \in DOMAIN m
    OBVIOUS
  <2>2. QED
    BY <1>1, <2>1, LeastNat
<1>3. QED
  BY <1>2 DEF FirstSeg

(* Mapping a page in leaves a block above the first in the upper half. *)
LEMMA MapPageType ==
  ASSUME NEW page \in Nat, mappedWin \in Nat \ {0}
  PROVE  MapPage(page) \in Nat \ {0}
<1>1. WinPages \in Nat /\ WinPages > 0
  BY LayoutAssumption DEF Win0Start
<1>2. Block(page) \in Nat
  BY <1>1 DEF Block
<1>3. QED
  BY <1>2 DEF MapPage

(* The end of a memory map is a page. *)
LEMMA LastEndType ==
  ASSUME NEW pm \in PMaps
  PROVE  LastEnd(pm) \in Nat
<1>1. pm \in Seq(PMapEntry) /\ Len(pm) > 0
  BY PMapAssumption
<1>2. pm[Len(pm)] \in PMapEntry
  BY <1>1
<1>3. QED
  BY <1>2 DEF LastEnd, PMapEntry

-----------------------------------------------------------------------------
(* Facts about single steps that several actions need. *)

(* find_ticks_for_pass() leaves well-formed segments, and harmless ones the  *)
(* first time it is called in a window.                                      *)
LEMMA RecomputeKeeps ==
  ASSUME IInv, firsttime, NEW lower \in Nat, NEW upper \in Nat,
         Recompute(lower, upper), UNCHANGED <<at, pmap>>
  PROVE  /\ SegmentsOf(map', pmap')
         /\ window' = 0 /\ window' \in 0 .. NWindows - 1
         /\ recomputed' \in 1 .. 2
         /\ InTest /\ recomputed' < 2 => SparesImage(map', at')
<1>1. /\ window \in Nat /\ pmap \in PMaps /\ highAdr \in {HighSmall, HighBig}
      /\ recomputed \in 0 .. 2 /\ NWindows \in Nat /\ NWindows >= 2
  BY LayoutAssumption DEF IInv, TypeOK, Settled
<1>2. map' = Segments(window, pmap, lower, upper, highAdr)
  BY DEF Recompute
<1>3. SegmentsOf(map', pmap) /\ (RightCopy => SparesImage(map', at))
  BY <1>1, <1>2, SegmentsFit DEF RightCopy
<1>4. window' = 0 /\ recomputed' \in 1 .. 2 /\ (recomputed' < 2 => recomputed = 0)
  BY <1>1 DEF Recompute, Smaller
<1>5. InTest /\ recomputed' < 2 => RightCopy
  BY <1>4 DEF IInv, CopyFitsWindow
<1>6. QED
  BY <1>1, <1>3, <1>4, <1>5

-----------------------------------------------------------------------------
(* The initial states satisfy the invariant. *)
LEMMA InitIInv == Init => IInv
<1> SUFFICES ASSUME Init PROVE IInv
  OBVIOUS
<1>1. SegmentsOf(map, pmap)
  BY DEF Init, NoSegments, SegmentsOf
<1>2. FlagsOK
  BY DEF Init, FlagsOK
<1>3. MaxSweeps \in Nat \ {0} /\ NWindows \in Nat \ {0} /\ Load \in Nat
  BY LayoutAssumption, InputAssumption
<1>4. TypeOK
  BY <1>1, <1>2, <1>3 DEF Init, TypeOK, PCs, NoReloc
<1>5. Settled /\ CopyFitsWindow /\ ImageSpared
  BY DEF Init, Settled, CopyFitsWindow, ImageSpared, InTest, PCs
<1>6. QED
  BY <1>4, <1>5 DEF IInv

(* Where run_at() goes. *)
LEMMA RunAtType ==
  ASSUME TypeOK, NEW addr \in Nat, RunAt(addr)
  PROVE  at' \in Nat /\ runAt' = addr /\ pc' = "do_test"
<1>1. highAdr \in Nat
  BY LayoutAssumption DEF TypeOK
<1>2. QED
  BY <1>1 DEF RunAt

(* restart() preserves the invariant. *)
LEMMA RestartIInv == IInv /\ Restart => IInv'
<1> SUFFICES ASSUME IInv, Restart PROVE IInv'
  OBVIOUS
<1> USE DEF memory, history
<1>1. Low \in Nat /\ MaxSweeps \in Nat \ {0}
  BY LayoutAssumption, InputAssumption
<1>2. at' \in Nat /\ runAt' = Low /\ pc' = "do_test"
  BY <1>1, RunAtType DEF IInv, Restart
<1>3. FlagsOK'
  BY DEF IInv, TypeOK, FlagsOK, Restart
<1>4. SegmentsOf(map, pmap)'
  BY DEF IInv, TypeOK, Restart
<1>5. TypeOK'
  BY <1>1, <1>2, <1>3, <1>4 DEF IInv, TypeOK, Restart, PCs
<1>6. (Settled /\ CopyFitsWindow /\ ImageSpared)'
  BY <1>2 DEF Restart, Settled, CopyFitsWindow, ImageSpared, InTest, PCs
<1>7. QED
  BY <1>5, <1>6 DEF IInv

(* The rest of bail_test preserves the invariant. *)
LEMMA AfterInputIInv ==
  ASSUME IInv, pc \in {"check_input", "menu"}, AfterInput,
         UNCHANGED <<firsttime, bail, map, mappedWin, memory, selected, walk,
                     history>>
  PROVE  IInv'
<1> USE DEF memory, selected, walk, history
<1>1. Low \in Nat /\ NWindows \in Nat \ {0}
  BY LayoutAssumption
<1>2. FlagsOK' /\ SegmentsOf(map, pmap)'
  BY DEF IInv, TypeOK, FlagsOK
<1>3. firsttime /\ at \in {Low, highAdr}
  BY DEF IInv, Settled, PCs
<1>4. \/ pc' = "menu" /\ from' = "end_of_pass" /\ UNCHANGED image
      \/ at' \in Nat /\ runAt' = Low /\ pc' = "do_test" /\ UNCHANGED from
  BY <1>1, RunAtType DEF IInv, AfterInput
<1>5. window' = 0
  BY DEF AfterInput
<1>6. TypeOK'
  BY <1>1, <1>2, <1>4, <1>5 DEF IInv, TypeOK, PCs, image
<1>7. (Settled /\ CopyFitsWindow /\ ImageSpared)'
  BY <1>3, <1>4, <1>5
     DEF IInv, Settled, CopyFitsWindow, ImageSpared, InTest, PCs, image
<1>8. QED
  BY <1>6, <1>7 DEF IInv

-----------------------------------------------------------------------------
(* Every step preserves the invariant: the entry of do_test(). *)
LEMMA BootIInv == IInv /\ Boot => IInv'
<1> SUFFICES ASSUME IInv, Boot PROVE IInv'
  OBVIOUS
<1> USE DEF memory, selected, walk, history
<1>1. CASE FinishRelocation
  <2>1. FlagsOK' /\ SegmentsOf(map, pmap)'
    BY <1>1 DEF IInv, TypeOK, FlagsOK, FinishRelocation
  <2>2. TypeOK'
    BY <1>1, <2>1 DEF IInv, TypeOK, PCs, FinishRelocation, NoReloc
  <2>3. (Settled /\ CopyFitsWindow /\ ImageSpared)'
    BY <1>1 DEF IInv, FinishRelocation, Settled, CopyFitsWindow, ImageSpared, InTest, PCs
  <2>4. QED
    BY <2>2, <2>3 DEF IInv
<1>2. CASE MoveHome
  BY <1>2, RestartIInv DEF MoveHome
<1>3. CASE FirstTime
  <2>1. PICK pm \in PMaps :
          /\ pmap' = pm
          /\ plimLower' = 0 /\ plimUpper' = LastEnd(pm)
          /\ highAdr' = IF LastEnd(pm) > BigMem THEN HighBig ELSE highAdr
    BY <1>3 DEF FirstTime
  <2>2. LastEnd(pm) \in Nat
    BY LastEndType
  <2>3. highAdr' \in {HighSmall, HighBig}
    BY <2>1 DEF IInv, TypeOK
  <2>4. FlagsOK'
    BY <1>3 DEF IInv, TypeOK, FlagsOK, FirstTime
  <2>5. SegmentsOf(map, pmap)'
    BY <1>3 DEF FirstTime, SegmentsOf, NoSegments
  <2>6. NWindows \in Nat \ {0}
    BY LayoutAssumption
  <2>7. TypeOK'
    BY <1>3, <2>1, <2>2, <2>3, <2>4, <2>5, <2>6 DEF IInv, TypeOK, PCs, FirstTime
  <2>8. (Settled /\ CopyFitsWindow /\ ImageSpared)'
    BY <1>3, <2>1
       DEF FirstTime, Settled, CopyFitsWindow, ImageSpared, RightCopy, InTest, PCs
  <2>9. QED
    BY <2>7, <2>8 DEF IInv
<1>4. CASE Resume
  <2>1. FlagsOK' /\ SegmentsOf(map, pmap)'
    BY <1>4 DEF IInv, TypeOK, FlagsOK, Resume
  <2>2. TypeOK'
    BY <1>4, <2>1 DEF IInv, TypeOK, PCs, Resume
  <2>3. RightCopy
    <3>1. runAt = IF window = 1 THEN highAdr ELSE Low
      BY <1>4 DEF IInv, Settled, Resume, Arrived
    <3>2. runAt # NoReloc
      BY <3>1, LayoutAssumption DEF IInv, TypeOK, NoReloc
    <3>3. QED
      BY <1>4, <3>1, <3>2 DEF Resume, Arrived, RightCopy
  <2>4. (Settled /\ CopyFitsWindow /\ ImageSpared)'
    BY <1>4, <2>3
       DEF IInv, Resume, Settled, CopyFitsWindow, ImageSpared, RightCopy, InTest, PCs
  <2>5. QED
    BY <2>2, <2>4 DEF IInv
<1>5. QED
  BY <1>1, <1>2, <1>3, <1>4 DEF Boot
(* ... the tests of a window. *)
LEMMA TestingIInv == IInv /\ Testing => IInv'
<1> SUFFICES ASSUME IInv, Testing PROVE IInv'
  OBVIOUS
<1> USE DEF memory, image, selected, walk, history
<1>1. MaxSweeps \in Nat \ {0} /\ Low \in Nat
  BY LayoutAssumption, InputAssumption
<1>2. ASSUME EnterWindow
      PROVE  /\ FlagsOK' /\ touched' \subseteq Int
             /\ SegmentsOf(WindowSegments, pmap) /\ SparesImage(WindowSegments, at)
             /\ RightCopy /\ at \in {Low, highAdr} /\ Low < highAdr
             /\ window = 1 => \A i \in DOMAIN WindowSegments :
                               WindowSegments[i].last < highAdr
             /\ pmap \in PMaps
  <2>1. FlagsOK' /\ touched' \subseteq Int
    BY <1>2 DEF IInv, TypeOK, FlagsOK, EnterWindow
  <2>2. /\ RightCopy /\ at \in {Low, highAdr}
        /\ pmap \in PMaps /\ firsttime
    BY <1>2 DEF IInv, Settled, CopyFitsWindow, EnterWindow, PCs
  <2>3. Low < highAdr
    BY LayoutAssumption DEF IInv, TypeOK
  <2>4. /\ window \in Nat /\ highAdr \in {HighSmall, HighBig}
        /\ plimLower \in Nat /\ plimUpper \in Nat
    BY LayoutAssumption DEF IInv, TypeOK
  <2>5. /\ SegmentsOf(WindowSegments, pmap)
        /\ SparesImage(WindowSegments, IF window = 1 THEN highAdr ELSE Low)
        /\ window = 1 => \A i \in DOMAIN WindowSegments :
                           WindowSegments[i].last < highAdr
    BY <2>2, <2>4, SegmentsFit DEF WindowSegments
  <2>6. QED
    BY <2>1, <2>2, <2>3, <2>5 DEF RightCopy
<1>3. CASE SkipWindow
  <2>1. /\ FlagsOK' /\ touched' \subseteq Int
        /\ SegmentsOf(WindowSegments, pmap)
    BY <1>2, <1>3 DEF SkipWindow
  <2>2. SegmentsOf(map, pmap)'
    BY <2>1, <1>3 DEF SkipWindow, EnterWindow
  <2>3. TypeOK'
    BY <1>1, <1>3, <2>1, <2>2 DEF IInv, TypeOK, PCs, SkipWindow, EnterWindow
  <2>4. (Settled /\ CopyFitsWindow /\ ImageSpared)'
    BY <1>3 DEF IInv, Settled, CopyFitsWindow, ImageSpared, InTest, PCs,
                SkipWindow, EnterWindow
  <2>5. QED
    BY <2>3, <2>4 DEF IInv
<1>4. CASE StartTest
  <2> DEFINE m == WindowSegments
  <2>1. EnterWindow /\ map' = (IF at > Low THEN FromLowerLimit(m) ELSE m)
    BY <1>4 DEF StartTest
  <2>2. /\ FlagsOK' /\ touched' \subseteq Int
        /\ SegmentsOf(m, pmap) /\ SparesImage(m, at) /\ RightCopy
        /\ pmap \in PMaps /\ at \in {Low, highAdr} /\ Low < highAdr
        /\ window = 1 => \A i \in DOMAIN m : m[i].last < highAdr
    BY <1>2, <2>1
  <2>3. plimLower \in Nat /\ highAdr \in Nat
    BY LayoutAssumption DEF IInv, TypeOK
  <2> HIDE DEF m
  <2>4. /\ SegmentsOf(FromLowerLimit(m), pmap)
        /\ DOMAIN FromLowerLimit(m) = DOMAIN m
        /\ \A i \in DOMAIN m : FromLowerLimit(m)[i].last = m[i].last
    BY <2>2, <2>3, FromLowerLimitFit
  <2>5. SegmentsOf(map', pmap) /\ SparesImage(map', at)
    <3>1. CASE at > Low
      <4>1. window = 1 /\ at = highAdr
        BY <1>1, <2>2, <3>1 DEF RightCopy
      <4>2. \A i \in DOMAIN m : m[i].last < at /\ m[i] \in Segment
        BY <2>2, <4>1 DEF SegmentsOf
      <4>3. SparesImage(FromLowerLimit(m), at)
        BY <2>3, <2>4, <4>1, <4>2 DEF SparesImage, HitsImage, Segment
      <4>4. QED
        BY <2>1, <2>4, <3>1, <4>3
    <3>2. CASE ~(at > Low)
      BY <2>1, <2>2, <3>2
    <3>3. QED
      BY <3>1, <3>2
  <2>6. MapPage(WindowSegments[FirstSeg(WindowSegments)].pbase) \in Nat \ {0}
    <3>1. DOMAIN m # {} /\ CanMap(m[FirstSeg(m)].pbase)
      BY <1>4 DEF StartTest, CanTest, m
    <3>2. FirstSeg(m) \in DOMAIN m
      BY <2>2, <3>1, FirstSegExists
    <3>3. m[FirstSeg(m)].pbase \in Nat
      BY <2>2, <3>2 DEF SegmentsOf, Segment
    <3>4. QED
      BY <3>3, MapPageType DEF IInv, TypeOK, m
  <2>7. /\ mappedWin' \in Nat \ {0} /\ test' \in Int
        /\ pc' \in {"test", "next_window"}
    BY <1>4, <2>6 DEF StartTest, IInv, TypeOK
  <2>8. UNCHANGED <<from, at, runAt, firsttime, window, memory, testsel, pass>>
    BY <2>1 DEF EnterWindow
  <2>9. swept' = {} /\ sweeps' = 0 /\ recomputed' = 0 /\ pc = "window"
    BY <2>1 DEF EnterWindow
  <2>10. TypeOK'
    BY <1>1, <2>2, <2>5, <2>7, <2>8, <2>9 DEF IInv, TypeOK, PCs
  <2>11. (Settled /\ CopyFitsWindow /\ ImageSpared)'
    BY <2>2, <2>5, <2>7, <2>8, <2>9
       DEF IInv, Settled, CopyFitsWindow, ImageSpared, RightCopy, InTest, PCs
  <2>12. QED
    BY <2>10, <2>11 DEF IInv
<1>5. CASE TestSegment
  <2>1. FlagsOK' /\ SegmentsOf(map, pmap)'
    BY <1>5 DEF IInv, TypeOK, FlagsOK, TestSegment
  <2>2. PICK i \in DOMAIN map \ swept :
          /\ swept' = swept \cup {i}
          /\ touched' = touched \cup PhysPages(map[i])
          /\ pc' = IF HitsImage(map[i], at) THEN "lost" ELSE "test"
    BY <1>5 DEF TestSegment
  <2>3. i \in Nat /\ map[i] \in Segment
    <3>1. i \in DOMAIN pmap /\ map[i] \in Segment
      BY <2>2 DEF IInv, TypeOK, SegmentsOf
    <3>2. pmap \in Seq(PMapEntry)
      BY <1>5, PMapAssumption DEF IInv, Settled, TestSegment, PCs
    <3>3. QED
      BY <3>1, <3>2
  <2>4. PhysPages(map[i]) \subseteq Int
    <3>1. WinPages \in Nat /\ mappedWin \in Nat
      BY LayoutAssumption DEF IInv, TypeOK
    <3>2. mappedWin * WinPages \in Nat
      BY <3>1
    <3>3. \A v \in map[i].first .. map[i].last : PageOf(v, mappedWin) \in Int
      BY <2>3, <3>1, <3>2 DEF PageOf, Segment
    <3>4. QED
      BY <3>3 DEF PhysPages
  <2>5. TypeOK'
    BY <1>5, <2>1, <2>2, <2>3, <2>4 DEF IInv, TypeOK, PCs, TestSegment
  <2>6. (Settled /\ CopyFitsWindow /\ ImageSpared)'
    BY <1>5, <2>2
       DEF IInv, Settled, CopyFitsWindow, ImageSpared, RightCopy, InTest, PCs,
           TestSegment
  <2>7. QED
    BY <2>5, <2>6 DEF IInv
<1>6. CASE NextSweep
  <2>1. FlagsOK' /\ SegmentsOf(map, pmap)'
    BY <1>6 DEF IInv, TypeOK, FlagsOK, NextSweep
  <2>2. TypeOK'
    BY <1>1, <1>6, <2>1 DEF IInv, TypeOK, PCs, NextSweep
  <2>3. (Settled /\ CopyFitsWindow /\ ImageSpared)'
    BY <1>6
       DEF IInv, Settled, CopyFitsWindow, ImageSpared, RightCopy, InTest, PCs,
           NextSweep
  <2>4. QED
    BY <2>2, <2>3 DEF IInv
<1>7. CASE EndTest
  <2>1. FlagsOK' /\ SegmentsOf(map, pmap)'
    BY <1>7 DEF IInv, TypeOK, FlagsOK, EndTest
  <2>2. TypeOK'
    BY <1>1, <1>7, <2>1 DEF IInv, TypeOK, PCs, EndTest
  <2>3. (Settled /\ CopyFitsWindow /\ ImageSpared)'
    BY <1>7 DEF IInv, Settled, CopyFitsWindow, ImageSpared, InTest, PCs, EndTest
  <2>4. QED
    BY <2>2, <2>3 DEF IInv
<1>8. CASE BailOut
  <2>1. FlagsOK' /\ SegmentsOf(map, pmap)'
    BY <1>8 DEF IInv, TypeOK, FlagsOK, BailOut
  <2>2. mappedWin' \in Nat \ {0}
    BY <1>8 DEF IInv, TypeOK, BailOut, PagingOff
  <2>3. TypeOK'
    BY <1>1, <1>8, <2>1, <2>2 DEF IInv, TypeOK, PCs, BailOut
  <2>4. (Settled /\ CopyFitsWindow /\ ImageSpared)'
    BY <1>8 DEF IInv, Settled, CopyFitsWindow, ImageSpared, InTest, PCs, BailOut
  <2>5. QED
    BY <2>3, <2>4 DEF IInv
<1>9. QED
  BY <1>3, <1>4, <1>5, <1>6, <1>7, <1>8 DEF Testing
(* ... the way from one window to the next. *)
LEMMA AdvanceIInv == IInv /\ Advance => IInv'
<1> SUFFICES ASSUME IInv, Advance PROVE IInv'
  OBVIOUS
<1> USE DEF memory, image, selected, walk, history
<1>1. /\ NWindows \in Nat /\ NWindows >= 2 /\ WinPages \in Nat
      /\ {Low, CodePages, HighSmall, HighBig} \subseteq Nat
      /\ highAdr \in Nat /\ Low > 0 /\ Low + CodePages < highAdr
      /\ highAdr + CodePages <= WinPages
  BY LayoutAssumption DEF IInv, TypeOK
<1>2. CASE AdvanceWindow
  <2>1. /\ pc = "next_window" /\ firsttime /\ at \in {Low, highAdr}
        /\ window' = window + 1 /\ window' \in 1 .. NWindows - 1
        /\ mappedWin' \in Nat \ {0}
    BY <1>1, <1>2
       DEF IInv, Settled, TypeOK, PCs, AdvanceWindow, PagingOff
  <2>2. UNCHANGED <<from, firsttime, bail, map, memory, selected, walk, history>>
    BY <1>2 DEF AdvanceWindow
  <2>3. FlagsOK' /\ SegmentsOf(map, pmap)'
    BY <2>2 DEF IInv, TypeOK, FlagsOK
  <2>4. WinStart(window + 1) < at + CodePages <=> window + 1 = 1
    <3>1. CASE window + 1 = 1
      BY <1>1, <2>1, <3>1 DEF WinStart
    <3>2. CASE window + 1 # 1
      <4>1. WinStart(window + 1) \in Nat /\ WinStart(window + 1) >= WinPages
        BY <2>1, <3>2, HighWindows
      <4>2. QED
        BY <1>1, <2>1, <3>2, <4>1
    <3>3. QED
      BY <3>1, <3>2
  <2>5. \/ /\ UNCHANGED <<pc, image>>
        \/ /\ at' \in Nat /\ pc' = "do_test"
           /\ runAt' = IF window' = 1 THEN highAdr ELSE Low
    <3>1. CASE UNCHANGED <<pc, image>>
      BY <3>1
    <3>2. CASE WinStart(window + 1) < at + CodePages /\ RunAt(highAdr)
      BY <1>1, <2>1, <2>4, <3>2, RunAtType DEF IInv
    <3>3. CASE WinStart(window + 1) >= at + CodePages /\ RunAt(Low)
      <4>1. WinStart(window + 1) \in Int
        BY <1>1, <2>1, WindowType
      <4>2. window' # 1
        BY <1>1, <2>1, <2>4, <3>3, <4>1
      <4>3. QED
        BY <1>1, <3>3, <4>2, RunAtType DEF IInv
    <3>4. QED
      BY <1>2, <3>1, <3>2, <3>3 DEF AdvanceWindow
  <2>6. TypeOK'
    BY <1>1, <2>1, <2>2, <2>3, <2>5 DEF IInv, TypeOK, PCs
  <2>7. (Settled /\ CopyFitsWindow /\ ImageSpared)'
    BY <2>1, <2>2, <2>5
       DEF IInv, Settled, CopyFitsWindow, ImageSpared, InTest, PCs
  <2>8. QED
    BY <2>6, <2>7 DEF IInv
<1>3. CASE LastWindow
  <2>1. FlagsOK' /\ SegmentsOf(map, pmap)'
    BY <1>3 DEF IInv, TypeOK, FlagsOK, LastWindow
  <2>2. mappedWin' \in Nat \ {0}
    BY <1>3 DEF IInv, TypeOK, LastWindow, PagingOff
  <2>3. TypeOK'
    BY <1>1, <1>3, <2>1, <2>2 DEF IInv, TypeOK, PCs, LastWindow
  <2>4. (Settled /\ CopyFitsWindow /\ ImageSpared)'
    BY <1>3 DEF IInv, Settled, CopyFitsWindow, ImageSpared, InTest, PCs, LastWindow
  <2>5. QED
    BY <2>3, <2>4 DEF IInv
<1>4. CASE NoKey
  BY <1>4, AfterInputIInv DEF NoKey
<1>5. QED
  BY <1>2, <1>3, <1>4 DEF Advance

(* ... the actions of the menu that recompute the segments. *)
LEMMA SettingsIInv ==
  ASSUME IInv, InMenu, NEW lower \in Nat, NEW upper \in Nat,
         plimLower' = lower, plimUpper' = upper, Recompute(lower, upper),
         bail' \in BOOLEAN, testsel' \in Int, test' \in Int, pass' \in Int
  PROVE  IInv'
<1> USE DEF memory, image, walk
<1>1. /\ pc = "menu" /\ firsttime
      /\ UNCHANGED <<pc, from, image, firsttime, mappedWin, pmap, highAdr, walk,
                     touched>>
  BY DEF InMenu, IInv, Settled, PCs
<1>2. /\ SegmentsOf(map', pmap')
      /\ window' = 0 /\ window' \in 0 .. NWindows - 1
      /\ recomputed' \in 1 .. 2
      /\ InTest /\ recomputed' < 2 => SparesImage(map', at')
  BY <1>1, RecomputeKeeps
<1>3. FlagsOK'
  BY <1>1 DEF IInv, TypeOK, FlagsOK
<1>4. TypeOK'
  BY <1>1, <1>2, <1>3 DEF IInv, TypeOK
<1>5. (Settled /\ CopyFitsWindow /\ ImageSpared)'
  BY <1>1, <1>2
     DEF IInv, Settled, CopyFitsWindow, ImageSpared, InTest, PCs
<1>6. QED
  BY <1>4, <1>5 DEF IInv

(* ... the operator's actions. *)
LEMMA MenuIInv == IInv /\ (OpenMenu \/ Reboot \/ Settings \/ Continue) => IInv'
<1> SUFFICES ASSUME IInv, OpenMenu \/ Reboot \/ Settings \/ Continue
             PROVE  IInv'
  OBVIOUS
<1> USE DEF memory, image, selected, walk, history
<1>1. /\ NWindows \in Nat \ {0} /\ MaxSweeps \in Nat \ {0} /\ MaxPass \in Nat
      /\ {Low, Load} \subseteq Nat /\ FadeTest \in Nat
      /\ PageInputs \subseteq Nat /\ TestInputs \subseteq Int
  BY LayoutAssumption, InputAssumption
<1>2. /\ plimLower \in Nat /\ plimUpper \in Nat /\ bail \in BOOLEAN
      /\ testsel \in Int /\ test \in Int /\ pass \in Int
  BY DEF IInv, TypeOK, FlagsOK
<1>3. CASE OpenMenu
  <2>1. FlagsOK' /\ SegmentsOf(map, pmap)'
    BY <1>3 DEF IInv, TypeOK, FlagsOK, OpenMenu
  <2>2. TypeOK'
    BY <1>3, <2>1 DEF IInv, TypeOK, PCs, OpenMenu
  <2>3. (Settled /\ CopyFitsWindow /\ ImageSpared)'
    BY <1>3 DEF IInv, Settled, CopyFitsWindow, ImageSpared, RightCopy, InTest,
                PCs, OpenMenu
  <2>4. QED
    BY <2>2, <2>3 DEF IInv
<1>4. CASE Reboot
  <2>1. SegmentsOf(map, pmap)' /\ FlagsOK'
    BY <1>4 DEF Reboot, NoSegments, SegmentsOf, FlagsOK
  <2>2. TypeOK'
    BY <1>1, <1>4, <2>1 DEF Reboot, TypeOK, PCs, NoReloc
  <2>3. (Settled /\ CopyFitsWindow /\ ImageSpared)'
    BY <1>4 DEF Reboot, Settled, CopyFitsWindow, ImageSpared, InTest, PCs
  <2>4. QED
    BY <2>2, <2>3 DEF IInv
<1>5. CASE DefaultTests
  BY <1>2, <1>5, SettingsIInv DEF DefaultTests
<1>6. CASE SkipTest
  <2>1. FlagsOK' /\ SegmentsOf(map, pmap)'
    BY <1>6 DEF IInv, TypeOK, FlagsOK, SkipTest, InMenu
  <2>2. TypeOK'
    BY <1>6, <2>1 DEF IInv, TypeOK, SkipTest, InMenu
  <2>3. (Settled /\ CopyFitsWindow /\ ImageSpared)'
    BY <1>6 DEF IInv, Settled, CopyFitsWindow, ImageSpared, RightCopy, InTest,
                PCs, SkipTest, InMenu
  <2>4. QED
    BY <2>2, <2>3 DEF IInv
<1>7. CASE AllMemory
  <2>1. LastEnd(pmap) \in Nat
    BY <1>7, LastEndType DEF IInv, Settled, PCs, AllMemory, InMenu
  <2>2. /\ InMenu /\ plimLower' = 0 /\ plimUpper' = LastEnd(pmap)
        /\ Recompute(0, LastEnd(pmap))
        /\ bail' \in BOOLEAN /\ testsel' \in Int /\ test' \in Int /\ pass' \in Int
    BY <1>2, <1>7 DEF AllMemory
  <2>3. QED
    BY <2>1, <2>2, SettingsIInv
<1>8. CASE RestartFromMenu
  BY <1>8, RestartIInv DEF RestartFromMenu
<1>9. ASSUME NEW n \in TestInputs, SelectTest(n)
      PROVE  IInv'
  <2>1. /\ InMenu /\ plimLower' = plimLower /\ plimUpper' = plimUpper
        /\ Recompute(plimLower, plimUpper)
        /\ bail' \in BOOLEAN
    BY <1>9 DEF SelectTest
  <2>2. testsel' \in Int /\ test' \in Int /\ pass' \in Int
    BY <1>1, <1>2, <1>9 DEF SelectTest
  <2>3. QED
    BY <1>2, <2>1, <2>2, SettingsIInv
<1>10. ASSUME NEW page \in PageInputs, SetLower(page) \/ SetUpper(page)
       PROVE  IInv'
  <2>1. /\ InMenu /\ Recompute(plimLower', plimUpper')
        /\ testsel' = testsel /\ pass' = pass
    BY <1>10 DEF SetLower, SetUpper
  <2>2. plimLower' \in Nat /\ plimUpper' \in Nat /\ test' \in Int
    BY <1>1, <1>2, <1>10 DEF SetLower, SetUpper
  <2>3. bail' \in BOOLEAN
    BY <1>2, <1>10 DEF SetLower, SetUpper
  <2>4. QED
    BY <1>2, <2>1, <2>2, <2>3, SettingsIInv
<1>11. CASE ContinueTest
  <2>1. FlagsOK' /\ SegmentsOf(map, pmap)'
    BY <1>11 DEF IInv, TypeOK, FlagsOK, ContinueTest
  <2>2. TypeOK'
    BY <1>11, <2>1 DEF IInv, TypeOK, PCs, ContinueTest
  <2>3. (Settled /\ CopyFitsWindow /\ ImageSpared)'
    BY <1>11 DEF IInv, Settled, CopyFitsWindow, ImageSpared, RightCopy, InTest,
                 PCs, ContinueTest
  <2>4. QED
    BY <2>2, <2>3 DEF IInv
<1>12. CASE ContinueInput
  BY <1>12, AfterInputIInv DEF ContinueInput
<1>13. CASE ContinuePass
  <2>1. FlagsOK' /\ SegmentsOf(map, pmap)'
    BY <1>13 DEF IInv, TypeOK, FlagsOK, ContinuePass
  <2>2. pass' \in Int
    BY <1>1, <1>2, <1>13 DEF ContinuePass, Smaller
  <2>3. at' \in Nat /\ runAt' = Low /\ pc' = "do_test"
    BY <1>1, <1>13, RunAtType DEF IInv, ContinuePass
  <2>4. TypeOK'
    BY <1>1, <1>13, <2>1, <2>2, <2>3 DEF IInv, TypeOK, PCs, ContinuePass
  <2>5. (Settled /\ CopyFitsWindow /\ ImageSpared)'
    BY <1>13, <2>3
       DEF IInv, Settled, CopyFitsWindow, ImageSpared, InTest, PCs, ContinuePass
  <2>6. QED
    BY <2>4, <2>5 DEF IInv
<1>14. QED
  BY <1>3, <1>4, <1>5, <1>6, <1>7, <1>8, <1>9, <1>10, <1>11, <1>12, <1>13
     DEF Settings, Continue

(* Steps that change nothing. *)
LEMMA StutterIInv == IInv /\ UNCHANGED vars => IInv'
<1> SUFFICES ASSUME IInv, UNCHANGED vars PROVE IInv'
  OBVIOUS
<1> USE DEF vars
<1>1. FlagsOK' /\ SegmentsOf(map, pmap)'
  BY DEF IInv, TypeOK, FlagsOK
<1>2. TypeOK'
  BY <1>1 DEF IInv, TypeOK
<1>3. (Settled /\ CopyFitsWindow /\ ImageSpared)'
  BY DEF IInv, Settled, CopyFitsWindow, ImageSpared, RightCopy, InTest, PCs
<1>4. QED
  BY <1>2, <1>3 DEF IInv

-----------------------------------------------------------------------------
(* The inductive invariant holds in every reachable state of the driver,     *)
(* whatever the memory map, the limits and what the operator does.           *)
THEOREM InductiveInvariant == Spec => []IInv
<1>1. Init => IInv
  BY InitIInv
<1>2. IInv /\ [Next]_vars => IInv'
  <2>1. IInv /\ Program => IInv'
    BY BootIInv, TestingIInv, AdvanceIInv DEF Program
  <2>2. IInv /\ Lost => IInv'
    BY StutterIInv DEF Lost
  <2>3. QED
    BY <2>1, <2>2, MenuIInv, StutterIInv DEF Next
<1>3. QED
  BY <1>1, <1>2, PTL DEF Spec

(* Type correctness of the driver (the variables of main.c and init.c).      *)
THEOREM TypeCorrect == Spec => []TypeOK
<1>1. IInv => TypeOK
  BY DEF IInv
<1>2. QED
  BY <1>1, InductiveInvariant, PTL

(* Every window is entered by the copy of the program that can test it: the  *)
(* jumps of skip_window, bail_test and restart() are right (main.c:449-469). *)
THEOREM CopyIsRight == Spec => []CopyFitsWindow
<1>1. IInv => CopyFitsWindow
  BY DEF IInv
<1>2. QED
  BY <1>1, InductiveInvariant, PTL

(* The program never lets a test reach its own image, unless the menu has    *)
(* recomputed the segments twice during one test (main.c:534-562).           *)
THEOREM ProgramSpared == Spec => []ImageSpared
<1>1. IInv => ImageSpared
  BY DEF IInv
<1>2. QED
  BY <1>1, InductiveInvariant, PTL

-----------------------------------------------------------------------------
(* Arithmetic of blocks of W pages. *)

LEMMA BlockDivMod ==
  ASSUME NEW W \in Nat \ {0}, NEW x \in Int
  PROVE  /\ x % W \in 0 .. W - 1 /\ x \div W \in Int
         /\ x % W = x - W * (x \div W)
BY SMT

(* A multiple of W between -W and W is 0. *)
LEMMA NoMultipleBelow ==
  ASSUME NEW W \in Nat \ {0}, NEW n \in Int, n * W < W, n * W > -W
  PROVE  n = 0
<1>1. CASE n >= 1
  <2>1. n * W >= W
    BY <1>1, SMT
  <2>2. QED
    BY <2>1, SMT
<1>2. CASE n <= -1
  <2>1. n * W <= -W
    BY <1>2, SMT
  <2>2. QED
    BY <2>1, SMT
<1>3. QED
  BY <1>1, <1>2, SMT

(* A page r pages above the start of block k is in block k, at r. *)
LEMMA InBlock ==
  ASSUME NEW W \in Nat \ {0}, NEW k \in Nat, NEW r \in 0 .. W - 1, NEW p \in Nat,
         p = k * W + r
  PROVE  p \div W = k /\ p % W = r
<1>1. PICK d \in Int : d = p \div W /\ p % W \in 0 .. W - 1 /\ p % W = p - W * d
  BY BlockDivMod
<1>2. (k - d) * W = k * W - W * d /\ k - d \in Int
  BY SMT
<1>3. k * W \in Int /\ W * d \in Int
  BY SMT
<1>4. (k - d) * W = (p % W) - r
  BY <1>1, <1>2, <1>3, SMT
<1>5. (k - d) * W < W /\ (k - d) * W > -W
  BY <1>1, <1>4, SMT
<1>6. k - d = 0
  BY <1>2, <1>5, NoMultipleBelow
<1>7. k = d
  BY <1>6, SMT
<1>8. QED
  BY <1>1, <1>3, <1>7, SMT

(* The windows above 2GB are the blocks from the second on. *)
LEMMA WindowBlock ==
  ASSUME NEW w \in Nat, w >= 2, NEW high
  PROVE  \E k \in Nat \ {0}, s \in Nat :
           /\ w = k + 1 /\ s = k * WinPages /\ s >= WinPages
           /\ WinStart(w) = s /\ WinEnd(w, high) = s + WinPages
<1>1. WinPages \in Nat /\ WinPages > 0
  BY LayoutAssumption DEF Win0Start
<1>2. PICK k \in Nat \ {0} : w = k + 1
  <2>1. w - 1 \in Nat \ {0} /\ w = (w - 1) + 1
    OBVIOUS
  <2>2. QED
    BY <2>1
<1>3. k * WinPages \in Nat /\ k * WinPages >= WinPages
  BY <1>1, <1>2, SMT
<1>4. (k + 1) * WinPages = k * WinPages + WinPages
  BY <1>1, <1>2, SMT
<1>5. w - 1 = k
  BY <1>2
<1>6. PICK s \in Nat : s = k * WinPages /\ s >= WinPages
  BY <1>3
<1>7. WinStart(w) = s /\ WinEnd(w, high) = s + WinPages
  BY <1>2, <1>4, <1>5, <1>6 DEF WinStart, WinEnd
<1>8. WITNESS k \in Nat \ {0}, s \in Nat
<1>9. QED
  BY <1>2, <1>6, <1>7

(* A page that some window above 2GB can reach is in the window of its block. *)
LEMMA WindowOf ==
  ASSUME NEW p \in Nat, p >= WinPages, NEW n \in Nat, p < n * WinPages, NEW high
  PROVE  \E w \in 2 .. n : p \in WinStart(w) .. WinEnd(w, high) - 1
<1>1. WinPages \in Nat \ {0}
  BY LayoutAssumption DEF Win0Start
<1>2. PICK d \in Int : /\ d = p \div WinPages /\ p % WinPages \in 0 .. WinPages - 1
                      /\ p % WinPages = p - WinPages * d
  BY <1>1, BlockDivMod
<1>3. PICK s \in Int : s = WinPages * d
  BY <1>1, SMT
<1>4. s <= p /\ p < s + WinPages
  BY <1>1, <1>2, <1>3, SMT
<1>5. d >= 1
  <2>1. SUFFICES ASSUME d <= 0 PROVE FALSE
    BY SMT
  <2>2. s <= 0
    BY <1>1, <1>3, <2>1, SMT
  <2>3. QED
    BY <1>1, <1>4, <2>2, SMT
<1>6. d < n
  <2>1. SUFFICES ASSUME d >= n PROVE FALSE
    BY SMT
  <2>2. s >= n * WinPages /\ n * WinPages \in Nat
    BY <1>1, <1>3, <2>1, SMT
  <2>3. QED
    BY <1>4, <2>2, SMT
<1>7. d + 1 \in 2 .. n /\ d + 1 \in Nat
  BY <1>5, <1>6, SMT
<1>8. PICK k \in Nat \ {0}, t \in Nat :
        /\ d + 1 = k + 1 /\ t = k * WinPages
        /\ WinStart(d + 1) = t /\ WinEnd(d + 1, high) = t + WinPages
  BY <1>7, WindowBlock
<1>9. t = s
  BY <1>1, <1>3, <1>8, SMT
<1>10. p \in WinStart(d + 1) .. WinEnd(d + 1, high) - 1
  BY <1>1, <1>4, <1>8, <1>9, SMT
<1>11. QED
  BY <1>7, <1>10

-----------------------------------------------------------------------------
(* Segments and the pages behind them. *)

(* What a segment leads to when window mw is mapped in. *)
PagesOf(seg, mw) == {PageOf(v, mw) : v \in seg.first .. seg.last}
Seen(a, b) == [first |-> Mapping(a), last |-> Mapping(b - 1)]

(* The virtual addresses of a range of pages of window w lead to these pages, *)
(* as long as that window is mapped in.                                       *)
LEMMA RangePages ==
  ASSUME NEW w \in Nat, NEW high \in {HighSmall, HighBig}, NEW mw \in Nat,
         w >= 2 => mw = w - 1,
         NEW a \in Nat, NEW b \in Nat, a < b, WinStart(w) <= a, b <= WinEnd(w, high)
  PROVE  PagesOf(Seen(a, b), mw) = a .. b - 1
<1>1. WinPages \in Nat \ {0} /\ high \in Nat /\ high <= WinPages
  BY LayoutAssumption DEF Win0Start
<1>2. b - 1 \in Nat
  OBVIOUS
<1>3. CASE w < 2
  <2>1. b <= WinPages
    BY <1>1, <1>3 DEF WinEnd
  <2>2. Mapping(a) = a /\ Mapping(b - 1) = b - 1
    BY <1>1, <1>2, <2>1, MappingType
  <2>3. \A v \in a .. b - 1 : PageOf(v, mw) = v
    BY <1>1, <2>1 DEF PageOf
  <2>4. QED
    BY <2>2, <2>3 DEF PagesOf, Seen
<1>4. CASE w >= 2
  <2>1. PICK k \in Nat \ {0}, s \in Nat :
          /\ w = k + 1 /\ s = k * WinPages /\ s >= WinPages
          /\ WinStart(w) = s /\ WinEnd(w, high) = s + WinPages
    BY <1>4, WindowBlock
  <2>2. ASSUME NEW p \in Nat, s <= p, p < s + WinPages
        PROVE  Mapping(p) = p - s + WinPages
    <3>1. PICK r \in 0 .. WinPages - 1 : p = s + r
      <4>1. p - s \in 0 .. WinPages - 1 /\ p = s + (p - s)
        BY <1>1, <2>2
      <4>2. QED
        BY <4>1
    <3>2. p = k * WinPages + r
      BY <2>1, <3>1
    <3>3. p % WinPages = r
      BY <1>1, <3>2, InBlock
    <3>4. p >= WinPages
      BY <1>1, <2>1, <2>2
    <3>5. Mapping(p) = r + WinPages
      BY <1>1, <3>3, <3>4 DEF Mapping
    <3>6. QED
      BY <1>1, <3>1, <3>5
  <2>3. Mapping(a) = a - s + WinPages /\ Mapping(b - 1) = b - 1 - s + WinPages
    BY <1>1, <1>2, <2>1, <2>2
  <2>4. mw * WinPages = s
    BY <1>4, <2>1
  <2>5. \A v \in Mapping(a) .. Mapping(b - 1) : PageOf(v, mw) = v - WinPages + s
    BY <1>1, <2>1, <2>3, <2>4 DEF PageOf
  <2>6. ASSUME NEW p \in a .. b - 1
        PROVE  \E v \in Mapping(a) .. Mapping(b - 1) : PageOf(v, mw) = p
    <3>1. PICK v \in Int : v = p - s + WinPages
      BY <1>1, <2>1
    <3>2. v \in Mapping(a) .. Mapping(b - 1) /\ v - WinPages + s = p
      BY <1>1, <2>1, <2>3, <3>1
    <3>3. QED
      BY <2>5, <3>2
  <2>7. \A v \in Mapping(a) .. Mapping(b - 1) : v - WinPages + s \in a .. b - 1
    BY <1>1, <2>1, <2>3
  <2>8. QED
    BY <2>5, <2>6, <2>7 DEF PagesOf, Seen
<1>5. QED
  BY <1>3, <1>4

(* The pages of entry i of a memory map that window w has inside the limits. *)
Within(w, pm, lower, upper, high, i) ==
  {p \in pm[i].start .. pm[i].end - 1 :
     p \in lower .. upper - 1 /\ p \in WinStart(w) .. WinEnd(w, high) - 1}

(* What compute_segments() lists. *)
LEMMA SegmentFields ==
  ASSUME NEW w \in Nat, NEW pm \in PMaps, NEW lower \in Nat, NEW upper \in Nat,
         NEW high \in {HighSmall, HighBig}
  PROVE  LET m == Segments(w, pm, lower, upper, high)
         IN  /\ DOMAIN m \subseteq DOMAIN pm /\ DOMAIN pm \subseteq Nat
             /\ \A i \in DOMAIN pm \ DOMAIN m : Within(w, pm, lower, upper, high, i) = {}
             /\ \A i \in DOMAIN m : \E a \in Nat, b \in Nat :
                  /\ m[i] = [pbase |-> a, first |-> Mapping(a), last |-> Mapping(b - 1),
                             usb |-> FALSE]
                  /\ a < b /\ WinStart(w) <= a /\ b <= WinEnd(w, high)
                  /\ lower <= a /\ b <= upper
                  /\ pm[i].start <= a /\ b <= pm[i].end
                  /\ a .. b - 1 = Within(w, pm, lower, upper, high, i)
<1> DEFINE m == Segments(w, pm, lower, upper, high)
           ws == Larger(WinStart(w), lower)
           we == Smaller(WinEnd(w, high), upper)
           Start(i) == Larger(pm[i].start, ws)
           End(i) == Smaller(pm[i].end, we)
<1>1. /\ DOMAIN m = {j \in DOMAIN pm : ws < we /\ Start(j) < End(j)}
      /\ \A i \in DOMAIN m :
           m[i] = [pbase |-> Start(i), first |-> Mapping(Start(i)),
                   last |-> Mapping(End(i) - 1), usb |-> FALSE]
  BY DEF Segments
<1>2. high \in Nat
  BY LayoutAssumption
<1>3. WinStart(w) \in Nat /\ WinEnd(w, high) \in Nat
  BY <1>2, WindowType
<1>4. DOMAIN pm \subseteq Nat /\ \A i \in DOMAIN pm : pm[i].start \in Nat /\ pm[i].end \in Nat
  <2>1. pm \in Seq(PMapEntry)
    BY PMapAssumption
  <2>2. \A i \in DOMAIN pm : pm[i] \in PMapEntry
    BY <2>1
  <2>3. QED
    BY <2>1, <2>2 DEF PMapEntry
<1>5. ASSUME NEW i \in DOMAIN pm
      PROVE  /\ Start(i) \in Nat /\ End(i) \in Nat
             /\ WinStart(w) <= Start(i) /\ End(i) <= WinEnd(w, high)
             /\ lower <= Start(i) /\ End(i) <= upper
             /\ pm[i].start <= Start(i) /\ End(i) <= pm[i].end
             /\ Start(i) .. End(i) - 1 = Within(w, pm, lower, upper, high, i)
             /\ i \notin DOMAIN m => Within(w, pm, lower, upper, high, i) = {}
  <2>1. PICK x \in Nat, y \in Nat : x = pm[i].start /\ y = pm[i].end
    BY <1>4
  <2>2. PICK c \in Nat, d \in Nat : c = WinStart(w) /\ d = WinEnd(w, high)
    BY <1>3
  <2>3. /\ Start(i) = Larger(x, Larger(c, lower)) /\ End(i) = Smaller(y, Smaller(d, upper))
        /\ ws = Larger(c, lower) /\ we = Smaller(d, upper)
    BY <2>1, <2>2
  <2>4. Within(w, pm, lower, upper, high, i) =
          {p \in x .. y - 1 : p \in lower .. upper - 1 /\ p \in c .. d - 1}
    BY <2>1, <2>2 DEF Within
  <2> HIDE DEF Start, End, ws, we, m
  <2>5. /\ Start(i) \in Nat /\ End(i) \in Nat
        /\ c <= Start(i) /\ End(i) <= d
        /\ lower <= Start(i) /\ End(i) <= upper
        /\ x <= Start(i) /\ End(i) <= y
        /\ \A p \in Int : p \in Start(i) .. End(i) - 1 <=>
             p \in x .. y - 1 /\ p \in lower .. upper - 1 /\ p \in c .. d - 1
    BY <2>3 DEF Larger, Smaller
  <2>6. Start(i) .. End(i) - 1 = Within(w, pm, lower, upper, high, i)
    BY <2>4, <2>5
  <2>7. ASSUME i \notin DOMAIN m
        PROVE  Start(i) .. End(i) - 1 = {}
    <3>1. ~(ws < we) \/ ~(Start(i) < End(i))
      BY <1>1, <2>7
    <3>2. ~(Start(i) < End(i))
      BY <2>3, <3>1 DEF Larger, Smaller
    <3>3. QED
      BY <2>5, <3>2
  <2>8. QED
    BY <2>1, <2>2, <2>5, <2>6, <2>7
<1>6. ASSUME NEW i \in DOMAIN m
      PROVE  \E a \in Nat, b \in Nat :
                  /\ m[i] = [pbase |-> a, first |-> Mapping(a), last |-> Mapping(b - 1),
                             usb |-> FALSE]
                  /\ a < b /\ WinStart(w) <= a /\ b <= WinEnd(w, high)
                  /\ lower <= a /\ b <= upper
                  /\ pm[i].start <= a /\ b <= pm[i].end
                  /\ a .. b - 1 = Within(w, pm, lower, upper, high, i)
  <2>1. i \in DOMAIN pm /\ Start(i) < End(i)
    BY <1>1, <1>6
  <2>2. m[i] = [pbase |-> Start(i), first |-> Mapping(Start(i)),
                last |-> Mapping(End(i) - 1), usb |-> FALSE]
    BY <1>1, <1>6
  <2> HIDE DEF Start, End, m
  <2>3. PICK a \in Nat, b \in Nat : a = Start(i) /\ b = End(i)
    BY <1>5, <2>1
  <2>4. WITNESS a \in Nat, b \in Nat
  <2>5. QED
    BY <1>5, <2>1, <2>2, <2>3
<1>7. QED
  BY <1>1, <1>4, <1>5, <1>6

(* A segment of a window that is mapped in leads to its pages. *)
LEMMA SegmentPages ==
  ASSUME NEW w \in Nat, NEW pm \in PMaps, NEW lower \in Nat, NEW upper \in Nat,
         NEW high \in {HighSmall, HighBig}, NEW mw \in Nat,
         w >= 2 => mw = w - 1
  PROVE  LET m == Segments(w, pm, lower, upper, high)
         IN  \A i \in DOMAIN m : PagesOf(m[i], mw) = Within(w, pm, lower, upper, high, i)
<1> DEFINE m == Segments(w, pm, lower, upper, high)
<1> SUFFICES ASSUME NEW i \in DOMAIN m
             PROVE  PagesOf(m[i], mw) = Within(w, pm, lower, upper, high, i)
  OBVIOUS
<1>1. PICK a \in Nat, b \in Nat :
        /\ m[i] = [pbase |-> a, first |-> Mapping(a), last |-> Mapping(b - 1),
                   usb |-> FALSE]
        /\ a < b /\ WinStart(w) <= a /\ b <= WinEnd(w, high)
        /\ a .. b - 1 = Within(w, pm, lower, upper, high, i)
  BY SegmentFields
<1> HIDE DEF m
<1>2. PagesOf(m[i], mw) = PagesOf(Seen(a, b), mw)
  BY <1>1 DEF PagesOf, Seen
<1>3. PagesOf(Seen(a, b), mw) = a .. b - 1
  BY <1>1, RangePages
<1>4. QED
  BY <1>1, <1>2, <1>3

(* The first segment of a window lies in the block of that window.           *)
LEMMA FirstBlock ==
  ASSUME NEW w \in Nat, NEW high \in {HighSmall, HighBig}, NEW a \in Nat,
         WinStart(w) <= a, a < WinEnd(w, high)
  PROVE  Block(a) = IF w < 2 THEN 0 ELSE w - 1
<1>1. WinPages \in Nat \ {0} /\ high \in Nat /\ high <= WinPages
  BY LayoutAssumption DEF Win0Start
<1>2. PICK k \in Nat, r \in 0 .. WinPages - 1 :
        a = k * WinPages + r /\ k = IF w < 2 THEN 0 ELSE w - 1
  <2>1. CASE w < 2
    <3>1. a \in 0 .. WinPages - 1 /\ a = 0 * WinPages + a
      BY <1>1, <2>1 DEF WinEnd
    <3>2. QED
      BY <2>1, <3>1
  <2>2. CASE w >= 2
    <3>1. PICK k \in Nat \ {0}, s \in Nat :
            /\ w = k + 1 /\ s = k * WinPages /\ s >= WinPages
            /\ WinStart(w) = s /\ WinEnd(w, high) = s + WinPages
      BY <2>2, WindowBlock
    <3>2. PICK r \in 0 .. WinPages - 1 : a = s + r
      <4>1. a - s \in 0 .. WinPages - 1 /\ a = s + (a - s)
        BY <1>1, <3>1
      <4>2. QED
        BY <4>1
    <3>3. a = k * WinPages + r /\ k = w - 1
      BY <3>1, <3>2
    <3>4. QED
      BY <2>2, <3>3
  <2>3. QED
    BY <2>1, <2>2
<1>3. a = k * WinPages + r
  BY <1>2, Zenon
<1>4. a \div WinPages = k
  BY <1>1, <1>3, InBlock
<1>5. QED
  BY <1>2, <1>4 DEF Block

-----------------------------------------------------------------------------
(* The invariant. *)

(* Above 2GB the window under test is the one that is mapped in.             *)
Fits == InTest /\ window >= 2 => mappedWin = window - 1
(* Without PAE the first block above 2GB is always mapped in.                *)
OneBlock == ~Pae => mappedWin = 1

(* The windows the program gets to.                                          *)
CanReach(w) == (w = 1 => EnoughForHigh) /\ (w > 2 => Pae)

Selected(w, i) == Within(w, pmap, plimLower, plimUpper, highAdr, i)

Covered(w) == CanReach(w) => \A i \in DOMAIN pmap : Selected(w, i) \subseteq touched

(* A number that names no test, or the bit fade test, and that stays until   *)
(* the last window.                                                          *)
Exempt == test \notin 0 .. FadeTest - 1 /\ (testsel >= 0 => test = testsel)

CoveredUpTo(k) == Exempt \/ \A w \in Nat : w < k => Covered(w)

(* The segments of a test have all of the window, and what has been swept is *)
(* touched.                                                                  *)
Progress ==
  /\ \A i \in DOMAIN pmap : Selected(window, i) # {} =>
       i \in DOMAIN map /\ Selected(window, i) \subseteq PagesOf(map[i], mappedWin)
  /\ \A i \in DOMAIN map : i \in swept => PagesOf(map[i], mappedWin) \subseteq touched

CoverInv ==
  /\ pc = "window" \/ (pc = "do_test" /\ firsttime) => CoveredUpTo(window)
  /\ pc = "next_window" => CoveredUpTo(window + 1)
  /\ InTest /\ ~bail =>
       CoveredUpTo(window) /\ (CoveredUpTo(window + 1) \/ Progress)

CInv == Fits /\ OneBlock /\ TestsOnlySelected /\ CoverInv

LEMMA PhysIsPages == \A seg : PhysPages(seg) = PagesOf(seg, mappedWin)
BY DEF PhysPages, PagesOf

(* What the tests of a window are given.                                     *)
LEMMA StartedMap ==
  ASSUME IInv, StartTest
  PROVE  LET m == WindowSegments
         IN  /\ mappedWin' \in Nat /\ (window >= 2 => mappedWin' = window - 1)
             /\ OneBlock => OneBlock'
             /\ DOMAIN map' = DOMAIN m
             /\ \A i \in DOMAIN m :
                  /\ Selected(window, i) \subseteq PagesOf(map'[i], mappedWin')
                  /\ PagesOf(map'[i], mappedWin') \subseteq plimLower .. plimUpper - 1
                  /\ at = Low => PagesOf(map'[i], mappedWin')
                                   \subseteq pmap[i].start .. pmap[i].end - 1
<1> DEFINE m == WindowSegments
           f == FirstSeg(m)
<1>1. /\ pc = "window" /\ firsttime /\ RightCopy
      /\ window \in Nat /\ pmap \in PMaps /\ plimLower \in Nat /\ plimUpper \in Nat
      /\ highAdr \in {HighSmall, HighBig} /\ mappedWin \in Nat
  BY LayoutAssumption
     DEF StartTest, EnterWindow, IInv, Settled, CopyFitsWindow, TypeOK, PCs
<1>2. /\ DOMAIN m # {} /\ CanMap(m[f].pbase) /\ mappedWin' = MapPage(m[f].pbase)
      /\ map' = IF at > Low THEN FromLowerLimit(m) ELSE m
  BY DEF StartTest, CanTest
<1>3. m = Segments(window, pmap, plimLower, plimUpper, highAdr)
  BY DEF WindowSegments
<1>4. SegmentsOf(m, pmap)
  BY <1>1, <1>3, SegmentsFit
<1> HIDE DEF m
<1>5. f \in DOMAIN m
  BY <1>1, <1>2, <1>4, FirstSegExists
<1>6. \A i \in DOMAIN m : \E a \in Nat, b \in Nat :
        /\ m[i] = [pbase |-> a, first |-> Mapping(a), last |-> Mapping(b - 1),
                   usb |-> FALSE]
        /\ a < b /\ WinStart(window) <= a /\ b <= WinEnd(window, highAdr)
        /\ plimLower <= a /\ b <= plimUpper
        /\ pmap[i].start <= a /\ b <= pmap[i].end
        /\ a .. b - 1 = Selected(window, i)
  BY <1>1, <1>3, SegmentFields DEF Selected
<1>7. Block(m[f].pbase) = IF window < 2 THEN 0 ELSE window - 1
  <2>1. PICK a \in Nat, b \in Nat :
          /\ m[f] = [pbase |-> a, first |-> Mapping(a), last |-> Mapping(b - 1),
                     usb |-> FALSE]
          /\ a < b /\ WinStart(window) <= a /\ b <= WinEnd(window, highAdr)
    BY <1>5, <1>6
  <2>2. WinEnd(window, highAdr) \in Nat
    BY <1>1, WindowType, LayoutAssumption
  <2>3. m[f].pbase = a /\ a < WinEnd(window, highAdr)
    BY <2>1, <2>2
  <2>4. QED
    BY <1>1, <2>1, <2>3, FirstBlock
<1>8. mappedWin' \in Nat /\ (window >= 2 => mappedWin' = window - 1)
  BY <1>1, <1>2, <1>7 DEF MapPage
<1>9. OneBlock => OneBlock'
  BY <1>1, <1>2, <1>7 DEF OneBlock, MapPage, CanMap
<1>10. \A i \in DOMAIN m : PagesOf(m[i], mappedWin') = Selected(window, i)
  BY <1>1, <1>3, <1>8, SegmentPages DEF Selected
<1>11. \A i \in DOMAIN m : /\ Selected(window, i) \subseteq plimLower .. plimUpper - 1
                           /\ Selected(window, i) \subseteq pmap[i].start .. pmap[i].end - 1
  BY DEF Selected, Within
<1>12. CASE ~(at > Low)
  BY <1>2, <1>8, <1>9, <1>10, <1>11, <1>12 DEF m
<1>13. CASE at > Low
  <2>1. window = 1 /\ at # Low /\ Low \in Nat
    BY <1>1, <1>13, LayoutAssumption DEF RightCopy
  <2>2. DOMAIN map' = DOMAIN m
    BY <1>1, <1>2, <1>4, <1>13, FromLowerLimitFit
  <2>3. ASSUME NEW i \in DOMAIN m
        PROVE  /\ Selected(window, i) \subseteq PagesOf(map'[i], mappedWin')
               /\ PagesOf(map'[i], mappedWin') \subseteq plimLower .. plimUpper - 1
    <3>1. CASE i # f
      <4>1. map'[i] = m[i]
        BY <1>2, <1>13, <3>1 DEF FromLowerLimit
      <4>2. QED
        BY <1>10, <1>11, <4>1
    <3>2. CASE i = f
      <4>1. PICK a \in Nat, b \in Nat :
              /\ m[i] = [pbase |-> a, first |-> Mapping(a), last |-> Mapping(b - 1),
                         usb |-> FALSE]
              /\ a < b /\ b <= WinEnd(window, highAdr)
              /\ plimLower <= a /\ b <= plimUpper
              /\ a .. b - 1 = Selected(window, i)
        BY <1>6
      <4>2. map'[i].first = Mapping(plimLower) /\ map'[i].last = Mapping(b - 1)
        <5>1. map' = [m EXCEPT ![f] = [m[f] EXCEPT !.first = Mapping(plimLower),
                                                   !.usb = (plimLower = 0)]]
          BY <1>2, <1>13 DEF FromLowerLimit
        <5>2. map'[i] = [m[i] EXCEPT !.first = Mapping(plimLower),
                                     !.usb = (plimLower = 0)]
          BY <1>5, <3>2, <5>1
        <5>3. QED
          BY <4>1, <5>2
      <4>3. PagesOf(map'[i], mappedWin') = PagesOf(Seen(plimLower, b), mappedWin')
        BY <4>2 DEF PagesOf, Seen
      <4>4. WinStart(window) <= plimLower /\ plimLower < b
        BY <1>1, <2>1, <4>1 DEF WinStart
      <4>5. PagesOf(Seen(plimLower, b), mappedWin') = plimLower .. b - 1
        BY <1>1, <1>8, <2>1, <4>1, <4>4, RangePages
      <4>6. QED
        BY <1>1, <4>1, <4>3, <4>5
    <3>3. QED
      BY <3>1, <3>2
  <2>4. QED
    BY <1>8, <1>9, <2>1, <2>2, <2>3 DEF m
<1>14. QED
  BY <1>12, <1>13

-----------------------------------------------------------------------------
(* Facts about single steps that several actions need. *)

(* The variables of Selected and the set of covered pages. *)
Unlimited == UNCHANGED <<pmap, plimLower, plimUpper, highAdr>>

(* What is covered stays so.                                                 *)
LEMMA StaysCovered ==
  ASSUME Unlimited, touched \subseteq touched', NEW w
  PROVE  /\ Covered(w) => Covered(w)'
         /\ \A i : Selected(w, i)' = Selected(w, i)
<1>1. \A i : Selected(w, i)' = Selected(w, i)
  BY DEF Unlimited, Selected
<1>2. CanReach(w)' = CanReach(w) /\ pmap' = pmap
  BY DEF Unlimited, CanReach, EnoughForHigh, LastEnd
<1>3. QED
  BY <1>1, <1>2 DEF Covered

LEMMA StaysCoveredUpTo ==
  ASSUME Unlimited, touched \subseteq touched', UNCHANGED <<test, testsel>>,
         NEW k, NEW j, CoveredUpTo(k), \A w \in Nat : w < j => w < k
  PROVE  CoveredUpTo(j)'
<1>1. Exempt => Exempt'
  BY DEF Exempt
<1>2. \A w \in Nat : Covered(w) => Covered(w)'
  BY StaysCovered
<1>3. QED
  BY <1>1, <1>2 DEF CoveredUpTo

(* Nothing has to be covered when a test begins.                             *)
LEMMA NothingYet == CoveredUpTo(0)
BY DEF CoveredUpTo

(* Outside a test only the record of the windows that are over counts.       *)
LEMMA OutsideTest ==
  ASSUME pc' \in PCs \ {"test"}, pc' = "menu" => from' # "test"
  PROVE  ~InTest' /\ Fits' /\ TestsOnlySelected'
BY DEF InTest, Fits, TestsOnlySelected

LEMMA OutsideCInv ==
  ASSUME pc' \in PCs \ {"test"}, pc' = "menu" => from' # "test", OneBlock',
         pc' = "window" \/ (pc' = "do_test" /\ firsttime') => CoveredUpTo(window)',
         pc' = "next_window" => CoveredUpTo(window + 1)'
  PROVE  CInv'
<1>1. ~InTest' /\ Fits' /\ TestsOnlySelected'
  BY OutsideTest
<1>2. CoverInv'
  BY <1>1 DEF CoverInv
<1>3. QED
  BY <1>1, <1>2 DEF CInv

(* Going on where nothing has changed that the invariant is about.           *)
LEMMA SameTest ==
  ASSUME CInv, InTest' => InTest,
         UNCHANGED <<at, window, map, mappedWin, pmap, plimLower, plimUpper,
                     highAdr, testsel, test, swept, touched>>,
         InTest' /\ ~bail' => ~bail, pc' \in {"test", "menu"}
  PROVE  CInv'
<1>1. /\ Fits' /\ OneBlock'
  BY DEF CInv, Fits, OneBlock
<1>2. TestsOnlySelected'
  BY DEF CInv, TestsOnlySelected, PhysPages
<1>3. Progress => Progress'
  BY DEF Progress, Selected
<1>4. \A k : CoveredUpTo(k) => CoveredUpTo(k)'
  BY StaysCoveredUpTo DEF Unlimited
<1>5. InTest' /\ ~bail' => CoveredUpTo(window)' /\ (CoveredUpTo(window + 1) \/ Progress)'
  BY <1>3, <1>4 DEF CInv, CoverInv
<1>6. CoverInv'
  BY <1>5 DEF CoverInv
<1>7. QED
  BY <1>1, <1>2, <1>6 DEF CInv

-----------------------------------------------------------------------------
(* Every step preserves the invariant: the entry of do_test(). *)
LEMMA BootCInv == IInv /\ CInv /\ Boot => CInv'
<1> SUFFICES ASSUME IInv, CInv, Boot PROVE CInv'
  OBVIOUS
<1> USE DEF memory, selected, walk, history
<1>1. CASE FinishRelocation
  <2>1. CoveredUpTo(window) /\ firsttime => CoveredUpTo(window)'
    BY <1>1, StaysCoveredUpTo DEF FinishRelocation, Unlimited
  <2>2. QED
    BY <1>1, <2>1, OutsideCInv DEF FinishRelocation, CInv, CoverInv, OneBlock, PCs
<1>2. CASE MoveHome
  <2>1. pc' = "do_test" /\ ~firsttime' /\ mappedWin' = mappedWin
    BY <1>2 DEF MoveHome, Restart, RunAt
  <2>2. QED
    BY <2>1, OutsideCInv DEF CInv, OneBlock, PCs
<1>3. CASE FirstTime
  <2>1. pc' = "window" /\ window' = 0 /\ mappedWin' = mappedWin
    BY <1>3 DEF FirstTime
  <2>2. CoveredUpTo(window)'
    BY <2>1 DEF CoveredUpTo
  <2>3. QED
    BY <2>1, <2>2, OutsideCInv DEF CInv, OneBlock, PCs
<1>4. CASE Resume
  <2>1. CoveredUpTo(window) => CoveredUpTo(window)'
    BY <1>4, StaysCoveredUpTo DEF Resume, Unlimited
  <2>2. QED
    BY <1>4, <2>1, OutsideCInv DEF Resume, Arrived, CInv, CoverInv, OneBlock, PCs
<1>5. QED
  BY <1>1, <1>2, <1>3, <1>4 DEF Boot

(* ... a window with nothing to test.                                        *)
LEMMA SkipCInv == IInv /\ CInv /\ SkipWindow => CInv'
<1> SUFFICES ASSUME IInv, CInv, SkipWindow PROVE CInv'
  OBVIOUS
<1> USE DEF memory, image
<1> DEFINE m == WindowSegments
           f == FirstSeg(m)
<1>1. /\ pc = "window" /\ pc' = "next_window"
      /\ UNCHANGED <<window, memory, testsel, test, mappedWin>>
      /\ touched' = IF window = 0 THEN {} ELSE touched
      /\ ~CanTest(m)
  BY DEF SkipWindow, EnterWindow
<1>2. /\ window \in Nat /\ window < NWindows /\ NWindows \in Nat
      /\ pmap \in PMaps /\ plimLower \in Nat /\ plimUpper \in Nat
      /\ highAdr \in {HighSmall, HighBig}
  BY <1>1, LayoutAssumption DEF IInv, Settled, TypeOK, PCs
<1>3. m = Segments(window, pmap, plimLower, plimUpper, highAdr)
  BY DEF WindowSegments
<1>4. SegmentsOf(m, pmap)
  BY <1>2, <1>3, SegmentsFit
<1> HIDE DEF m
<1>5. CASE DOMAIN m = {}
  <2>1. \A i \in DOMAIN pmap : Selected(window, i) = {}
    <3>1. \A i \in DOMAIN pmap \ DOMAIN m :
            Within(window, pmap, plimLower, plimUpper, highAdr, i) = {}
      BY <1>2, <1>3, SegmentFields
    <3>2. DOMAIN pmap \ DOMAIN m = DOMAIN pmap
      BY <1>5
    <3>3. QED
      BY <3>1, <3>2 DEF Selected
  <2>2. \A i \in DOMAIN pmap' : Selected(window, i)' = {}
    BY <1>1, <2>1 DEF Selected
  <2>3. Covered(window)'
    BY <1>1, <2>2 DEF Covered
  <2>4. QED
    <3>1. CoveredUpTo(window + 1)'
      <4>1. CoveredUpTo(window)
        BY <1>1 DEF CInv, CoverInv
      <4>2. CASE Exempt
        BY <1>1, <4>2 DEF CoveredUpTo, Exempt
      <4>3. CASE \A w \in Nat : w < window => Covered(w)
        <5>1. ASSUME NEW w \in Nat, w < window + 1
              PROVE  Covered(w)'
          <6>1. CASE w = window
            BY <1>1, <2>3, <6>1
          <6>2. CASE w < window
            <7>1. touched' = touched
              BY <1>1, <1>2, <6>2
            <7>2. QED
              BY <1>1, <4>3, <6>2, <7>1, StaysCovered DEF Unlimited
          <6>3. QED
            BY <1>2, <5>1, <6>1, <6>2
        <5>2. QED
          BY <1>1, <5>1 DEF CoveredUpTo
      <4>4. QED
        BY <4>1, <4>2, <4>3 DEF CoveredUpTo
    <3>2. QED
      BY <1>1, <3>1, OutsideCInv DEF CInv, OneBlock, PCs
<1>6. CASE DOMAIN m # {}
  <2>1. f \in DOMAIN m /\ ~CanMap(m[f].pbase)
    BY <1>1, <1>2, <1>4, <1>6, FirstSegExists DEF CanTest
  <2>2. PICK a \in Nat, b \in Nat :
          /\ m[f] = [pbase |-> a, first |-> Mapping(a), last |-> Mapping(b - 1),
                     usb |-> FALSE]
          /\ a < b /\ WinStart(window) <= a /\ b <= WinEnd(window, highAdr)
          /\ plimLower <= a /\ b <= plimUpper
          /\ pmap[f].start <= a /\ b <= pmap[f].end
          /\ a .. b - 1 = Within(window, pmap, plimLower, plimUpper, highAdr, f)
    <3>1. \A i \in DOMAIN m : \E a \in Nat, b \in Nat :
            /\ m[i] = [pbase |-> a, first |-> Mapping(a), last |-> Mapping(b - 1),
                       usb |-> FALSE]
            /\ a < b /\ WinStart(window) <= a /\ b <= WinEnd(window, highAdr)
            /\ plimLower <= a /\ b <= plimUpper
            /\ pmap[i].start <= a /\ b <= pmap[i].end
            /\ a .. b - 1 = Within(window, pmap, plimLower, plimUpper, highAdr, i)
      BY <1>2, <1>3, SegmentFields
    <3>2. QED
      BY <2>1, <3>1
  <2>3. WinEnd(window, highAdr) \in Nat /\ window \in Nat
    BY <1>2, WindowType, LayoutAssumption
  <2>4. Block(m[f].pbase) = IF window < 2 THEN 0 ELSE window - 1
    BY <1>2, <2>2, <2>3, FirstBlock
  <2>5. window > 2 /\ ~Pae
    <3>1. Block(m[f].pbase) \notin {0, mappedWin}
      BY <2>1 DEF CanMap
    <3>2. window >= 2 /\ window - 1 # mappedWin /\ window - 1 < NWindows - 1
      BY <1>2, <2>4, <3>1
    <3>3. ~Pae
      BY <2>1, <2>4, <3>2, <1>2 DEF CanMap
    <3>4. QED
      BY <1>2, <3>2, <3>3 DEF CInv, OneBlock
  <2>6. ~CanReach(window)'
    BY <1>1, <2>5 DEF CanReach
  <2>7. touched' = touched
    BY <1>1, <2>5
  <2>8. CoveredUpTo(window + 1)'
    <3>1. CoveredUpTo(window)
      BY <1>1 DEF CInv, CoverInv
    <3>2. Exempt => Exempt'
      BY <1>1 DEF Exempt
    <3>3. \A w \in Nat : Covered(w) => Covered(w)'
      BY <1>1, <2>7, StaysCovered DEF Unlimited
    <3>4. Covered(window)'
      BY <1>1, <2>6 DEF Covered
    <3>5. \A w \in Nat : w < window + 1 => w < window \/ w = window
      BY <2>3
    <3>6. QED
      BY <1>1, <3>1, <3>2, <3>3, <3>4, <3>5 DEF CoveredUpTo
  <2>9. QED
    BY <1>1, <2>8, OutsideCInv DEF CInv, OneBlock, PCs
<1>7. QED
  BY <1>5, <1>6

(* ... the start of a test.                                                  *)
LEMMA StartCInv == IInv /\ CInv /\ StartTest => CInv'
<1> SUFFICES ASSUME IInv, CInv, StartTest PROVE CInv'
  OBVIOUS
<1> USE DEF memory, image
<1> DEFINE m == WindowSegments
<1>1. /\ pc = "window" /\ swept' = {} /\ UNCHANGED <<window, memory, testsel, at>>
      /\ touched' = IF window = 0 THEN {} ELSE touched
      /\ test' = (IF testsel >= 0 THEN testsel ELSE test)
      /\ pc' \in IF test' = FadeTest /\ window # 0 THEN {"next_window"}
                 ELSE IF test' < 0 THEN {"test", "next_window"} ELSE {"test"}
  BY DEF StartTest, EnterWindow
<1>2. /\ window \in Nat /\ pmap \in PMaps /\ plimLower \in Nat /\ plimUpper \in Nat
      /\ highAdr \in {HighSmall, HighBig} /\ test' \in Int
  BY <1>1, LayoutAssumption DEF IInv, Settled, TypeOK, PCs
<1>3. /\ mappedWin' \in Nat /\ (window >= 2 => mappedWin' = window - 1)
      /\ OneBlock'
      /\ DOMAIN map' = DOMAIN m
      /\ \A i \in DOMAIN m :
           /\ Selected(window, i) \subseteq PagesOf(map'[i], mappedWin')
           /\ PagesOf(map'[i], mappedWin') \subseteq plimLower .. plimUpper - 1
           /\ at = Low => PagesOf(map'[i], mappedWin')
                            \subseteq pmap[i].start .. pmap[i].end - 1
  BY StartedMap DEF CInv
<1>4. \A i \in DOMAIN pmap \ DOMAIN m : Selected(window, i) = {}
  BY <1>2, SegmentFields DEF Selected, WindowSegments
<1> HIDE DEF m
<1>5. CoveredUpTo(window)'
  <2>1. CoveredUpTo(window)
    BY <1>1 DEF CInv, CoverInv
  <2>2. CASE Exempt
    BY <1>1, <2>2 DEF Exempt, CoveredUpTo
  <2>3. CASE \A w \in Nat : w < window => Covered(w)
    <3>1. ASSUME NEW w \in Nat, w < window
          PROVE  Covered(w)'
      <4>1. touched' = touched
        BY <1>1, <1>2, <3>1
      <4>2. QED
        BY <1>1, <2>3, <3>1, <4>1, StaysCovered DEF Unlimited
    <3>2. QED
      BY <1>1, <3>1 DEF CoveredUpTo
  <2>4. QED
    BY <2>1, <2>2, <2>3 DEF CoveredUpTo
<1>6. CASE pc' = "test"
  <2>1. Progress'
    <3>1. \A i : Selected(window, i)' = Selected(window, i)
      BY <1>1 DEF Selected
    <3>2. QED
      BY <1>1, <1>3, <1>4, <3>1 DEF Progress
  <2>2. Fits' /\ TestsOnlySelected'
    <3>1. \A i \in DOMAIN map' : PhysPages(map[i])' = PagesOf(map'[i], mappedWin')
      BY DEF PhysPages, PagesOf
    <3>2. QED
      BY <1>1, <1>3, <3>1 DEF Fits, TestsOnlySelected
  <2>3. QED
    BY <1>3, <1>5, <1>6, <2>1, <2>2 DEF CInv, CoverInv
<1>7. CASE pc' = "next_window"
  <2>1. test' = FadeTest \/ test' < 0
    BY <1>1, <1>7
  <2>2. test' \notin 0 .. FadeTest - 1
    BY <1>2, <2>1, InputAssumption
  <2>3. Exempt'
    BY <1>1, <2>2 DEF Exempt
  <2>4. QED
    BY <1>3, <1>7, <2>3, OutsideCInv DEF CoveredUpTo, PCs
<1>8. QED
  BY <1>1, <1>6, <1>7

(* ... the sweeps of a test, and its end.                                    *)
LEMMA TestCInv ==
  IInv /\ CInv /\ (TestSegment \/ NextSweep \/ EndTest \/ BailOut) => CInv'
<1> SUFFICES ASSUME IInv, CInv, TestSegment \/ NextSweep \/ EndTest \/ BailOut
             PROVE  CInv'
  OBVIOUS
<1> USE DEF memory, image, selected
<1>1. CASE TestSegment
  <2>1. PICK i \in DOMAIN map \ swept :
          /\ swept' = swept \cup {i}
          /\ touched' = touched \cup PhysPages(map[i])
          /\ pc' = IF HitsImage(map[i], at) THEN "lost" ELSE "test"
    BY <1>1 DEF TestSegment
  <2>2. /\ pc = "test" /\ ~bail
        /\ UNCHANGED <<at, window, map, mappedWin, pmap, plimLower, plimUpper, highAdr,
                       testsel, test, bail>>
    BY <1>1 DEF TestSegment
  <2>3. InTest
    BY <2>2 DEF InTest
  <2>4. Fits' /\ OneBlock'
    BY <2>2, <2>3 DEF InTest, CInv, Fits, OneBlock
  <2>5. TestsOnlySelected'
    BY <2>2, <2>3 DEF CInv, TestsOnlySelected, PhysPages
  <2>6. touched \subseteq touched' /\ PagesOf(map[i], mappedWin) \subseteq touched'
    BY <2>1, PhysIsPages
  <2>7. Progress => Progress'
    <3>1. \A j : Selected(window, j)' = Selected(window, j)
      BY <2>2 DEF Selected
    <3>2. SUFFICES ASSUME Progress, NEW j \in DOMAIN map, j \in swept \cup {i}
                   PROVE  PagesOf(map[j], mappedWin) \subseteq touched'
      BY <2>1, <2>2, <3>1 DEF Progress
    <3>3. QED
      BY <2>6, <3>2 DEF Progress
  <2>8. \A k : CoveredUpTo(k) => CoveredUpTo(k)'
    BY <2>2, <2>6, StaysCoveredUpTo DEF Unlimited
  <2>9. CoveredUpTo(window)' /\ (CoveredUpTo(window + 1) \/ Progress)'
    BY <2>2, <2>3, <2>7, <2>8 DEF CInv, CoverInv
  <2>10. CoverInv'
    BY <2>1, <2>9 DEF CoverInv
  <2>11. QED
    BY <2>4, <2>5, <2>10 DEF CInv
<1>2. CASE NextSweep
  <2>1. /\ pc = "test" /\ ~bail /\ swept' = {}
        /\ UNCHANGED <<pc, from, at, window, map, mappedWin, pmap, plimLower, plimUpper,
                       highAdr, testsel, test, bail, touched>>
    BY <1>2 DEF NextSweep, history
  <2>2. InTest
    BY <2>1 DEF InTest
  <2>3. Fits' /\ OneBlock'
    BY <2>1, <2>2 DEF InTest, CInv, Fits, OneBlock
  <2>4. TestsOnlySelected'
    BY <2>1, <2>2 DEF CInv, TestsOnlySelected, PhysPages
  <2>5. Progress => Progress'
    BY <2>1 DEF Progress, Selected
  <2>6. \A k : CoveredUpTo(k) => CoveredUpTo(k)'
    BY <2>1, StaysCoveredUpTo DEF Unlimited
  <2>7. CoveredUpTo(window)' /\ (CoveredUpTo(window + 1) \/ Progress)'
    BY <2>1, <2>2, <2>5, <2>6 DEF CInv, CoverInv
  <2>8. CoverInv'
    BY <2>1, <2>7 DEF CoverInv
  <2>9. QED
    BY <2>3, <2>4, <2>8 DEF CInv
<1>3. CASE EndTest
  <2>1. /\ pc = "test" /\ ~bail /\ DOMAIN map \subseteq swept /\ pc' = "next_window"
        /\ UNCHANGED <<window, map, mappedWin, pmap, plimLower, plimUpper, highAdr,
                       testsel, test, touched>>
    BY <1>3 DEF EndTest, history
  <2>2. InTest /\ window \in Nat
    BY <2>1, LayoutAssumption DEF InTest, IInv, TypeOK
  <2>3. CoveredUpTo(window) /\ (CoveredUpTo(window + 1) \/ Progress)
    BY <2>1, <2>2 DEF CInv, CoverInv
  <2>4. CoveredUpTo(window + 1)
    <3>1. SUFFICES ASSUME Progress, ~Exempt PROVE CoveredUpTo(window + 1)
      BY <2>3 DEF CoveredUpTo
    <3>2. \A i \in DOMAIN pmap : Selected(window, i) \subseteq touched
      BY <2>1, <3>1 DEF Progress
    <3>3. Covered(window)
      BY <3>2 DEF Covered
    <3>4. \A w \in Nat : w < window + 1 => w < window \/ w = window
      BY <2>2
    <3>5. QED
      BY <2>3, <3>1, <3>3, <3>4 DEF CoveredUpTo
  <2>5. CoveredUpTo(window + 1)'
    BY <2>1, <2>4, StaysCoveredUpTo DEF Unlimited
  <2>6. QED
    BY <2>1, <2>5, OutsideCInv DEF CInv, OneBlock, PCs
<1>4. CASE BailOut
  <2>1. pc' = "check_input" /\ OneBlock'
    BY <1>4 DEF BailOut, PagingOff, CInv, OneBlock
  <2>2. QED
    BY <2>1, OutsideCInv DEF PCs
<1>5. QED
  BY <1>1, <1>2, <1>3, <1>4

(* ... the way from one window to the next.                                  *)
LEMMA AfterInputCInv ==
  ASSUME CInv, AfterInput, UNCHANGED mappedWin
  PROVE  CInv'
<1>1. /\ window' = 0 /\ pc' \in {"menu", "do_test"}
      /\ pc' = "menu" => from' = "end_of_pass"
  BY DEF AfterInput, RunAt
<1>2. CoveredUpTo(window)'
  BY <1>1 DEF CoveredUpTo
<1>3. QED
  BY <1>1, <1>2, OutsideCInv DEF CInv, OneBlock, PCs

LEMMA AdvanceCInv == IInv /\ CInv /\ Advance => CInv'
<1> SUFFICES ASSUME IInv, CInv, Advance PROVE CInv'
  OBVIOUS
<1> USE DEF memory, image, selected, walk, history
<1>1. CASE AdvanceWindow
  <2>1. /\ pc = "next_window" /\ firsttime /\ at \in {Low, highAdr}
        /\ window' = window + 1 /\ window \in Nat
        /\ highAdr \in {HighSmall, HighBig}
        /\ UNCHANGED <<pmap, plimLower, plimUpper, highAdr, testsel, test, touched>>
    BY <1>1, LayoutAssumption DEF IInv, Settled, TypeOK, PCs, AdvanceWindow
  <2>2. OneBlock'
    BY <1>1 DEF AdvanceWindow, PagingOff, CInv, OneBlock
  <2>3. CoveredUpTo(window + 1)
    BY <2>1 DEF CInv, CoverInv
  <2>4. CoveredUpTo(window)'
    BY <2>1, <2>3, StaysCoveredUpTo DEF Unlimited
  <2>5. \/ pc' = "do_test"
        \/ /\ pc' = "next_window" /\ ~EnoughForHigh
           /\ WinStart(window + 1) < at + CodePages
    BY <1>1, <2>1 DEF AdvanceWindow, RunAt
  <2>6. ASSUME pc' = "next_window"
        PROVE  CoveredUpTo(window + 1)'
    <3>1. window + 1 = 1
      <4>1. SUFFICES ASSUME window + 1 >= 2 PROVE FALSE
        BY <2>1
      <4>2. WinStart(window + 1) \in Nat /\ WinStart(window + 1) >= WinPages
        BY <2>1, <4>1, HighWindows
      <4>3. at + CodePages <= WinPages /\ at + CodePages \in Nat /\ WinPages \in Nat
        BY <2>1, LayoutAssumption DEF Win0Start
      <4>4. QED
        BY <2>5, <2>6, <4>2, <4>3
    <3>2. ~CanReach(1)'
      BY <2>1, <2>5, <2>6 DEF CanReach, EnoughForHigh, LastEnd
    <3>3. Covered(1)'
      BY <3>2 DEF Covered
    <3>4. window' = 1 /\ \A w \in Nat : w < window' + 1 => w < window' \/ w = 1
      BY <2>1, <3>1
    <3>5. QED
      BY <2>4, <3>3, <3>4 DEF CoveredUpTo
  <2>7. QED
    BY <2>2, <2>4, <2>5, <2>6, OutsideCInv DEF PCs
<1>2. CASE LastWindow
  <2>1. pc' = "check_input" /\ OneBlock'
    BY <1>2 DEF LastWindow, PagingOff, CInv, OneBlock
  <2>2. QED
    BY <2>1, OutsideCInv DEF PCs
<1>3. CASE NoKey
  BY <1>3, AfterInputCInv DEF NoKey
<1>4. QED
  BY <1>1, <1>2, <1>3 DEF Advance

(* ... the menu, when it computes the segments anew.  Either the test is cut *)
(* short or the limits and the test are what they were.                      *)
LEMMA SettingsCInv ==
  ASSUME IInv, CInv, InMenu, Recompute(plimLower', plimUpper'),
         \/ bail' = TRUE
         \/ /\ bail' = bail /\ test' = test /\ testsel' \in {testsel, -1}
            /\ plimLower' = plimLower /\ plimUpper' = plimUpper,
         plimLower' \in Nat, plimUpper' \in Nat
  PROVE  CInv'
<1> USE DEF image, walk
<1>1. /\ pc = "menu" /\ pc' = "menu"
      /\ UNCHANGED <<from, at, firsttime, mappedWin, pmap, highAdr, swept, touched>>
  BY DEF InMenu
<1>2. /\ window' = 0
      /\ map' = Segments(window, pmap, plimLower', plimUpper', highAdr)
  BY DEF Recompute
<1>3. /\ window \in Nat /\ pmap \in PMaps /\ highAdr \in {HighSmall, HighBig}
      /\ mappedWin \in Nat
  BY <1>1, LayoutAssumption DEF IInv, Settled, TypeOK, PCs
<1>4. CASE ~InTest
  BY <1>1, <1>4, OutsideCInv DEF InTest, CInv, OneBlock, PCs
<1>5. CASE InTest
  <2>1. window >= 2 => mappedWin = window - 1
    BY <1>5 DEF CInv, Fits
  <2>2. \A i \in DOMAIN map' :
          PagesOf(map'[i], mappedWin)
            = Within(window, pmap, plimLower', plimUpper', highAdr, i)
    BY <1>2, <1>3, <2>1, SegmentPages
  <2>3. Fits' /\ OneBlock'
    BY <1>1, <1>2 DEF Fits, CInv, OneBlock
  <2>4. TestsOnlySelected'
    <3>1. \A i \in DOMAIN map' : PhysPages(map[i])' = PagesOf(map'[i], mappedWin)
      BY <1>1 DEF PhysPages, PagesOf
    <3>2. \A i \in DOMAIN map' :
            /\ PhysPages(map[i])' \subseteq plimLower' .. plimUpper' - 1
            /\ PhysPages(map[i])' \subseteq pmap[i].start .. pmap[i].end - 1
      BY <2>2, <3>1 DEF Within
    <3>3. QED
      BY <1>1, <3>2 DEF TestsOnlySelected
  <2>5. CASE bail' = TRUE
    BY <1>1, <2>3, <2>4, <2>5 DEF CInv, CoverInv
  <2>6. CASE /\ bail' = bail /\ test' = test /\ testsel' \in {testsel, -1}
             /\ plimLower' = plimLower /\ plimUpper' = plimUpper
    <3>1. Unlimited
      BY <1>1, <2>6 DEF Unlimited
    <3>2. Exempt => Exempt'
      BY <2>6 DEF Exempt
    <3>3. \A w \in Nat : Covered(w) => Covered(w)'
      BY <1>1, <3>1, StaysCovered
    <3>4. ASSUME ~bail
          PROVE  CoveredUpTo(1)' \/ Progress'
      <4>1. CoveredUpTo(window) /\ (CoveredUpTo(window + 1) \/ Progress)
        BY <1>5, <3>4 DEF CInv, CoverInv
      <4>2. CASE CoveredUpTo(window) /\ window >= 1
        BY <1>3, <3>2, <3>3, <4>2 DEF CoveredUpTo
      <4>3. CASE CoveredUpTo(window + 1)
        <5>1. \A w \in Nat : w < 1 => w < window + 1
          BY <1>3
        <5>2. QED
          BY <3>2, <3>3, <4>3, <5>1 DEF CoveredUpTo
      <4>4. CASE Progress /\ window = 0
        <5>1. \A i : Selected(window, i)' = Selected(window, i)
          BY <1>2, <3>1, <4>4 DEF Unlimited, Selected
        <5>2. \A i \in DOMAIN map' : PagesOf(map'[i], mappedWin) = Selected(window, i)
          BY <2>2, <2>6 DEF Selected
        <5>3. /\ DOMAIN map' \subseteq DOMAIN pmap
              /\ \A i \in DOMAIN pmap \ DOMAIN map' : Selected(window, i) = {}
          <6>1. plimLower \in Nat /\ plimUpper \in Nat
            BY <2>6
          <6>2. map' = Segments(window, pmap, plimLower, plimUpper, highAdr)
            BY <1>2, <2>6
          <6>3. QED
            BY <1>3, <6>1, <6>2, SegmentFields DEF Selected
        <5>4. ASSUME NEW i \in DOMAIN map', i \in swept
              PROVE  PagesOf(map'[i], mappedWin) \subseteq touched
          <6>1. CASE Selected(window, i) = {}
            BY <5>2, <6>1
          <6>2. CASE Selected(window, i) # {}
            BY <4>4, <5>2, <5>3, <5>4, <6>2 DEF Progress
          <6>3. QED
            BY <6>1, <6>2
        <5>5. QED
          BY <1>1, <5>1, <5>2, <5>3, <5>4 DEF Progress
      <4>5. QED
        BY <1>3, <4>1, <4>2, <4>3, <4>4
    <3>5. ~bail' => CoveredUpTo(window)' /\ (CoveredUpTo(window + 1) \/ Progress)'
      BY <1>2, <2>6, <3>4 DEF CoveredUpTo
    <3>6. CoverInv'
      BY <1>1, <3>5 DEF CoverInv
    <3>7. QED
      BY <2>3, <2>4, <3>6 DEF CInv
  <2>7. QED
    BY <2>5, <2>6
<1>6. QED
  BY <1>4, <1>5

(* ... the operator's actions. *)
LEMMA MenuCInv ==
  IInv /\ CInv /\ (OpenMenu \/ Reboot \/ Settings \/ Continue) => CInv'
<1> SUFFICES ASSUME IInv, CInv, OpenMenu \/ Reboot \/ Settings \/ Continue
             PROVE  CInv'
  OBVIOUS
<1> USE DEF memory, image, selected, walk, history
<1>1. /\ plimLower \in Nat /\ plimUpper \in Nat /\ PageInputs \subseteq Nat
  BY InputAssumption DEF IInv, TypeOK
<1>2. CASE OpenMenu
  <2>1. CASE pc = "test"
    BY <1>2, <2>1, SameTest DEF OpenMenu, InTest
  <2>2. CASE pc = "check_input"
    <3>1. pc' = "menu" /\ from' = "check_input" /\ mappedWin' = mappedWin
      BY <1>2, <2>2 DEF OpenMenu
    <3>2. QED
      BY <3>1, OutsideCInv DEF CInv, OneBlock, PCs
  <2>3. QED
    BY <1>2, <2>1, <2>2 DEF OpenMenu
<1>3. CASE Reboot
  <2>1. pc' = "do_test" /\ ~firsttime' /\ mappedWin' = 1
    BY <1>3 DEF Reboot
  <2>2. QED
    BY <2>1, OutsideCInv DEF OneBlock, PCs
<1>4. CASE DefaultTests
  <2>1. /\ InMenu /\ Recompute(plimLower', plimUpper') /\ test' = test
        /\ plimLower' = plimLower /\ plimUpper' = plimUpper /\ testsel' = -1
        /\ bail' = (bail \/ testsel >= FadeTest)
    BY <1>4 DEF DefaultTests
  <2>2. bail' = TRUE \/ bail' = bail
    <3>1. bail \in BOOLEAN
      BY DEF IInv, TypeOK, FlagsOK
    <3>2. QED
      BY <2>1, <3>1
  <2>3. QED
    BY <1>1, <2>1, <2>2, SettingsCInv
<1>5. CASE SkipTest
  <2>1. /\ pc = "menu" /\ bail' = TRUE
        /\ UNCHANGED <<pc, from, at, window, map, mappedWin, pmap, plimLower, plimUpper,
                       highAdr, testsel, test, swept, touched>>
    BY <1>5 DEF SkipTest, InMenu
  <2>2. QED
    BY <2>1, SameTest DEF InTest
<1>6. CASE AllMemory
  <2>1. LastEnd(pmap) \in Nat
    BY <1>6, LastEndType DEF IInv, Settled, PCs, AllMemory, InMenu
  <2>2. /\ InMenu /\ Recompute(plimLower', plimUpper') /\ bail' = TRUE
        /\ plimLower' \in Nat /\ plimUpper' \in Nat
    BY <1>6, <2>1 DEF AllMemory
  <2>3. QED
    BY <2>2, SettingsCInv
<1>7. CASE RestartFromMenu
  <2>1. pc' = "do_test" /\ ~firsttime' /\ mappedWin' = mappedWin
    BY <1>7 DEF RestartFromMenu, Restart, RunAt
  <2>2. QED
    BY <2>1, OutsideCInv DEF CInv, OneBlock, PCs
<1>8. ASSUME NEW n \in TestInputs, SelectTest(n)
      PROVE  CInv'
  <2>1. /\ InMenu /\ Recompute(plimLower', plimUpper') /\ bail' = TRUE
        /\ plimLower' = plimLower /\ plimUpper' = plimUpper
    BY <1>8 DEF SelectTest
  <2>2. QED
    BY <1>1, <2>1, SettingsCInv
<1>9. ASSUME NEW page \in PageInputs, SetLower(page) \/ SetUpper(page)
      PROVE  CInv'
  <2>1. /\ InMenu /\ Recompute(plimLower', plimUpper')
        /\ plimLower' \in Nat /\ plimUpper' \in Nat /\ testsel' = testsel
    BY <1>1, <1>9 DEF SetLower, SetUpper
  <2>2. \/ bail' = TRUE
        \/ /\ bail' = bail /\ test' = test
           /\ plimLower' = plimLower /\ plimUpper' = plimUpper
    BY <1>9 DEF SetLower, SetUpper
  <2>3. QED
    BY <2>1, <2>2, SettingsCInv
<1>10. CASE ContinueTest
  <2>1. /\ pc = "menu" /\ from = "test" /\ pc' = "test"
        /\ UNCHANGED <<from, at, window, map, mappedWin, pmap, plimLower, plimUpper,
                       highAdr, testsel, test, swept, touched, bail>>
    BY <1>10 DEF ContinueTest
  <2>2. QED
    BY <2>1, SameTest DEF InTest
<1>11. CASE ContinueInput
  BY <1>11, AfterInputCInv DEF ContinueInput
<1>12. CASE ContinuePass
  <2>1. /\ pc' = "do_test" /\ window' = 0 /\ mappedWin' = mappedWin
    BY <1>12 DEF ContinuePass, RunAt, IInv, Settled
  <2>2. CoveredUpTo(window)'
    BY <2>1 DEF CoveredUpTo
  <2>3. QED
    BY <2>1, <2>2, OutsideCInv DEF CInv, OneBlock, PCs
<1>13. QED
  BY <1>2, <1>3, <1>4, <1>5, <1>6, <1>7, <1>8, <1>9, <1>10, <1>11, <1>12
     DEF Settings, Continue

(* Steps that change nothing. *)
LEMMA StutterCInv == CInv /\ UNCHANGED vars => CInv'
<1> SUFFICES ASSUME CInv, UNCHANGED vars PROVE CInv'
  OBVIOUS
<1> USE DEF vars
<1>1. Fits' /\ OneBlock' /\ TestsOnlySelected'
  BY DEF CInv, Fits, OneBlock, TestsOnlySelected, InTest, PhysPages
<1>2. \A k : CoveredUpTo(k) => CoveredUpTo(k)'
  BY StaysCoveredUpTo DEF Unlimited
<1>3. Progress => Progress'
  BY DEF Progress, Selected
<1>4. CoverInv'
  BY <1>2, <1>3 DEF CInv, CoverInv, InTest
<1>5. QED
  BY <1>1, <1>4 DEF CInv

LEMMA InitCInv == Init => CInv
<1> SUFFICES ASSUME Init PROVE CInv
  OBVIOUS
<1>1. pc = "do_test" /\ ~firsttime /\ mappedWin = 1
  BY DEF Init
<1>2. QED
  BY <1>1 DEF CInv, Fits, OneBlock, TestsOnlySelected, CoverInv, InTest

-----------------------------------------------------------------------------
(* What the tests have covered, and that they stay inside their limits, is   *)
(* kept by every step of the driver.                                         *)
THEOREM CoverInvariant == Spec => []CInv
<1>1. Init => CInv
  BY InitCInv
<1>2. IInv /\ CInv /\ [Next]_vars => CInv'
  <2>1. IInv /\ CInv /\ Program => CInv'
    BY BootCInv, SkipCInv, StartCInv, TestCInv, AdvanceCInv DEF Program, Testing
  <2>2. CInv /\ Lost => CInv'
    BY StutterCInv DEF Lost
  <2>3. QED
    BY <2>1, <2>2, MenuCInv, StutterCInv DEF Next
<1>3. QED
  BY <1>1, <1>2, InductiveInvariant, PTL DEF Spec

(* No test writes outside the limits the operator has set, and the low copy  *)
(* nothing outside the memory map (compute_segments(), init.c).              *)
THEOREM OnlySelectedTested == Spec => []TestsOnlySelected
<1>1. CInv => TestsOnlySelected
  BY DEF CInv
<1>2. QED
  BY <1>1, CoverInvariant, PTL

(* Every test reaches every page that some window reaches, whatever the      *)
(* operator does meanwhile, unless it is cut short (main.c:225-474).         *)
THEOREM NoPageForgotten == Spec => []EveryPageTested
<1>1. IInv /\ CInv => EveryPageTested
  <2>1. SUFFICES ASSUME IInv, CInv, pc = "next_window", window = NWindows - 1,
                        test \in 0 .. FadeTest - 1,
                        NEW i \in DOMAIN pmap,
                        NEW p \in pmap[i].start .. pmap[i].end - 1,
                        p \in plimLower .. plimUpper - 1, Reachable(p)
                 PROVE  p \in touched
    BY DEF EveryPageTested
  <2>2. /\ NWindows \in Nat /\ NWindows >= 3 /\ WinPages \in Nat /\ Win0Start \in Nat
        /\ plimLower \in Nat /\ plimUpper \in Nat /\ highAdr \in Nat /\ p \in Nat
    <3>1. NWindows \in Nat /\ NWindows >= 3 /\ WinPages \in Nat /\ Win0Start \in Nat
      BY LayoutAssumption DEF Win0Start
    <3>2. plimLower \in Nat /\ plimUpper \in Nat /\ highAdr \in {HighSmall, HighBig}
      BY <2>1 DEF IInv, TypeOK
    <3>3. highAdr \in Nat
      BY <3>2, LayoutAssumption
    <3>4. p \in Nat
      BY <2>1, <3>2
    <3>5. QED
      BY <3>1, <3>2, <3>3, <3>4
  <2>3. \A w \in Nat : w < NWindows => Covered(w)
    BY <2>1, <2>2 DEF CInv, CoverInv, CoveredUpTo, Exempt
  <2>4. SUFFICES \E w \in Nat : /\ w < NWindows /\ CanReach(w)
                                /\ p \in WinStart(w) .. WinEnd(w, highAdr) - 1
    BY <2>1, <2>3 DEF Covered, Selected, Within
  <2>5. CASE p >= Win0Start /\ p < WinPages
    <3>1. 0 < NWindows /\ CanReach(0) /\ p \in WinStart(0) .. WinEnd(0, highAdr) - 1
      BY <2>2, <2>5 DEF CanReach, WinStart, WinEnd
    <3>2. QED
      BY <3>1
  <2>6. CASE p < highAdr /\ EnoughForHigh
    <3>1. 1 < NWindows /\ CanReach(1) /\ p \in WinStart(1) .. WinEnd(1, highAdr) - 1
      BY <2>2, <2>6 DEF CanReach, WinStart, WinEnd
    <3>2. QED
      BY <3>1
  <2>7. CASE p >= WinPages /\ p < (IF Pae THEN NWindows - 1 ELSE 2) * WinPages
    <3>1. PICK n \in Nat : n = (IF Pae THEN NWindows - 1 ELSE 2)
      BY <2>2
    <3>2. PICK w \in 2 .. n : p \in WinStart(w) .. WinEnd(w, highAdr) - 1
      BY <2>2, <2>7, <3>1, WindowOf
    <3>3. w \in Nat /\ w < NWindows /\ CanReach(w)
      BY <2>2, <3>1 DEF CanReach
    <3>4. QED
      BY <3>2, <3>3
  <2>8. QED
    BY <2>1, <2>5, <2>6, <2>7 DEF Reachable
<1>2. QED
  BY <1>1, InductiveInvariant, CoverInvariant, PTL

-----------------------------------------------------------------------------
(* The memory below 0x500. *)

(* The entries of every memory map are in ascending order, as those of an    *)
(* e820 map are; sort_pmap() does not sort what is not (memsize.c:104).      *)
Sorted ==
  \A pm \in PMaps : \A i, j \in DOMAIN pm : i < j => pm[i].start < pm[j].start

Spared == InTest /\ recomputed = 0 => \A i \in DOMAIN map : map[i].first = 0 => map[i].usb

(* The low copy tests nothing that begins at page 0; of the segments of the  *)
(* high copy only the first does, and FromLowerLimit() marks it.             *)
LEMMA StartSpares ==
  ASSUME Sorted, IInv, StartTest
  PROVE  Spared'
<1> DEFINE m == WindowSegments
           f == FirstSeg(m)
<1>1. /\ pc = "window" /\ RightCopy
      /\ window \in Nat /\ pmap \in PMaps /\ plimLower \in Nat /\ plimUpper \in Nat
      /\ highAdr \in {HighSmall, HighBig} /\ highAdr \in Nat
  BY LayoutAssumption
     DEF StartTest, EnterWindow, IInv, Settled, CopyFitsWindow, TypeOK, PCs
<1>2. DOMAIN m # {} /\ map' = IF at > Low THEN FromLowerLimit(m) ELSE m
  BY DEF StartTest, CanTest
<1>3. m = Segments(window, pmap, plimLower, plimUpper, highAdr)
  BY DEF WindowSegments
<1>4. SegmentsOf(m, pmap)
  BY <1>1, <1>3, SegmentsFit
<1> HIDE DEF m
<1>5. f \in DOMAIN m /\ \A j \in DOMAIN m : f <= j
  <2>1. PICK k \in DOMAIN m : \A j \in DOMAIN m : k <= j
    <3>1. DOMAIN m \subseteq Nat
      BY <1>1, <1>3, SegmentFields
    <3>2. QED
      BY <1>2, <3>1, LeastNat
  <2>2. QED
    BY <2>1 DEF FirstSeg
<1>6. \A i \in DOMAIN m : \E a \in Nat, b \in Nat :
        /\ m[i] = [pbase |-> a, first |-> Mapping(a), last |-> Mapping(b - 1),
                   usb |-> FALSE]
        /\ a < b /\ WinStart(window) <= a /\ b <= WinEnd(window, highAdr)
        /\ plimLower <= a /\ b <= plimUpper
        /\ pmap[i].start <= a /\ b <= pmap[i].end
        /\ a .. b - 1 = Within(window, pmap, plimLower, plimUpper, highAdr, i)
  BY <1>1, <1>3, SegmentFields
<1>7. WinPages \in Nat \ {0} /\ Low \in Nat /\ Low > 0 /\ Win0Start \in Nat /\ Win0Start > 0
      /\ Low < highAdr /\ Win0Start <= WinPages
  BY <1>1, LayoutAssumption DEF Win0Start
<1>8. CASE ~(at > Low)
  <2>1. window # 1
    BY <1>1, <1>7, <1>8 DEF RightCopy
  <2>2. WinStart(window) \in Nat /\ WinStart(window) > 0
    BY <1>1, <1>7, <2>1, HighWindows DEF WinStart
  <2>3. ASSUME NEW i \in DOMAIN m
        PROVE  m[i].first # 0
    <3>1. PICK a \in Nat, b \in Nat :
            /\ m[i] = [pbase |-> a, first |-> Mapping(a), last |-> Mapping(b - 1),
                       usb |-> FALSE]
            /\ a < b /\ WinStart(window) <= a
      BY <1>6
    <3>2. a > 0 /\ m[i].first = Mapping(a)
      BY <2>2, <3>1
    <3>3. QED
      BY <1>7, <3>2, MappingType
  <2>4. QED
    BY <1>2, <1>8, <2>3 DEF Spared
<1>9. CASE at > Low
  <2>1. map' = [m EXCEPT ![f] = [m[f] EXCEPT !.first = Mapping(plimLower),
                                             !.usb = (plimLower = 0)]]
    BY <1>2, <1>9 DEF FromLowerLimit
  <2>2. DOMAIN map' = DOMAIN m
    BY <1>1, <1>2, <1>4, <1>9, FromLowerLimitFit
  <2>3. ASSUME NEW i \in DOMAIN m
        PROVE  map'[i].first = 0 => map'[i].usb
    <3>1. PICK a \in Nat, b \in Nat :
            /\ m[i] = [pbase |-> a, first |-> Mapping(a), last |-> Mapping(b - 1),
                       usb |-> FALSE]
            /\ a < b /\ pmap[i].start <= a
      BY <1>6
    <3>2. CASE i = f
      <4>1. map'[i] = [m[i] EXCEPT !.first = Mapping(plimLower), !.usb = (plimLower = 0)]
        BY <1>5, <2>1, <3>2
      <4>2. map'[i].first = Mapping(plimLower) /\ map'[i].usb = (plimLower = 0)
        BY <3>1, <4>1
      <4>3. Mapping(plimLower) = 0 => plimLower = 0
        BY <1>1, <1>7, MappingType
      <4>4. QED
        BY <4>2, <4>3
    <3>3. CASE i # f
      <4>1. map'[i] = m[i]
        BY <2>1, <3>3
      <4>2. f \in DOMAIN pmap /\ i \in DOMAIN pmap /\ DOMAIN pmap \subseteq Nat
        BY <1>1, <1>3, <1>5, SegmentFields
      <4>3. pmap[f].start < pmap[i].start
        BY <1>1, <1>5, <3>3, <4>2 DEF Sorted
      <4>4. pmap[f].start \in Nat /\ pmap[i].start \in Nat
        <5>1. pmap \in Seq(PMapEntry)
          BY <1>1, PMapAssumption
        <5>2. pmap[f] \in PMapEntry /\ pmap[i] \in PMapEntry
          BY <4>2, <5>1
        <5>3. QED
          BY <5>2 DEF PMapEntry
      <4>5. a > 0
        BY <3>1, <4>3, <4>4
      <4>6. Mapping(a) # 0
        BY <1>7, <4>5, MappingType
      <4>7. QED
        BY <3>1, <4>1, <4>6
    <3>4. QED
      BY <3>2, <3>3
  <2>4. QED
    BY <2>2, <2>3 DEF Spared
<1>10. QED
  BY <1>8, <1>9

(* No other step gives a test new segments without counting it.              *)
LEMMA OtherSpares ==
  ASSUME IInv, Spared, [Next]_vars, ~StartTest
  PROVE  Spared'
<1> USE DEF memory, image, selected, walk, history, Spared, InTest
<1>1. recomputed \in 0 .. 2
  BY DEF IInv, TypeOK
<1>2. CASE Boot
  BY <1>2 DEF Boot, FinishRelocation, MoveHome, FirstTime, Resume, Restart, RunAt, Arrived
<1>3. CASE SkipWindow \/ TestSegment \/ NextSweep \/ EndTest \/ BailOut
  BY <1>3 DEF SkipWindow, EnterWindow, TestSegment, NextSweep, EndTest, BailOut
<1>4. CASE Advance
  BY <1>4 DEF Advance, AdvanceWindow, LastWindow, NoKey, AfterInput, RunAt
<1>5. CASE OpenMenu \/ Reboot \/ Continue
  BY <1>5 DEF OpenMenu, Reboot, Continue, ContinueTest, ContinueInput, ContinuePass,
              AfterInput, RunAt
<1>6. CASE Settings
  <2>1. CASE SkipTest \/ RestartFromMenu
    BY <2>1 DEF SkipTest, InMenu, RestartFromMenu, Restart, RunAt
  <2>2. CASE ~(SkipTest \/ RestartFromMenu)
    <3>1. \E lower, upper : Recompute(lower, upper)
      BY <1>6, <2>2 DEF Settings, DefaultTests, AllMemory, SelectTest, SetLower, SetUpper
    <3>2. recomputed' # 0
      BY <1>1, <3>1 DEF Recompute, Smaller
    <3>3. QED
      BY <3>2
  <2>3. QED
    BY <2>1, <2>2
<1>7. CASE Lost \/ UNCHANGED vars
  BY <1>7 DEF Lost, vars
<1>8. QED
  BY <1>2, <1>3, <1>4, <1>5, <1>6, <1>7 DEF Next, Program, Testing

(* No test touches what is below 0x500, until the menu computes the segments *)
(* anew, where the memory map is in ascending order (main.c:233).            *)
THEOREM BiosSpared ==
  ASSUME Sorted
  PROVE  Spec => []BiosAreaSpared
<1>1. Init => Spared
  BY DEF Init, Spared, InTest
<1>2. IInv /\ Spared /\ [Next]_vars => Spared'
  BY StartSpares, OtherSpares
<1>3. Spared => BiosAreaSpared
  BY DEF Spared, BiosAreaSpared, InTest
<1>4. QED
  BY <1>1, <1>2, <1>3, InductiveInvariant, PTL DEF Spec
=============================================================================
