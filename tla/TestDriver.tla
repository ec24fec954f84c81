---------------------------- MODULE TestDriver ----------------------------
(***************************************************************************)
(* The driver loop of memtest86+: do_test() and its helpers in main.c, the *)
(* menu actions of get_config() in config.c that touch the driver's state, *)
(* and the page mapping of init.c.                                         *)
(*                                                                         *)
(* The program tests physical memory in windows.  Window 0 is everything   *)
(* between the end of the image and 2GB, window 1 is the memory below the  *)
(* high copy of the image, and each window after that is 2GB seen through  *)
(* PAE.  To test window 1 the program copies itself up to high_test_adr    *)
(* and runs from there.  The operator may open the configuration menu      *)
(* whenever the program polls the keyboard.                                *)
(*                                                                         *)
(* Addresses are page numbers.  Sub-page detail is kept only where the     *)
(* code depends on it: CodeTail (the image may end inside a page) and      *)
(* the field "usb" of a segment (its start was raised to 0x500).           *)
(*                                                                         *)
(* An operator named Bad... is a plausible mistake in the definition that  *)
(* follows it.  Nothing refers to it; put in the place of that definition  *)
(* it makes some property fail.                                            *)
(***************************************************************************)
EXTENDS Integers, Sequences, FiniteSets

CONSTANTS
  Low,          \* LOW_TEST_ADR: home page of the image
  Load,         \* page where the boot loader puts the image
  CodePages,    \* whole pages in _end - _start
  CodeTail,     \* 1 if _end - _start is not a multiple of the page, else 0
  HighSmall,    \* initial high_test_adr (2MB)
  HighBig,      \* high_test_adr of a machine with enough memory (16MB)
  BigMem,       \* 0x1100: last page above which HighBig is used
  WinPages,     \* 0x80000: pages in 2GB
  NWindows,     \* entries of windows[]
  Pae,          \* v->pae
  PMaps,        \* memory maps mem_size() may find: sequences of [start, end]
  Word,         \* 2^32: page numbers typed by the operator are unsigned longs
  PageInputs,   \* page numbers the operator may type
  TestInputs,   \* test numbers the operator may type, as the int they become
  FadeTest,     \* 9: DEFTESTS, and the number of the bit fade test
  MaxSweeps,    \* bound: sweeps over the segments in one test
  MinTest,      \* bound: how far v->test-- may take the test number
  MaxPass       \* bound: where the pass counter saturates

Larger(a, b)  == IF a >= b THEN a ELSE b
Smaller(a, b) == IF a <= b THEN a ELSE b

BadWin0Start == Low + CodePages   \* the end of the image is rounded down
(* The end of windows[0]'s forbidden prefix: the image, rounded up. *)
Win0Start == Low + CodePages + CodeTail

PMapEntry == [start : Nat, end : Nat]

ASSUME LayoutAssumption ==
  /\ {Low, Load, CodePages, HighSmall, HighBig, BigMem, WinPages} \subseteq Nat
  /\ CodeTail \in {0, 1}
  /\ Low > 0
  /\ Win0Start <= HighSmall
  /\ Low + CodePages < HighSmall
  /\ HighSmall <= HighBig
  /\ HighBig + CodePages + CodeTail <= WinPages
  /\ NWindows \in Nat /\ NWindows >= 3
  /\ Pae \in BOOLEAN

ASSUME InputAssumption ==
  /\ Word \in Nat \ {0}
  /\ PageInputs \subseteq 0 .. Word - 1
  /\ TestInputs \subseteq Int
  /\ FadeTest \in Nat
  /\ MaxSweeps \in Nat \ {0}
  /\ MinTest \in Int /\ MinTest < 0
  /\ MaxPass \in Nat

ASSUME PMapAssumption ==
  \A pm \in PMaps : pm \in Seq(PMapEntry) /\ Len(pm) > 0

VARIABLES
  pc,           \* where in do_test() the program is
  from,         \* which call of get_config() the menu returns to
  at,           \* &_start: page the running image starts at
  runAt,        \* run_at_addr
  firsttime,    \* firsttime
  bail,         \* bail # 0
  window,       \* window
  map,          \* v->map[0 .. segs-1], indexed by the pmap entry it came from
  mappedWin,    \* mapped_window (init.c)
  pmap,         \* v->pmap[0 .. msegs-1]
  plimLower,    \* v->plim_lower
  plimUpper,    \* v->plim_upper
  highAdr,      \* high_test_adr, and windows[1].end once firsttime is set
  testsel,      \* v->testsel
  test,         \* v->test
  pass,         \* v->pass
  swept,        \* segments the current sweep of the test has been over
  sweeps,       \* sweeps of the current test that are over
  \* History, read by properties only:
  touched,      \* physical pages written since the current test began
  recomputed    \* calls of find_ticks_for_pass() since the window was entered

image    == <<at, runAt>>
memory   == <<pmap, plimLower, plimUpper, highAdr>>
selected == <<testsel, test, pass>>
walk     == <<swept, sweeps>>
history  == <<touched, recomputed>>
vars == <<pc, from, at, runAt, firsttime, bail, window, map, mappedWin, pmap,
          plimLower, plimUpper, highAdr, testsel, test, pass, swept, sweeps,
          touched, recomputed>>

NoReloc == -1   \* run_at_addr = 0xffffffff

Segment == [pbase : Nat, first : Nat, last : Nat, usb : BOOLEAN]
NoSegments == [i \in {} |-> 0]

-----------------------------------------------------------------------------
(* Windows and the virtual addresses they are seen at. *)

WinStart(w) == IF w = 0 THEN Win0Start
               ELSE IF w = 1 THEN 0 ELSE (w - 1) * WinPages
BadWinEnd0(w, high) ==   \* window 0 ends a page early
  IF w = 0 THEN WinPages - 1 ELSE IF w = 1 THEN high ELSE w * WinPages
WinEnd(w, high) == IF w = 0 THEN WinPages
                   ELSE IF w = 1 THEN high ELSE w * WinPages

(* mapping(): memory above 2GB is seen in the upper half of the 4GB. *)
Mapping(page) == IF page < WinPages THEN page ELSE (page % WinPages) + WinPages

(* page_of(): the physical page behind a virtual one. *)
PageOf(v, mapped) == IF v < WinPages THEN v ELSE v - WinPages + mapped * WinPages

(* map_page(): the 2GB block of a page, and whether it can be mapped in. *)
Block(page) == page \div WinPages
BadCanMap(page) ==   \* the last block is left out
  Block(page) \in {0, mappedWin} \/ (Pae /\ Block(page) < NWindows - 2)
CanMap(page) ==
  \/ Block(page) \in {0, mappedWin}
  \/ Pae /\ Block(page) < NWindows - 1
BadMapPage(page) == Block(page)   \* no early return for the first block
MapPage(page) == IF Block(page) = 0 THEN mappedWin ELSE Block(page)

PagingOff == mappedWin' = IF Pae THEN 1 ELSE mappedWin

BadSegments(w, pm, lower, upper, high) ==   \* the upper limit is ignored
  LET ws == Larger(WinStart(w), lower)
      Start(i) == Larger(pm[i].start, ws)
      End(i) == Smaller(pm[i].end, WinEnd(w, high))
  IN  [i \in {j \in DOMAIN pm : Start(j) < End(j)} |->
         [pbase |-> Start(i), first |-> Mapping(Start(i)),
          last |-> Mapping(End(i) - 1), usb |-> FALSE]]

(* compute_segments(): the entries of the map clipped to a window and to the *)
(* limits.  v->map[k] is the segment of the k-th index in the domain.  The   *)
(* code's other two conditions follow from the clipping.                     *)
Segments(w, pm, lower, upper, high) ==
  LET ws == Larger(WinStart(w), lower)
      we == Smaller(WinEnd(w, high), upper)
      Start(i) == Larger(pm[i].start, ws)
      End(i) == Smaller(pm[i].end, we)
  IN  [i \in {j \in DOMAIN pm : ws < we /\ Start(j) < End(j)} |->
         [pbase |-> Start(i), first |-> Mapping(Start(i)),
          last |-> Mapping(End(i) - 1), usb |-> FALSE]]

FirstSeg(m) == CHOOSE i \in DOMAIN m : \A j \in DOMAIN m : i <= j

BadFromAddress0(m) ==   \* what is below 0x500 is not spared
  [m EXCEPT ![FirstSeg(m)].first = Mapping(plimLower)]

(* A relocated image tests from the lower limit on, sparing what is below    *)
(* 0x500 (USB_WAR).                                                          *)
FromLowerLimit(m) ==
  [m EXCEPT ![FirstSeg(m)].first = Mapping(plimLower),
            ![FirstSeg(m)].usb = (plimLower = 0)]

LastEnd(pm) == pm[Len(pm)].end

(* A test that walks over seg writes into the image at page a. *)
HitsImage(seg, a) == seg.first < a + CodePages + CodeTail /\ seg.last >= a

PhysPages(seg) == {PageOf(v, mappedWin) : v \in seg.first .. seg.last}

-----------------------------------------------------------------------------
(* run_at(): jump to a copy of the image, by way of the high copy when the   *)
(* two images overlap.                                                       *)
Overlap(a, b) == (a < b /\ a + CodePages >= b) \/ (b < a /\ b + CodePages >= a)

RunAt(addr) ==
  /\ runAt' = addr
  /\ at' = IF Overlap(at, addr) /\ addr + CodePages < highAdr
             THEN highAdr ELSE addr
  /\ pc' = "do_test"

(* restart() *)
Restart ==
  /\ firsttime' = FALSE
  /\ test' = 0 /\ pass' = 0
  /\ RunAt(Low)
  /\ swept' = {} /\ sweeps' = 0
  /\ UNCHANGED <<from, bail, window, map, mappedWin, memory, testsel, history>>

(* find_ticks_for_pass(), for limits lower and upper: it leaves the segments *)
(* of the current window in v->map and then resets the window.               *)
Recompute(lower, upper) ==
  /\ map' = Segments(window, pmap, lower, upper, highAdr)
  /\ window' = 0
  /\ recomputed' = Smaller(recomputed + 1, 2)

-----------------------------------------------------------------------------
Init ==
  /\ pc = "do_test" /\ from = "test"
  /\ at = Load /\ runAt = NoReloc
  /\ firsttime = FALSE /\ bail = FALSE
  /\ window = 0 /\ map = NoSegments /\ mappedWin = 1
  /\ pmap = <<>> /\ plimLower = 0 /\ plimUpper = 0 /\ highAdr = HighSmall
  /\ testsel = 0 /\ test = 0 /\ pass = 0
  /\ swept = {} /\ sweeps = 0
  /\ touched = {} /\ recomputed = 0

(* do_test() was reached through the intermediate copy of run_at(). *)
FinishRelocation ==
  /\ pc = "do_test"
  /\ runAt \notin {at, NoReloc}
  /\ at' = runAt
  /\ UNCHANGED <<pc, from, runAt, firsttime, bail, window, map, mappedWin,
                 memory, selected, walk, history>>

Arrived == pc = "do_test" /\ runAt \in {at, NoReloc}

(* The image as loaded moves itself home before it does anything else. *)
MoveHome ==
  /\ Arrived /\ ~firsttime /\ at # Low
  /\ Restart

(* init() and the rest of the first-time code.  The segments that            *)
(* find_ticks_for_pass() leaves behind are replaced before they are used.    *)
FirstTime ==
  /\ Arrived /\ ~firsttime /\ at = Low
  /\ \E pm \in PMaps :
       /\ pmap' = pm
       /\ plimLower' = 0 /\ plimUpper' = LastEnd(pm)
       /\ highAdr' = IF LastEnd(pm) > BigMem THEN HighBig ELSE highAdr
  /\ testsel' = -1 /\ test' = 0 /\ pass' = 0
  /\ window' = 0 /\ map' = NoSegments
  /\ firsttime' = TRUE
  /\ runAt' = NoReloc
  /\ pc' = "window"
  /\ UNCHANGED <<from, at, bail, mappedWin, walk, touched, recomputed>>

Resume ==
  /\ Arrived /\ firsttime
  /\ runAt' = NoReloc
  /\ pc' = "window"
  /\ UNCHANGED <<from, at, firsttime, bail, window, map, mappedWin, memory,
                 selected, walk, history>>

-----------------------------------------------------------------------------
WindowSegments == Segments(window, pmap, plimLower, plimUpper, highAdr)

EnterWindow ==
  /\ pc = "window"
  /\ bail' = FALSE
  /\ swept' = {} /\ sweeps' = 0
  /\ touched' = IF window = 0 THEN {} ELSE touched
  /\ recomputed' = 0
  /\ UNCHANGED <<from, image, firsttime, window, memory, testsel, pass>>

CanTest(m) == DOMAIN m # {} /\ CanMap(m[FirstSeg(m)].pbase)

(* Nothing to test in this window, or no way to map it in. *)
SkipWindow ==
  /\ EnterWindow
  /\ ~CanTest(WindowSegments)
  /\ map' = WindowSegments
  /\ pc' = "next_window"
  /\ UNCHANGED <<mappedWin, test>>

(* The switch on tseq[v->test].pat.  Bit fade runs in window 0 only; what    *)
(* lies before tseq[0] may or may not name a pattern.                        *)
StartTest ==
  /\ EnterWindow
  /\ LET m == WindowSegments
     IN  /\ CanTest(m)
         /\ mappedWin' = MapPage(m[FirstSeg(m)].pbase)
         /\ map' = IF at > Low THEN FromLowerLimit(m) ELSE m
  /\ test' = IF testsel >= 0 THEN testsel ELSE test
  /\ pc' \in IF test' = FadeTest /\ window # 0 THEN {"next_window"}
             ELSE IF test' < 0 THEN {"test", "next_window"} ELSE {"test"}

(* A test algorithm goes over one segment.  Sweeps run upwards and           *)
(* downwards, so the order within a sweep is left open.  A program that has  *)
(* overwritten itself does nothing that can be relied on.                    *)
TestSegment ==
  /\ pc = "test" /\ ~bail
  /\ \E i \in DOMAIN map \ swept :
       /\ swept' = swept \cup {i}
       /\ touched' = touched \cup PhysPages(map[i])
       /\ pc' = IF HitsImage(map[i], at) THEN "lost" ELSE "test"
  /\ UNCHANGED <<from, image, firsttime, bail, window, map, mappedWin, memory,
                 selected, sweeps, recomputed>>

NextSweep ==
  /\ pc = "test" /\ ~bail
  /\ DOMAIN map \subseteq swept
  /\ sweeps + 1 < MaxSweeps
  /\ sweeps' = sweeps + 1
  /\ swept' = {}
  /\ UNCHANGED <<pc, from, image, firsttime, bail, window, map, mappedWin,
                 memory, selected, history>>

EndTest ==
  /\ pc = "test" /\ ~bail
  /\ DOMAIN map \subseteq swept
  /\ pc' = "next_window"
  /\ swept' = {} /\ sweeps' = 0
  /\ UNCHANGED <<from, image, firsttime, bail, window, map, mappedWin, memory,
                 selected, history>>

(* BAILR and BAILOUT: the operator cut the test short (skip_test). *)
BailOut ==
  /\ pc = "test" /\ bail
  /\ test' = test + 1
  /\ PagingOff
  /\ pc' = "check_input"
  /\ swept' = {} /\ sweeps' = 0
  /\ UNCHANGED <<from, image, firsttime, bail, window, map, memory, testsel,
                 pass, touched, recomputed>>

-----------------------------------------------------------------------------
(* skip_window: on to the next window. *)

EnoughForHigh == LastEnd(pmap) > highAdr + CodePages + 1

AdvanceWindow ==
  /\ pc = "next_window"
  /\ window + 1 < NWindows
  /\ window' = window + 1
  /\ PagingOff
  /\ \/ /\ WinStart(window + 1) < at + CodePages
        /\ EnoughForHigh
        /\ RunAt(highAdr)
     \/ /\ WinStart(window + 1) < at + CodePages
        /\ ~EnoughForHigh
        /\ UNCHANGED <<pc, image>>
     \/ /\ WinStart(window + 1) >= at + CodePages
        /\ RunAt(Low)
  /\ UNCHANGED <<from, firsttime, bail, map, memory, selected, walk, history>>

BadLastWindow ==   \* the test number is not incremented
  /\ pc = "next_window"
  /\ window + 1 = NWindows
  /\ window' = 0
  /\ PagingOff
  /\ pc' = "check_input"
  /\ UNCHANGED <<from, image, firsttime, bail, map, memory, selected, walk,
                 history>>

LastWindow ==
  /\ pc = "next_window"
  /\ window + 1 = NWindows
  /\ window' = 0
  /\ PagingOff
  /\ test' = test + 1
  /\ pc' = "check_input"
  /\ UNCHANGED <<from, image, firsttime, bail, map, memory, testsel, pass, walk,
                 history>>

BadAfterInputHome ==   \* a relocated image does not go home
  /\ window' = 0
  /\ IF test >= FadeTest \/ testsel >= 0
       THEN pc' = "menu" /\ from' = "end_of_pass" /\ UNCHANGED image
       ELSE pc' = "window" /\ UNCHANGED <<from, image>>

(* The rest of bail_test, after check_input(). *)
AfterInput ==
  /\ window' = 0
  /\ \/ /\ test >= FadeTest \/ testsel >= 0
        /\ pc' = "menu" /\ from' = "end_of_pass"
        /\ UNCHANGED image
     \/ /\ ~(test >= FadeTest \/ testsel >= 0)
        /\ RunAt(Low)
        /\ UNCHANGED from

NoKey ==
  /\ pc = "check_input"
  /\ AfterInput
  /\ UNCHANGED <<firsttime, bail, map, mappedWin, memory, selected, walk, history>>

-----------------------------------------------------------------------------
(* The operator.  check_input() is polled by every tick of a test, and once  *)
(* between tests; get_config() is also called at the end of each pass.       *)

OpenMenu ==
  /\ \/ pc = "test" /\ ~bail
     \/ pc = "check_input"
  /\ from' = pc
  /\ pc' = "menu"
  /\ UNCHANGED <<image, firsttime, bail, window, map, mappedWin, memory,
                 selected, walk, history>>

(* ESC: the machine restarts, and with it the program. *)
Reboot ==
  /\ pc \in {"test", "check_input"}
  /\ pc' = "do_test" /\ from' = "test"
  /\ at' = Load /\ runAt' = NoReloc
  /\ firsttime' = FALSE /\ bail' = FALSE
  /\ window' = 0 /\ map' = NoSegments /\ mappedWin' = 1
  /\ pmap' = <<>> /\ plimLower' = 0 /\ plimUpper' = 0 /\ highAdr' = HighSmall
  /\ testsel' = 0 /\ test' = 0 /\ pass' = 0
  /\ swept' = {} /\ sweeps' = 0
  /\ touched' = {} /\ recomputed' = 0

InMenu ==
  /\ pc = "menu"
  /\ UNCHANGED <<pc, from, image, firsttime, mappedWin, pmap, highAdr, walk,
                 touched>>

DefaultTests ==
  /\ InMenu
  /\ bail' = (bail \/ testsel >= FadeTest)
  /\ testsel' = -1
  /\ Recompute(plimLower, plimUpper)
  /\ UNCHANGED <<test, pass, plimLower, plimUpper>>

SkipTest ==
  /\ InMenu
  /\ bail' = TRUE
  /\ UNCHANGED <<window, map, plimLower, plimUpper, selected, recomputed>>

SelectTest(n) ==
  /\ InMenu
  /\ IF n <= FadeTest
       THEN /\ testsel' = n
            /\ test' = IF n # testsel THEN -1 ELSE test
            /\ pass' = IF n # testsel THEN -1 ELSE pass
       ELSE UNCHANGED selected
  /\ Recompute(plimLower, plimUpper)
  /\ bail' = TRUE
  /\ UNCHANGED <<plimLower, plimUpper>>

(* The limits are unsigned: the sum and the difference wrap around. *)
SetLower(page) ==
  /\ InMenu
  /\ test > MinTest
  /\ IF (page + 1) % Word <= plimUpper
       THEN plimLower' = page /\ test' = test - 1 /\ bail' = TRUE
       ELSE UNCHANGED <<plimLower, test, bail>>
  /\ Recompute(plimLower', plimUpper)
  /\ UNCHANGED <<plimUpper, testsel, pass>>

SetUpper(page) ==
  /\ InMenu
  /\ test > MinTest
  /\ IF (page - 1) % Word >= plimLower
       THEN plimUpper' = page /\ test' = test - 1 /\ bail' = TRUE
       ELSE UNCHANGED <<plimUpper, test, bail>>
  /\ Recompute(plimLower, plimUpper')
  /\ UNCHANGED <<plimLower, testsel, pass>>

AllMemory ==
  /\ InMenu
  /\ test > MinTest
  /\ plimLower' = 0 /\ plimUpper' = LastEnd(pmap)
  /\ test' = test - 1 /\ bail' = TRUE
  /\ Recompute(0, plimUpper')
  /\ UNCHANGED <<testsel, pass>>

(* Restart, and Memory Sizing, which restarts in another sizing mode. *)
RestartFromMenu == pc = "menu" /\ Restart

(* Continue.  A bail counted outside a test is forgotten: do_test() clears   *)
(* it.                                                                       *)
ContinueTest ==
  /\ pc = "menu" /\ from = "test"
  /\ pc' = "test"
  /\ UNCHANGED <<from, image, firsttime, bail, window, map, mappedWin, memory,
                 selected, walk, history>>

ContinueInput ==
  /\ pc = "menu" /\ from = "check_input"
  /\ AfterInput
  /\ UNCHANGED <<firsttime, bail, map, mappedWin, memory, selected, walk, history>>

ContinuePass ==
  /\ pc = "menu" /\ from = "end_of_pass"
  /\ pass' = Smaller(pass + 1, MaxPass)
  /\ test' = 0
  /\ RunAt(Low)
  /\ UNCHANGED <<from, firsttime, bail, window, map, mappedWin, memory, testsel,
                 walk, touched, recomputed>>

(* The overwritten image: nothing more is said about it. *)
Lost == pc = "lost" /\ UNCHANGED vars

-----------------------------------------------------------------------------
Boot == FinishRelocation \/ MoveHome \/ FirstTime \/ Resume
Testing == SkipWindow \/ StartTest \/ TestSegment \/ NextSweep \/ EndTest \/ BailOut
Advance == AdvanceWindow \/ LastWindow \/ NoKey
Program == Boot \/ Testing \/ Advance

Continue == ContinueTest \/ ContinueInput \/ ContinuePass

Settings ==
  \/ DefaultTests \/ SkipTest \/ AllMemory \/ RestartFromMenu
  \/ \E n \in TestInputs : SelectTest(n)
  \/ \E page \in PageInputs : SetLower(page) \/ SetUpper(page)

Next == Program \/ OpenMenu \/ Reboot \/ Settings \/ Continue \/ Lost

Spec == Init /\ [][Next]_vars

(* The processor keeps running, and the operator leaves every menu in the end. *)
FairSpec == Spec /\ WF_vars(Program) /\ WF_vars(Continue)

-----------------------------------------------------------------------------
(***************************************************************************)
(* Properties.                                                             *)
(***************************************************************************)

PCs == {"do_test", "window", "test", "next_window", "check_input", "menu", "lost"}

(* m lists segments of entries of the memory map pm. *)
SegmentsOf(m, pm) ==
  /\ DOMAIN m \subseteq DOMAIN pm
  /\ m = [i \in DOMAIN m |-> m[i]]
  /\ \A i \in DOMAIN m : m[i] \in Segment

(* No segment of m reaches the image at page a. *)
SparesImage(m, a) ==
  \A i \in DOMAIN m : ~HitsImage(m[i], a)

FlagsOK == firsttime \in BOOLEAN /\ bail \in BOOLEAN

(* Every variable has its type; v->map is indexed by entries of the memory   *)
(* map.                                                                      *)
TypeOK ==
  /\ pc \in PCs
  /\ from \in {"test", "check_input", "end_of_pass"}
  /\ at \in Nat /\ runAt \in Nat \cup {NoReloc}
  /\ FlagsOK
  /\ window \in 0 .. NWindows - 1
  /\ SegmentsOf(map, pmap)
  /\ mappedWin \in Nat \ {0}
  /\ pmap \in PMaps \cup {<<>>}
  /\ plimLower \in Nat /\ plimUpper \in Nat
  /\ highAdr \in {HighSmall, HighBig}
  /\ testsel \in Int /\ test \in Int /\ pass \in Int
  /\ swept \subseteq Nat
  /\ sweeps \in 0 .. MaxSweeps - 1
  /\ touched \subseteq Int
  /\ recomputed \in 0 .. 2

InTest == pc = "test" \/ (pc = "menu" /\ from = "test")

(* The low copy tests window 0 and the windows above 2GB, the high copy      *)
(* window 1.                                                                 *)
RightCopy == at = IF window = 1 THEN highAdr ELSE Low

(* No segment that a test is about to walk over reaches the running image,   *)
(* as long as the menu has recomputed the segments at most once since the    *)
(* window was entered.  Violated when the relocated copy gets the segments   *)
(* of another window.                                                        *)
ImageSpared ==
  InTest /\ recomputed < 2 => SparesImage(map, at)

(* The program never walks over its own image ("The window overwrites us",   *)
(* main.c:451).                                                              *)
NeverOverwritten == pc # "lost"

(* What a test writes is inside the limits the operator has set, and what    *)
(* the low copy writes is also inside the memory map: the virtual addresses  *)
(* of the segments lead to the physical pages they were computed for.        *)
TestsOnlySelected ==
  InTest => \A i \in DOMAIN map :
    /\ PhysPages(map[i]) \subseteq plimLower .. plimUpper - 1
    /\ at = Low => PhysPages(map[i]) \subseteq pmap[i].start .. pmap[i].end - 1

(* The pages the windows of the program can reach: those above the image,    *)
(* those below the high copy if there is memory for one, and those above 2GB *)
(* that can be mapped in.                                                    *)
Reachable(p) ==
  \/ p >= Win0Start /\ p < WinPages
  \/ p < highAdr /\ EnoughForHigh
  \/ p >= WinPages /\ p < (IF Pae THEN NWindows - 1 ELSE 2) * WinPages

(* When the last window of a test is over, the test has been over every page *)
(* of the memory map inside the limits that some window reaches, whatever    *)
(* the operator did in the menu meanwhile ("We have run this test in all of  *)
(* the windows", main.c:473).                                                *)
EveryPageTested ==
  pc = "next_window" /\ window = NWindows - 1 /\ test \in 0 .. FadeTest - 1 =>
    \A i \in DOMAIN pmap : \A p \in pmap[i].start .. pmap[i].end - 1 :
      p \in plimLower .. plimUpper - 1 /\ Reachable(p) => p \in touched

(* What the jumps of the program rely on: it is initialised, home or high,   *)
(* and bound for the copy that fits the window.                              *)
Settled ==
  /\ pc \in PCs \ {"do_test"} => firsttime /\ at \in {Low, highAdr}
  /\ firsttime => pmap \in PMaps
  /\ pc = "do_test" /\ firsttime => runAt = IF window = 1 THEN highAdr ELSE Low
  /\ pc = "menu" /\ from = "end_of_pass" => window = 0
  /\ InTest /\ recomputed > 0 => window = 0

(* A window is entered, and tested until the menu intervenes, by the copy    *)
(* that can test it: every route there, from a restart, an interrupted test  *)
(* or the end of a pass, has jumped to the right copy, and a pass starts     *)
(* with the low one (main.c:449-469, 509).                                   *)
CopyFitsWindow ==
  pc = "window" \/ (InTest /\ recomputed = 0) => RightCopy

(* The inductive invariant behind ImageSpared. *)
IInv == TypeOK /\ Settled /\ CopyFitsWindow /\ ImageSpared

(* No test touches what is below 0x500 ("We must not touch test below 0x500  *)
(* memory", main.c:233), until the menu computes the segments anew.          *)
BiosAreaSpared ==
  pc = "test" /\ ~bail /\ recomputed = 0 =>
    \A i \in DOMAIN map : map[i].first = 0 => map[i].usb

(* Every pass comes to its end, if the operator opens the menu and reboots   *)
(* only finitely often and leaves the menu at the end of each pass.          *)
PassesRecur ==
  (/\ <>[](pc = "menu" => from = "end_of_pass")
   /\ <>[][~Reboot]_vars
   /\ [](pc # "lost"))
  => []<>(pc = "menu")

=============================================================================
