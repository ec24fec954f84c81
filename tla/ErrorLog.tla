----------------------------- MODULE ErrorLog -----------------------------
(***************************************************************************)
(* The error log of error.c and the error counts per memory slot of dmi.c. *)
(* Every report, whoever makes it, goes through common_err(): it counts    *)
(* the error, enters its address into the runs of failing addresses with a *)
(* fixed stride (update_err_ranges), marks the slot it lies in             *)
(* (add_dmi_err) and then does what the printing mode asks for.  Only what *)
(* is kept is modelled, not what is put on the screen.                     *)
(*                                                                         *)
(* Addresses are counted in words of 4 bytes, of which PageWords make a    *)
(* page.  In individual-errors mode common_err() opens the menu in the     *)
(* middle of a report: pc is "reporting" from there on.                    *)
(*                                                                         *)
(* An operator named Bad... is a plausible mistake in the definition that  *)
(* follows it; nothing refers to it.                                       *)
(***************************************************************************)
EXTENDS Integers, Sequences, FiniteSetsExt

CONSTANTS
  Word,          \* addresses of 32 bits, in words
  PageWords,     \* words of a page
  HalfPages,     \* pages of 2GB: the upper half of the addresses is mapped
  Bits,          \* bits of a word
  OffsetBits,    \* the bits that are 1 in an offset
  RangeSize,     \* RANGESIZE
  Structures,    \* of the SMBIOS table, and how many the entry point says they are
  NumStructs,
  KB,            \* words of the unit of their address ranges
  DataErrors,    \* what error() and ad_err2() may be called with,
  AddrErrors,    \* ... ad_err1(),
  EccErrors,     \* ... print_ecc_err()
  ParityErrors,  \* ... and parity_err()
  Modes,         \* printing modes the operator may choose
  MaxReports     \* bound: reports

Offsets == 0 .. PageWords - 1
Addrs == 0 .. Word - 1
Windows == Nat \ {0}          \* mapped_window

(* test and window are those of the driver at the time of the report *)
DataError == [adr : Addrs, bits : SUBSET Bits, test : 0 .. 9, window : Windows]
EccError == [page : Addrs, offset : Offsets, corrected : BOOLEAN, test : 0 .. 9]
ParityError == [edi : Addrs, esi : Addrs, test : 0 .. 9, window : Windows]

(* A structure of the SMBIOS table: a memory device is of type 17, and of the  *)
(* mapping of a device, type 20, device is the handle.                         *)
Structure == [type : Nat, handle : STRING, device : STRING, start : Nat, end : Nat]

ASSUME LogAssumption ==
  /\ PageWords \in Nat \ {0} /\ HalfPages \in Nat \ {0}
  /\ Word = 2 * HalfPages * PageWords
  /\ RangeSize \in Nat /\ KB \in Nat \ {0} /\ MaxReports \in Nat
  /\ IsFiniteSet(Bits) /\ Bits \subseteq Nat /\ 0 \in Bits
  /\ OffsetBits \in [Offsets -> SUBSET Bits]
  /\ Modes \subseteq {"summary", "addresses", "patterns", "none", "dmi"}
  /\ Structures \in Seq(Structure) /\ NumStructs \in Nat
  /\ DataErrors \subseteq DataError /\ AddrErrors \subseteq DataError
  /\ EccErrors \subseteq EccError /\ ParityErrors \subseteq ParityError

VARIABLES
  pc,
  pending,        \* the report common_err() is in the middle of
  printmode,      \* v->printmode
  ecount,         \* v->ecount
  eccCount,       \* v->ecc_ecount
  errors,         \* tseq[].errors
  lowAddr, highAddr, ebits, tbits, minBits, maxBits, maxl, eadr, exor,
  corErr,         \* v->erri
  ranges,         \* v->err_range
  dmiErr,         \* dmi_err_cnts
  patnFaults,     \* addresses handed to insertaddress() since init()
  \* History, read by properties only:
  reported,       \* addresses reported since power-on
  reports,        \* how many reports that were
  bitReports,     \* how many of them with each bit in error
  summarised,     \* what the summary was told of since init()
  overflow        \* addresses that were reported when there was no room

erri == <<lowAddr, highAddr, ebits, tbits, minBits, maxBits, maxl, corErr>>
lastErr == <<eadr, exor>>
history == <<reported, reports, bitReports, summarised, overflow>>
vars == <<pc, pending, printmode, ecount, eccCount, errors, erri, lastErr,
          ranges, dmiErr, patnFaults, history>>

PrintModes == {"summary", "addresses", "patterns", "none", "dmi"}

-----------------------------------------------------------------------------
(* A report is what common_err() is called with, and the test and window of  *)
(* the driver at that time.  Types: 0 data, 1 address, 2 ECC, 3 parity.      *)
Report == [type : 0 .. 3, adr : Addrs, good : Offsets, corrected : BOOLEAN,
           bits : SUBSET Bits, xor : SUBSET Bits, test : 0 .. 9, window : Windows]

(* page_of() *)
PageOf(adr, window) ==
  LET page == adr \div PageWords
  IN  IF page >= HalfPages THEN (page % HalfPages) + window * HalfPages ELSE page

(* Where common_err() takes an error to be.  For an ECC error adr is the      *)
(* number of the page and good the offset.                                    *)
Place(e) ==
  IF e.type = 2 THEN [page |-> e.adr, offset |-> e.good]
  ELSE [page |-> PageOf(e.adr, e.window), offset |-> e.adr % PageWords]

Before(x, y) == x.page < y.page \/ (x.page = y.page /\ x.offset < y.offset)

-----------------------------------------------------------------------------
(* update_err_counts() *)
UpdateErrCounts(e) ==
  /\ ecount' = ecount + 1
  /\ errors' = [errors EXCEPT ![e.test] = @ + 1]

(* update_err_ranges() *)
Hist(hist, bits) == [b \in Bits |-> hist[b] + (IF b \in bits THEN 1 ELSE 0)]

NewRun(e) ==
  [low |-> e.adr, high |-> e.adr, stride |-> 0, count |-> 1,
   hist |-> Hist([b \in Bits |-> 0], e.bits)]

(* A run that takes an error at its end *)
BadTakes(r, adr) ==   \* an error at the stride below the run, too
  \/ r.count = 1
  \/ (r.high + r.stride) % Word = adr
  \/ (r.low - r.stride) % Word = adr
Takes(r, adr) == r.count = 1 \/ (r.high + r.stride) % Word = adr

Extend(r, e) ==
  [r EXCEPT !.high = e.adr, !.count = @ + 1, !.hist = Hist(@, e.bits),
            !.stride = IF r.count = 1 THEN (e.adr - r.low) % Word ELSE @]

(* No run takes the error, but one begins with it. *)
BadKnown(adr) ==   \* ... or it lies between the ends of one
  \E i \in 1 .. Len(ranges) : adr \in ranges[i].low .. ranges[i].high
Known(adr) == \E i \in 1 .. Len(ranges) : ranges[i].low = adr

NoRoom == Len(ranges) >= RangeSize

BadUpdateErrRanges(e) ==   \* the search goes on after a run took the error
  ranges' = IF NoRoom THEN ranges
            ELSE IF \E i \in 1 .. Len(ranges) : Takes(ranges[i], e.adr)
                 THEN [i \in 1 .. Len(ranges) |->
                         IF Takes(ranges[i], e.adr) THEN Extend(ranges[i], e)
                         ELSE ranges[i]]
                 ELSE IF Known(e.adr) THEN ranges ELSE Append(ranges, NewRun(e))

UpdateErrRanges(e) ==
  LET takers == {i \in 1 .. Len(ranges) : Takes(ranges[i], e.adr)}
  IN  ranges' = IF NoRoom THEN ranges
                ELSE IF takers # {}
                     THEN [ranges EXCEPT ![Min(takers)] = Extend(@, e)]
                     ELSE IF Known(e.adr) THEN ranges
                          ELSE Append(ranges, NewRun(e))

(* open_dmi(): it gives up when it has looked at one structure too many, and   *)
(* takes the system information, of type 1, for a mapping.  There is room for  *)
(* MAX_DMI_MEMDEVS of each, which is not checked.  The table is read on the    *)
(* first call; it does not change.                                             *)
LookedAt == {Structures[i] : i \in {k \in 1 .. Len(Structures) : k <= NumStructs + 1}}
Devs == {s.handle : s \in {t \in LookedAt : t.type = 17}}
Maps == {s \in LookedAt : s.type \in {1, 20}}

(* add_dmi_err(): the devices with a mapping that adr lies in are marked.     *)
(* The bounds are counted in KB and shifted in 32 bits.                       *)
InMap(m, adr) == adr >= (m.start * KB) % Word /\ adr <= (m.end * KB) % Word

AddDmiErr(adr) ==
  dmiErr' = [d \in Devs |->
               IF \E m \in Maps : m.device = d /\ InMap(m, adr) THEN 1 ELSE dmiErr[d]]

(* What the properties have to know of a report *)
Record(e) ==
  /\ reported' = reported \cup {e.adr}
  /\ reports' = reports + 1
  /\ bitReports' = Hist(bitReports, e.bits)
  /\ overflow' = IF NoRoom THEN overflow \cup {e.adr} ELSE overflow

Enter(e) ==
  /\ pc = "ready" /\ reports < MaxReports
  /\ UpdateErrCounts(e)
  /\ UpdateErrRanges(e)
  /\ AddDmiErr(e.adr)
  /\ Record(e)

-----------------------------------------------------------------------------
(* PRINTMODE_SUMMARY: the lowest and highest address. *)
BadNewLow(p) == IF lowAddr.page > p.page THEN p ELSE lowAddr
NewLow(p) == IF Before(p, lowAddr) THEN p ELSE lowAddr

(* The highest is looked at only if the lowest page did not change, and page *)
(* and offset one after the other.                                           *)
HighPage(p) ==
  IF lowAddr.page > p.page THEN highAddr
  ELSE IF lowAddr.page = p.page /\ lowAddr.offset > p.offset
       THEN [highAddr EXCEPT !.offset = p.offset]
       ELSE IF highAddr.page < p.page THEN [highAddr EXCEPT !.page = p.page]
            ELSE highAddr

NewHigh(p) ==
  LET h == HighPage(p)
  IN  IF h.page = p.page /\ h.offset < p.offset THEN p ELSE h

WrongBits(e) == IF e.type = 1 THEN e.bits ELSE e.xor

Contiguous(adr) == adr = (eadr + 1) % Word \/ adr = (eadr - 1) % Word

Summarise(e) ==
  LET p == Place(e)
      n == Cardinality(WrongBits(e))
      length == IF Contiguous(e.adr) THEN 2 ELSE 1
  IN  /\ printmode = "summary" /\ e.type # 3
      /\ corErr' = corErr + (IF e.type = 2 /\ e.corrected THEN 1 ELSE 0)
      /\ lowAddr' = NewLow(p)
      /\ highAddr' = NewHigh(p)
      /\ tbits' = tbits + n
      /\ maxBits' = Max({maxBits, n})
      /\ minBits' = Min({minBits, n})
      /\ ebits' = ebits \cup WrongBits(e)
      /\ maxl' = Max({maxl, length})
      /\ eadr' = e.adr
      /\ summarised' = summarised \cup {p}
      /\ UNCHANGED <<pc, pending, exor, patnFaults>>

(* PRINTMODE_ADDRESSES: a repeated error is dropped, for any other the menu   *)
(* and the scroll lock are looked at.                                         *)
Repeated(e) == e.adr = eadr /\ e.xor = exor

Individual(e) ==
  /\ printmode = "addresses" /\ ~Repeated(e)
  /\ pc' = "reporting" /\ pending' = e
  /\ UNCHANGED <<erri, lastErr, patnFaults, summarised>>

(* PRINTMODE_PATTERNS: data errors, but not of tests 0 and 5 *)
ForPatterns(e) == e.test \notin {0, 5} /\ e.type = 0

Patterns(e) ==
  /\ printmode = "patterns" /\ ForPatterns(e)
  /\ patnFaults' = patnFaults \cup {e.adr}
  /\ UNCHANGED <<pc, pending, erri, lastErr, summarised>>

(* ... and all the other cases *)
NothingMore(e) ==
  /\ \/ printmode = "summary" /\ e.type = 3
     \/ printmode = "addresses" /\ Repeated(e)
     \/ printmode = "patterns" /\ ~ForPatterns(e)
     \/ printmode \in {"none", "dmi"}
  /\ UNCHANGED <<pc, pending, erri, lastErr, patnFaults, summarised>>

CommonErr(e) ==
  /\ Enter(e)
  /\ Summarise(e) \/ Individual(e) \/ Patterns(e) \/ NothingMore(e)
  /\ UNCHANGED printmode

(* The rest of common_err() in individual-errors mode *)
Reported ==
  /\ pc = "reporting"
  /\ exor' = IF pending.type \in {2, 3} THEN exor ELSE pending.xor
  /\ eadr' = pending.adr
  /\ pc' = "ready"
  /\ UNCHANGED <<pending, printmode, ecount, eccCount, errors, erri, ranges,
                 dmiErr, patnFaults, history>>

-----------------------------------------------------------------------------
(* error() and ad_err2(); the two addresses that error() passes over         *)
(* (USB_WAR) are not among DataErrors.                                       *)
Data(d) ==
  /\ CommonErr([type |-> 0, adr |-> d.adr, good |-> 0, corrected |-> FALSE,
                bits |-> d.bits, xor |-> d.bits, test |-> d.test,
                window |-> d.window])
  /\ UNCHANGED eccCount

(* ad_err1(): what should be the bits in error is the mask of the test. *)
Address(d, mask) ==
  /\ CommonErr([type |-> 1, adr |-> d.adr, good |-> 0, corrected |-> FALSE,
                bits |-> d.bits, xor |-> mask, test |-> d.test,
                window |-> d.window])
  /\ UNCHANGED eccCount

(* print_ecc_err(): the bits that are counted are those of the offset and of  *)
(* the flag, which is bit 0.                                                  *)
Flag(corrected) == IF corrected THEN {0} ELSE {}

Ecc(d) ==
  /\ CommonErr([type |-> 2, adr |-> d.page, good |-> d.offset,
                corrected |-> d.corrected,
                bits |-> SymDiff(OffsetBits[d.offset], Flag(d.corrected)),
                xor |-> {}, test |-> d.test, window |-> 1])
  /\ eccCount' = eccCount + 1

(* parity_err(): which register has the address depends on the test. *)
Parity(d) ==
  LET addr == IF d.test = 5 THEN d.esi ELSE d.edi
  IN  /\ CommonErr([type |-> 3, adr |-> addr, good |-> addr % PageWords,
                    corrected |-> FALSE, bits |-> OffsetBits[addr % PageWords],
                    xor |-> {}, test |-> d.test, window |-> d.window])
      /\ UNCHANGED eccCount

(* get_config(): the printing mode *)
SetPrintMode(mode) ==
  /\ printmode' = mode
  /\ eadr' = IF mode \in {"summary", "addresses"} THEN 0 ELSE eadr
  /\ UNCHANGED <<pc, pending, ecount, eccCount, errors, erri, exor, ranges,
                 dmiErr, patnFaults, history>>

NoPending == [type |-> 0, adr |-> 0, good |-> 0, corrected |-> FALSE,
              bits |-> {}, xor |-> {}, test |-> 0, window |-> 1]
Nowhere == [page |-> Word * Word, offset |-> PageWords - 1]   \* 0x7fffffff

(* restart() and the init() that follows; a report that is under way is never *)
(* finished.                                                                  *)
Restart ==
  /\ pc' = "ready" /\ pending' = NoPending
  /\ printmode' = "none"
  /\ ecount' = 0 /\ eccCount' = 0
  /\ errors' = [t \in 0 .. 9 |-> 0]
  /\ lowAddr' = Nowhere /\ highAddr' = [page |-> 0, offset |-> 0]
  /\ ebits' = {} /\ tbits' = 0 /\ corErr' = 0 /\ maxl' = 0
  /\ minBits' = Cardinality(Bits) /\ maxBits' = 0
  /\ dmiErr' = [d \in Devs |-> 0]
  /\ patnFaults' = {}
  /\ summarised' = {}
  /\ UNCHANGED <<lastErr, ranges, reported, reports, bitReports, overflow>>

Init ==
  /\ pc = "ready" /\ pending = NoPending
  /\ printmode = "none"
  /\ ecount = 0 /\ eccCount = 0
  /\ errors = [t \in 0 .. 9 |-> 0]
  /\ lowAddr = Nowhere /\ highAddr = [page |-> 0, offset |-> 0]
  /\ ebits = {} /\ tbits = 0 /\ corErr = 0 /\ maxl = 0
  /\ minBits = Cardinality(Bits) /\ maxBits = 0
  /\ eadr = 0 /\ exor = {}
  /\ ranges = <<>>
  /\ dmiErr = [d \in Devs |-> 0]
  /\ patnFaults = {}
  /\ reported = {} /\ reports = 0 /\ bitReports = [b \in Bits |-> 0]
  /\ summarised = {} /\ overflow = {}

Next ==
  \/ \E d \in DataErrors : Data(d)
  \/ \E d \in AddrErrors, b \in Bits : Address(d, {b})
  \/ \E d \in EccErrors : Ecc(d)
  \/ \E d \in ParityErrors : Parity(d)
  \/ Reported
  \/ \E mode \in Modes : SetPrintMode(mode)
  \/ Restart

Spec == Init /\ [][Next]_vars

-----------------------------------------------------------------------------
Run == [low : Addrs, high : Addrs, stride : Addrs, count : Nat \ {0},
        hist : [Bits -> Nat]]

TypeOK ==
  /\ pc \in {"ready", "reporting"} /\ pending \in Report
  /\ printmode \in PrintModes
  /\ ecount \in Nat /\ eccCount \in Nat /\ errors \in [0 .. 9 -> Nat]
  /\ lowAddr \in [page : Nat, offset : Offsets]
  /\ highAddr \in [page : Nat, offset : Offsets]
  /\ ebits \subseteq Bits /\ tbits \in Nat /\ corErr \in Nat /\ maxl \in 0 .. 2
  /\ minBits \in 0 .. Cardinality(Bits) /\ maxBits \in 0 .. Cardinality(Bits)
  /\ eadr \in Addrs /\ exor \subseteq Bits
  /\ ranges \in Seq(Run) /\ Len(ranges) <= RangeSize
  /\ dmiErr \in [Devs -> {0, 1}]
  /\ patnFaults \subseteq Addrs

(* The addresses a run stands for *)
Members(r) == {(r.low + k * r.stride) % Word : k \in 0 .. r.count - 1}

(* A run claims no address that was not reported, and ends where its stride   *)
(* and count say (config.c:409-412 prints all four).                          *)
NothingInvented ==
  \A i \in 1 .. Len(ranges) :
    /\ Members(ranges[i]) \subseteq reported
    /\ ranges[i].high = (ranges[i].low + (ranges[i].count - 1) * ranges[i].stride) % Word

(* Every address that was reported while there was room is in a run.          *)
NothingForgotten ==
  reported \ overflow \subseteq UNION {Members(ranges[i]) : i \in 1 .. Len(ranges)}

(* No report is counted in two runs, nor a bit of it (error.c:374, 391).      *)
NothingCountedTwice ==
  /\ MapThenSumSet(LAMBDA i : ranges[i].count, 1 .. Len(ranges)) <= reports
  /\ \A b \in Bits :
       MapThenSumSet(LAMBDA i : ranges[i].hist[b], 1 .. Len(ranges)) <= bitReports[b]

(* The lowest error address of the summary is the lowest of all (error.c:70). *)
LowestIsLowest ==
  \A p \in summarised : ~Before(p, lowAddr)
=============================================================================
