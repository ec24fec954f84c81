------------------------------ MODULE EccPoll -------------------------------
(***************************************************************************)
(* ECC polling: pci.c finds out how to reach the configuration space,      *)
(* find_controller() looks up the memory controller and runs its setup_    *)
(* function, and every tick calls its poll_ function, which reads the      *)
(* error status, reads where the error was, reports it and clears the      *)
(* status.  The controller logs errors at any time, also between these     *)
(* accesses.                                                               *)
(*                                                                         *)
(* An operator named Bad... is a plausible mistake in the definition that  *)
(* follows it; nothing refers to it.                                       *)
(*                                                                         *)
(* The registers are the hardware's.  A status bit, one for correctable    *)
(* and one for uncorrectable errors, stays set until the program clears    *)
(* it, and the location of the error that set it is kept as long; here a   *)
(* bit holds the number of that error, 0 if it is clear.  Syndrome and     *)
(* channel, and the layout of the location, are left out.                  *)
(***************************************************************************)
EXTENDS Integers, Sequences, FiniteSets

CONSTANTS
  MaxErrors      \* bound on the errors that the controller logs

ASSUME EccAssumption == MaxErrors \in Nat

Kinds == {"ce", "ue"}
Errors == 1 .. MaxErrors
Clear == [k \in Kinds |-> 0]
Seen(s) == {k \in Kinds : s[k] # 0}

(* ctrl.cap and ctrl.mode                                                    *)
NONE == {}
RESERVED == {"unexpected"}
DETECT == {"detect"}
CORRECT == DETECT \cup {"correct"}
CHIPKILL == CORRECT \cup {"chipkill"}
SCRUB == CORRECT \cup {"scrub"}
UNKNOWN == RESERVED \cup CHIPKILL \cup SCRUB                     \* ~0UL

-----------------------------------------------------------------------------
(* The rows of controllers[], one for each different set of functions.       *)
Row(tested, setup, poll) == [tested |-> tested, setup |-> setup, poll |-> poll]

controllers == [
  unknown |-> Row(FALSE, "nothing", "nothing"),
  amd751  |-> Row(FALSE, "amd751", "amd751"),
  amd76x  |-> Row(FALSE, "amd76x", "amd76x"),
  cnb20   |-> Row(FALSE, "cnb20", "nothing"),
  i840    |-> Row(FALSE, "i840", "i840"),
  i845    |-> Row(FALSE, "i845", "i845"),
  i820    |-> Row(FALSE, "i820", "i820"),
  i850    |-> Row(FALSE, "i850", "i850"),
  i860    |-> Row(TRUE,  "i860", "i860"),
  i440gx  |-> Row(FALSE, "i440gx", "i440gx"),
  iE7500  |-> Row(TRUE,  "iE7xxx", "iE7xxx"),
  iE7505  |-> Row(FALSE, "iE7xxx", "iE7xxx"),
  iE7205  |-> Row(FALSE, "iE7205", "iE7xxx"),
  iE7320  |-> Row(FALSE, "iE7520", "iE7520"),
  iE7520  |-> Row(FALSE, "iE7520", "nothing"),
  iE7221  |-> Row(TRUE,  "i925", "iE7221"),
  i925X   |-> Row(FALSE, "i925", "iE7221"),
  i915    |-> Row(FALSE, "i925", "nothing"),
  i875P   |-> Row(FALSE, "i875", "i875"),
  i865    |-> Row(FALSE, "i875", "nothing"),
  p35     |-> Row(FALSE, "p35", "nothing"),
  i5400   |-> Row(FALSE, "E5400", "nothing"),
  nhm     |-> Row(FALSE, "nhm", "nothing"),
  wmr     |-> Row(FALSE, "wmr", "nothing"),
  k8      |-> Row(FALSE, "amd64", "amd64"),
  k10     |-> Row(FALSE, "k10", "nothing"),
  failsafe |-> Row(FALSE, "nothing", "nothing")]

(* Those that are found by the processor, imc_type, not by the host bridge   *)
Integrated == {"nhm", "wmr", "k8", "k10"}

VARIABLES
  conf,          \* pci_conf_type
  bridge, imc,   \* what the machine has: host bridge, imc_type or "none"
  index,         \* ctrl.index, "off" before find_controller()
  cap, mode, poll,
  status, next,  \* error bits, and those of further errors where there are any
  errcmd,        \* the bits of the register in front of that of the i440GX
  log,           \* the error whose location each log register holds
  n,             \* errors logged so far
  kind,          \* ... of each, what it was
  todo, seen, at,  \* poll_ function: steps left, status and location read
  \* History, read by properties only:
  reports,       \* print_ecc_err() calls
  before         \* n when the setup_ function was called

hardware == <<status, next, errcmd, log, n, kind>>
locals == <<todo, seen, at>>
machine == <<conf, bridge, imc>>
ctrl == <<index, cap, mode, before>>
vars == <<machine, ctrl, poll, hardware, locals, reports>>

-----------------------------------------------------------------------------
(* The controllers' registers.                                               *)

(* One log register for each bit, or one for both, as poll_ reads them       *)
TwoLogs(c) == controllers[c].poll \in {"amd76x", "iE7xxx", "iE7520"}
(* A second pair of bits for errors that find the first taken                *)
HasNext(c) == controllers[c].poll \in {"iE7xxx", "iE7520"}

(* The controller of the machine *)
Device == IF imc = "none" THEN bridge ELSE imc

(* Both registers are free as long as no bit is set; that of the i440GX when *)
(* it has been cleared itself.                                               *)
LogFree ==
  IF controllers[Device].poll = "i440gx" THEN log["ce"] = 0 ELSE status = Clear

(* The next error: it sets its bit and, if the register is free, the log.    *)
LogError(k) ==
  /\ n < MaxErrors
  /\ n' = n + 1
  /\ kind' = Append(kind, k)
  /\ IF status[k] = 0
     THEN /\ status' = [status EXCEPT ![k] = n']
          /\ log' = IF TwoLogs(Device) THEN [log EXCEPT ![k] = n']
                    ELSE IF LogFree THEN [i \in Kinds |-> n'] ELSE log
          /\ UNCHANGED next
     ELSE /\ next' = IF HasNext(Device) THEN next \cup {k} ELSE next
          /\ UNCHANGED <<status, log>>
  /\ UNCHANGED <<machine, ctrl, poll, errcmd, locals, reports>>

Cleared(bits) == [k \in Kinds |-> IF k \in bits THEN 0 ELSE status[k]]

-----------------------------------------------------------------------------
(* pci_init(): type 1 without a look on a K8, else the first type that shows *)
(* a host bridge in device 0, else none.                                     *)
PciTypes(amd, works) ==
  IF amd \/ 1 \in works THEN 1 ELSE IF 2 \in works THEN 2 ELSE 0

PciInit ==
  /\ conf = -1
  /\ \E works \in SUBSET {1, 2} : conf' = PciTypes(imc \in {"k8", "k10"}, works)
  /\ UNCHANGED <<bridge, imc, ctrl, poll, hardware, locals, reports>>

(* The setup_ functions: what the controller can do, what the BIOS has       *)
(* enabled, as far as a register field of two bits f and another bit s tell, *)
(* and whether the status is cleared.                                        *)
Found(c, m, clears) == [cap |-> c, mode |-> m, clears |-> clears]
OneOf(ddim, f) == ddim[f + 1]

SetupAmd751(f) == Found(CORRECT, IF f > 1 THEN CORRECT ELSE NONE, FALSE)
SetupAmd76x(f) ==
  Found(CORRECT, OneOf(<<NONE, DETECT, CORRECT, CORRECT>>, f), FALSE)
SetupI840(f) ==
  Found(CORRECT, OneOf(<<NONE, RESERVED, CORRECT, CORRECT>>, f), FALSE)
SetupI845(f) ==
  Found(CORRECT, OneOf(<<NONE, RESERVED, CORRECT, RESERVED>>, f), FALSE)
SetupI820(f) == SetupI840(f)
SetupI850(f) == SetupI845(f)
SetupI440gx(f) == SetupAmd76x(f)
BadSetupI860(f) == SetupI845(f)

SetupI860(f) == [SetupI845(f) EXCEPT !.clears = TRUE]
SetupCnb20 == Found(CORRECT, UNKNOWN, FALSE)              \* mode is not set
SetupE7xxx(f, s) ==
  Found(SCRUB, (IF f = 2 THEN CORRECT ELSE NONE)
               \cup (IF s THEN {"scrub"} ELSE {}), TRUE)
SetupE7205(f) == Found(CORRECT, IF f = 2 THEN CORRECT ELSE NONE, TRUE)
SetupE7520(f, s) ==
  Found(SCRUB, (IF f # 0 THEN CORRECT ELSE NONE)
               \cup (IF s THEN {"scrub"} ELSE {}), TRUE)
SetupI875(f) == Found(CORRECT, IF f > 1 THEN CORRECT ELSE NONE, TRUE)
SetupI925(f) == Found(CORRECT, IF f = 2 THEN CORRECT ELSE NONE, f = 2)
SetupP35(s) == Found(IF s THEN NONE ELSE CORRECT, NONE, FALSE)
SetupE5400(f, s) ==
  Found(SCRUB, (IF f > 1 THEN CORRECT ELSE NONE)
               \cup (IF s THEN {"scrub"} ELSE {}), FALSE)
SetupNhm(f, s) ==
  Found(SCRUB, IF f > 1 THEN IF s THEN SCRUB ELSE CORRECT ELSE NONE, FALSE)
SetupWmr == Found(CORRECT, NONE, FALSE)
SetupAmd64(f, s) ==
  Found(CHIPKILL,
        IF s THEN OneOf(<<NONE, CORRECT, RESERVED, CHIPKILL>>, f) ELSE NONE, TRUE)
SetupK10(f, s) ==
  Found(CHIPKILL,
        IF s THEN OneOf(<<NONE, CORRECT, CHIPKILL, CHIPKILL>>, f) ELSE NONE, TRUE)
SetupNothing == Found(NONE, NONE, FALSE)

Setup(fn, f, s) ==
  CASE fn = "nothing" -> SetupNothing
    [] fn = "amd751"  -> SetupAmd751(f)
    [] fn = "amd76x"  -> SetupAmd76x(f)
    [] fn = "cnb20"   -> SetupCnb20
    [] fn = "i840"    -> SetupI840(f)
    [] fn = "i845"    -> SetupI845(f)
    [] fn = "i820"    -> SetupI820(f)
    [] fn = "i850"    -> SetupI850(f)
    [] fn = "i440gx"  -> SetupI440gx(f)
    [] fn = "i860"    -> SetupI860(f)
    [] fn = "iE7xxx"  -> SetupE7xxx(f, s)
    [] fn = "iE7205"  -> SetupE7205(f)
    [] fn = "iE7520"  -> SetupE7520(f, s)
    [] fn = "i875"    -> SetupI875(f)
    [] fn = "i925"    -> SetupI925(f)
    [] fn = "p35"     -> SetupP35(s)
    [] fn = "E5400"   -> SetupE5400(f, s)
    [] fn = "nhm"     -> SetupNhm(f, s)
    [] fn = "wmr"     -> SetupWmr
    [] fn = "amd64"   -> SetupAmd64(f, s)
    [] fn = "k10"     -> SetupK10(f, s)

(* set_ecc_polling(val): -1 takes what is recommended for the controller;    *)
(* without detection there is no polling.                                    *)
Polling(val, c, m) ==
  (IF val = -1 THEN controllers[c].tested ELSE val = 1) /\ "detect" \in m

(* find_controller(): by imc_type if there is one, else by the host bridge;  *)
(* in fail-safe mode the last row; the first row if nothing can be read.     *)
Lookup(fail_safe) ==
  IF conf = 0 THEN "unknown"
  ELSE IF fail_safe THEN "failsafe" ELSE Device

FindController ==
  /\ conf # -1 /\ index = "off"
  /\ \E fail_safe, s \in BOOLEAN, f \in 0 .. 3 :
       LET c == Lookup(fail_safe)
           found == Setup(controllers[c].setup, f, s)
       IN  /\ index' = c /\ cap' = found.cap /\ mode' = found.mode
           /\ poll' = Polling(-1, c, found.mode)
           /\ status' = IF found.clears THEN Clear ELSE status
           /\ next' = IF found.clears THEN {} ELSE next
  /\ before' = n
  /\ UNCHANGED <<machine, errcmd, log, n, kind, locals, reports>>

-----------------------------------------------------------------------------
(* The poll_ functions, as the steps that follow the reading of the status:  *)
(* which log to read, how to report it, what to clear.                       *)
ReadLog(k) == [op |-> "log", from |-> k]
Report(corrected) == [op |-> "report", corrected |-> corrected]
ClearBits(bits) == [op |-> "clear", bits |-> bits]
ClearNext(bits) == [op |-> "next", bits |-> bits]
When(b, steps) == IF b THEN steps ELSE <<>>

(* One location for both kinds of errors; all that is set is cleared, seen   *)
(* or not.                                                                   *)
PollI840(s) ==
  When(s # {}, <<ReadLog("ce"), Report(s = {"ce"}), ClearBits(Kinds)>>)
PollI875(s) ==
  When(s # {}, <<ReadLog("ce"), Report("ue" \notin s), ClearBits(Kinds)>>)
PollI845(s) == PollI840(s)
PollI820(s) == PollI840(s)

BadPollI850(s) ==
  When(s # {}, <<ReadLog("ce"), Report(s = {"ce"}), ClearBits(Kinds)>>)

(* ... only what was seen                                                    *)
PollI850(s) ==
  When(s # {}, <<ReadLog("ce"), Report(s = {"ce"}), ClearBits(s)>>)

PollI860(s) == PollI850(s)

BadPollE7221(s) ==
  When(s # {} /\ s # Kinds, <<ReadLog("ce"), Report(s = {"ce"}), ClearBits(s)>>)

(* ... and nothing reported if there are both                                *)
PollE7221(s) ==
  IF s = Kinds THEN <<ClearBits(s)>>
  ELSE When(s # {}, <<ReadLog("ce"), Report(s = {"ce"}), ClearBits(s)>>)

(* The location has the kind in it, none if it has been cleared since; it is *)
(* cleared apart from the status, which is at an odd address.                *)
PollI440gx(s) ==
  When(s # {}, <<ReadLog("ce"), [op |-> "typed"], ClearBits(Kinds), [op |-> "eap"]>>)

(* Six banks with a flag each, of which this is one; the status is cleared   *)
(* by writing 0 to it.                                                       *)
PollAmd751(s) ==
  When(s # {}, <<ReadLog("ce"), Report(s = {"ce"}), ClearBits(Kinds)>>)

(* The status word holds one error; it is written back without its valid bit *)
PollAmd64(s) ==
  When("ce" \in s, <<ReadLog("ce"), Report(TRUE), ClearBits(Kinds)>>)
  \o When("ue" \in s, <<ReadLog("ce"), Report(FALSE), ClearBits(Kinds)>>)

(* Multibit errors first, reported as corrected, single bit errors not       *)
PollAmd76x(s) ==
  When("ue" \in s, <<ReadLog("ue"), Report(TRUE)>>)
  \o When("ce" \in s, <<ReadLog("ce"), Report(FALSE)>>)
  \o When(s # {}, <<ClearBits(s)>>)

PollE7xxx(s, nerr) ==
  When("ce" \in s, <<ReadLog("ce"), Report(TRUE), ClearBits(s)>>)
  \o When("ue" \in s, <<ReadLog("ue"), Report(FALSE), ClearBits(s)>>)
  \o When(nerr # {}, <<ClearNext(nerr)>>)

BadPollE7520(s, nerr) ==
  When("ce" \in s, <<ReadLog("ue"), Report(TRUE), ClearBits({"ce"})>>)
  \o When("ue" \in s, <<ReadLog("ue"), Report(FALSE), ClearBits({"ue"})>>)
  \o When(nerr # {}, <<ClearNext(nerr)>>)

BadPollE7520Clear(s, nerr) ==
  When("ce" \in s, <<ReadLog("ce"), Report(TRUE), ClearBits({"ce"})>>)
  \o When("ue" \in s, <<ReadLog("ue"), Report(FALSE)>>)
  \o When(nerr # {}, <<ClearNext(nerr)>>)

PollE7520(s, nerr) ==
  When("ce" \in s, <<ReadLog("ce"), Report(TRUE), ClearBits({"ce"})>>)
  \o When("ue" \in s, <<ReadLog("ue"), Report(FALSE), ClearBits({"ue"})>>)
  \o When(nerr # {}, <<ClearNext(nerr)>>)

Poll(fn, s, nerr) ==
  CASE fn = "nothing" -> <<>>
    [] fn = "i840"    -> PollI840(s)
    [] fn = "i845"    -> PollI845(s)
    [] fn = "i820"    -> PollI820(s)
    [] fn = "i875"    -> PollI875(s)
    [] fn = "i850"    -> PollI850(s)
    [] fn = "i860"    -> PollI860(s)
    [] fn = "i440gx"  -> PollI440gx(s)
    [] fn = "iE7221"  -> PollE7221(s)
    [] fn = "amd751"  -> PollAmd751(s)
    [] fn = "amd64"   -> PollAmd64(s)
    [] fn = "amd76x"  -> PollAmd76x(s)
    [] fn = "iE7xxx"  -> PollE7xxx(s, nerr)
    [] fn = "iE7520"  -> PollE7520(s, nerr)

(* With type 1 a word is read from, and written to, an even address: for the *)
(* i440GX the register in front of the status.                               *)
Misses == controllers[index].poll = "i440gx" /\ conf = 1
StatusRead == IF Misses THEN errcmd ELSE Seen(status)

(* do_tick() calls poll_errors(), and the poll_ function reads the status.   *)
PollErrors ==
  /\ index # "off" /\ todo = <<>> /\ poll
  /\ todo' = Poll(controllers[index].poll, StatusRead, next)
  /\ seen' = status
  /\ UNCHANGED <<machine, ctrl, poll, hardware, at, reports>>

Step(op) == todo # <<>> /\ Head(todo).op = op /\ todo' = Tail(todo)

PollReadsLog ==
  /\ Step("log")
  /\ at' = log[Head(todo).from]
  /\ UNCHANGED <<machine, ctrl, poll, hardware, seen, reports>>

(* print_ecc_err() scrolls, and the operator may come to the menu from there *)
PrintEccErr(corrected) ==
  /\ reports' = Append(reports, [error |-> at, corrected |-> corrected])
  /\ poll' \in {poll} \cup {Polling(val, index, mode) : val \in -1 .. 1}

PollReports ==
  /\ Step("report")
  /\ PrintEccErr(Head(todo).corrected)
  /\ UNCHANGED <<machine, ctrl, hardware, seen, at>>

PollReportsTyped ==
  /\ Step("typed")
  /\ IF at = 0 THEN UNCHANGED <<poll, reports>> ELSE PrintEccErr(kind[at] = "ce")
  /\ UNCHANGED <<machine, ctrl, hardware, seen, at>>

PollClears ==
  /\ Step("clear")
  /\ IF Misses THEN errcmd' = Kinds /\ UNCHANGED status
               ELSE status' = Cleared(Head(todo).bits) /\ UNCHANGED errcmd
  /\ UNCHANGED <<machine, ctrl, poll, next, log, n, kind, seen, at, reports>>

PollClearsNext ==
  /\ Step("next")
  /\ next' = next \ Head(todo).bits
  /\ UNCHANGED <<machine, ctrl, poll, status, errcmd, log, n, kind, seen, at, reports>>

PollClearsLog ==
  /\ Step("eap")
  /\ log' = Clear
  /\ UNCHANGED <<machine, ctrl, poll, status, errcmd, next, n, kind, seen, at, reports>>

(* The menu, between two polls *)
SetEccPolling(val) ==
  /\ index # "off" /\ todo = <<>>
  /\ poll' = Polling(val, index, mode)
  /\ UNCHANGED <<machine, ctrl, hardware, locals, reports>>

-----------------------------------------------------------------------------
Init ==
  /\ conf = -1
  /\ \/ imc = "none" /\ bridge \in DOMAIN controllers \ (Integrated \cup {"failsafe"})
     \/ imc \in Integrated /\ bridge = "unknown"
  /\ index = "off" /\ cap = UNKNOWN /\ mode = UNKNOWN /\ poll = FALSE
  /\ status = Clear /\ next = {} /\ log = Clear /\ n = 0 /\ kind = <<>>
  /\ errcmd \in IF bridge = "i440gx" THEN SUBSET Kinds ELSE {{}}
  /\ todo = <<>> /\ seen = Clear /\ at = 0
  /\ reports = <<>> /\ before = 0

Program ==
  \/ PciInit \/ FindController
  \/ PollErrors \/ PollReadsLog \/ PollReports \/ PollReportsTyped
  \/ PollClears \/ PollClearsNext \/ PollClearsLog

Next ==
  \/ Program
  \/ \E k \in Kinds : LogError(k)
  \/ \E val \in -1 .. 1 : SetEccPolling(val)

(* The program goes on: while a test runs there is always another tick.      *)
Spec == Init /\ [][Next]_vars /\ WF_vars(Program)

-----------------------------------------------------------------------------
Ops == [op : {"log"}, from : Kinds] \cup [op : {"report"}, corrected : BOOLEAN]
       \cup [op : {"clear", "next"}, bits : SUBSET Kinds] \cup [op : {"typed", "eap"}]

(* The variables have these types; polling is on only where errors can be    *)
(* detected.                                                                 *)
TypeOK ==
  /\ conf \in -1 .. 2
  /\ bridge \in DOMAIN controllers /\ imc \in Integrated \cup {"none"}
  /\ index \in DOMAIN controllers \cup {"off"}
  /\ cap \subseteq UNKNOWN /\ mode \subseteq UNKNOWN
  /\ poll \in BOOLEAN /\ (poll => "detect" \in mode)
  /\ {status, log, seen} \subseteq [Kinds -> 0 .. n]
  /\ next \subseteq Kinds /\ errcmd \subseteq Kinds
  /\ n \in 0 .. MaxErrors /\ kind \in [1 .. n -> Kinds]
  /\ \A i \in DOMAIN todo : todo[i] \in Ops
  /\ at \in 0 .. n /\ before \in 0 .. n
  /\ \A i \in DOMAIN reports :
       reports[i].error \in 0 .. n /\ reports[i].corrected \in BOOLEAN

Reported(corrected) == {i \in DOMAIN reports : reports[i].corrected = corrected}
Logged(k) == {i \in 1 .. n : kind[i] = k}

(* Whatever the controller logs in the middle of a poll, no more correctable *)
(* and no more uncorrectable errors are reported than it has logged: none    *)
(* comes up twice, and none as the other kind.  (The AMD 761 and 762 get the *)
(* kinds the wrong way round.)                                               *)
NothingInvented ==
  index # "amd76x" =>
    /\ Cardinality(Reported(TRUE)) <= Cardinality(Logged("ce"))
    /\ Cardinality(Reported(FALSE)) <= Cardinality(Logged("ue"))

(* Where each kind of error has a location register of its own the report    *)
(* gives the location of an error of its kind, and of each error once.       *)
RightLocation ==
  index # "off" /\ index # "amd76x" /\ TwoLogs(index) =>
    \A i \in DOMAIN reports :
      /\ reports[i].error # 0
      /\ kind[reports[i].error] = IF reports[i].corrected THEN "ce" ELSE "ue"
      /\ \A h \in 1 .. i - 1 : reports[h].error # reports[i].error

(* Errors that were logged before find_controller() set up the controller,   *)
(* say while the BIOS tested the memory, are not taken for errors of a test, *)
(* if its setup_ function clears the status.                                 *)
SetupClears == {"i860", "iE7xxx", "iE7205", "iE7520", "i875", "i925", "amd64"}
NoLeftOver ==
  index # "off" /\ controllers[index].setup \in SetupClears =>
    \A i \in DOMAIN reports : reports[i].error > before

(* Poll functions that clear only what they saw: a bit that an error set     *)
(* after the status was read is still there for the next poll.               *)
Careful == {"i850", "i860", "iE7221", "amd76x", "iE7520"}
OnlySeenCleared ==
  [][index # "off" /\ controllers[index].poll \in Careful =>
       \A k \in Kinds : status[k] # 0 /\ status'[k] = 0 => seen[k] = status[k]]_vars

(* While polling is on no bit stays set for good, so that later errors can   *)
(* be logged: whatever a poll function finds it clears in the end.           *)
Polls == index # "off" /\ poll /\ controllers[index].poll \notin {"nothing", "i440gx"}
Recovers == \A k \in Kinds : Polls /\ status[k] # 0 ~> ~Polls \/ status[k] = 0

(* controller.c:507 "Multibit error": an error of more than one bit is       *)
(* reported as one that was not corrected.                                   *)
MultibitUncorrected ==
  \A i \in DOMAIN reports :
    reports[i].error # 0 /\ kind[reports[i].error] = "ue" => ~reports[i].corrected
=============================================================================
