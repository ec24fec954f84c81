---------------------------- MODULE Relocation ----------------------------
(***************************************************************************)
(* How the program moves: run_at() of main.c copies the running image to   *)
(* another address and jumps to its startup code (head.S), which clears    *)
(* BSS the first time, sets up the exception vectors and calls _dl_start() *)
(* of reloc.c; do_test() finishes a move that went by way of another       *)
(* address, and a program that was not loaded at LOW_TEST_ADR goes there   *)
(* first.                                                                  *)
(*                                                                         *)
(* The image copied is one that was already relocated, for the address it  *)
(* is copied from: _dl_start() adjusts each word by the difference to the  *)
(* last load address, and 0 stands for "as the linker left it".  Of an     *)
(* image the model keeps the words that have a relocation entry, one each, *)
(* the pointers of the dynamic section, the address the exception vectors  *)
(* are set up for, and the variables.  COPY relocations are left out:      *)
(* the Makefile links a shared object, which has none.  Words are only     *)
(* added to and subtracted from, so that counting modulo 2^32 makes no     *)
(* difference.                                                             *)
(*                                                                         *)
(* An operator named Bad... is a plausible mistake in the definition that  *)
(* follows it; nothing refers to it.                                       *)
(***************************************************************************)
EXTENDS Integers

CONSTANTS
  Size,          \* _end - _start
  Low,           \* LOW_TEST_ADR
  High,          \* high_test_adr
  LoadBases,     \* where the image may have been loaded
  Entries,       \* number of entries, those of DT_REL first, then DT_JMPREL
  Kind,          \* ELF32_R_TYPE(r_info)
  Value, Defined,     \* st_value of an entry's symbol; the entries whose symbol is in the image
  Offset,        \* r_offset
  Addend,        \* the word as linked
  Pointers,      \* d_ptr of DT_PLTGOT, DT_STRTAB, DT_SYMTAB, DT_REL, DT_JMPREL, as linked
  Settings,      \* values of the program's variables
  MaxMoves       \* bound: calls of run_at()

Bases == LoadBases \cup {Low, High}
Types == {"RELATIVE", "NONE", "GLOB_DAT", "JMP_SLOT", "32", "PC32"}

(* The condition of run_at() for an extra relocation *)
Overlap(start, addr) ==
  \/ start < addr /\ start + Size >= addr
  \/ addr < start /\ addr + Size >= start

ASSUME RelocationAssumption ==
  /\ Size \in Nat \ {0} /\ Low \in Nat \ {0} /\ High \in Nat
  /\ LoadBases \subseteq Nat \ {0}
  /\ Low + Size < High
  /\ \A b \in Bases : b # High => ~ Overlap(b, High)
  /\ Entries \in Nat /\ MaxMoves \in Nat
  /\ Kind \in [1 .. Entries -> Types]
  /\ Value \in [1 .. Entries -> Int] /\ Offset \in [1 .. Entries -> Int]
  /\ Addend \in [1 .. Entries -> Int]
  /\ Defined \subseteq 1 .. Entries
  /\ Pointers \in [DOMAIN Pointers -> Int]
  /\ 0 \in Settings

VARIABLES
  pc,
  base,          \* &_start of the running image
  mem,           \* what is at each base
  entry,         \* next entry of elf_dynamic_do_rel()
  llAddr,        \* map.ll_addr
  idtr,          \* the image whose vectors the processor uses
  moves,         \* calls of run_at()
  \* History, read by properties only:
  variables,     \* the variables as the program last set them
  target         \* where it was last told to go

vars == <<pc, base, mem, entry, llAddr, idtr, moves, variables, target>>

NoAddr == -1                 \* 0xffffffff of run_at_addr

Image ==
  [word : [1 .. Entries -> Int],         \* the relocated words
   dynamic : [DOMAIN Pointers -> Int],   \* d_ptr
   vectors : Int,                        \* idt
   zerobss : BOOLEAN,
   last : Int,                           \* last_load_address
   runAtAddr : Int,                      \* run_at_addr
   firsttime : BOOLEAN,                  \* firsttime = 0
   setting : Settings]                   \* the other variables

Running == mem[base]

-----------------------------------------------------------------------------
(* elf_machine_rel() for entry i, the symbol of which has base 0 if it is in   *)
(* no section                                                                  *)
BadMachineRel(i, word, ll, l) ==   \* the symbol's value is added on each move
  LET moved == IF i \in Defined THEN l - ll ELSE 0
  IN  CASE Kind[i] = "RELATIVE" -> word + l - ll
        [] Kind[i] = "NONE" -> word
        [] Kind[i] \in {"GLOB_DAT", "JMP_SLOT"} ->
             Value[i] + (IF i \in Defined THEN l ELSE 0)
        [] Kind[i] = "32" -> word + Value[i] + moved
        [] Kind[i] = "PC32" ->
             word + (IF ll = 0 THEN Value[i] - Offset[i] ELSE 0) + moved - (l - ll)
MachineRel(i, word, ll, l) ==
  LET moved == IF i \in Defined THEN l - ll ELSE 0
  IN  CASE Kind[i] = "RELATIVE" -> word + l - ll
        [] Kind[i] = "NONE" -> word
        [] Kind[i] \in {"GLOB_DAT", "JMP_SLOT"} ->
             Value[i] + (IF i \in Defined THEN l ELSE 0)
        [] Kind[i] = "32" -> word + (IF ll = 0 THEN Value[i] ELSE 0) + moved
        [] Kind[i] = "PC32" ->
             word + (IF ll = 0 THEN Value[i] - Offset[i] ELSE 0) + moved - (l - ll)

-----------------------------------------------------------------------------
(* What memory holds that is no image of the program: nothing is read from it  *)
Junk ==
  [word |-> [i \in 1 .. Entries |-> NoAddr],
   dynamic |-> [d \in DOMAIN Pointers |-> NoAddr], vectors |-> NoAddr,
   zerobss |-> FALSE, last |-> NoAddr, runAtAddr |-> NoAddr,
   firsttime |-> FALSE, setting |-> 0]

(* The boot loader leaves the image as the linker made it, with anything in    *)
(* BSS, which is not part of the file.                                         *)
Linked ==
  [Junk EXCEPT !.word = Addend, !.dynamic = Pointers, !.zerobss = TRUE]

Init ==
  /\ pc = "startup"
  /\ base \in LoadBases
  /\ mem = [b \in Bases |-> IF b = base THEN Linked ELSE Junk]
  /\ entry = 1 /\ llAddr = 0 /\ moves = 0
  /\ idtr = NoAddr           \* still the boot loader's
  /\ variables = 0
  /\ target = Low

ZeroBss(image) ==
  IF image.zerobss
  THEN [image EXCEPT !.zerobss = FALSE, !.last = 0, !.firsttime = TRUE, !.setting = 0]
  ELSE image

SetVectors(image) == [image EXCEPT !.vectors = base]

Startup ==
  /\ pc = "startup"
  /\ mem' = [mem EXCEPT ![base] = SetVectors(ZeroBss(@))]
  /\ idtr' = base
  /\ pc' = "dl_start"
  /\ UNCHANGED <<base, entry, llAddr, moves, variables, target>>

GetDynamicInfo(dynamic, by) == [d \in DOMAIN Pointers |-> dynamic[d] + by]

(* _dl_start() up to the relocations, with elf_get_dynamic_info() *)
BadDlStart ==   \* last_load_address is set before it is read
  /\ pc = "dl_start"
  /\ llAddr' = base
  /\ mem' = [mem EXCEPT
       ![base].last = base,
       ![base].dynamic = GetDynamicInfo(@, base - Running.last)]
  /\ entry' = 1
  /\ pc' = "relocate"
  /\ UNCHANGED <<base, idtr, moves, variables, target>>
DlStart ==
  /\ pc = "dl_start"
  /\ llAddr' = Running.last
  /\ mem' = [mem EXCEPT
       ![base].last = base,
       ![base].dynamic = GetDynamicInfo(@, base - Running.last)]
  /\ entry' = 1
  /\ pc' = "relocate"
  /\ UNCHANGED <<base, idtr, moves, variables, target>>

(* elf_dynamic_do_rel(): one entry *)
DoRel ==
  /\ pc = "relocate" /\ entry <= Entries
  /\ mem' = [mem EXCEPT ![base].word[entry] = MachineRel(entry, @, llAddr, base)]
  /\ entry' = entry + 1
  /\ UNCHANGED <<pc, base, llAddr, idtr, moves, variables, target>>

DlDone ==
  /\ pc = "relocate" /\ entry > Entries
  /\ pc' = "do_test"
  /\ UNCHANGED <<base, mem, entry, llAddr, idtr, moves, variables, target>>

(* __run_at(): image, which is the running one, is copied to addr and started. *)
(* If the two overlap the code that copies is overwritten.                     *)
CopyAndRun(addr, image) ==
  /\ mem' = [b \in Bases |-> IF b = addr THEN image
                             ELSE IF Overlap(b, addr) THEN Junk
                             ELSE IF b = base THEN image ELSE mem[b]]
  /\ base' = addr
  /\ pc' = IF Overlap(base, addr) THEN "lost" ELSE "startup"
  /\ UNCHANGED <<entry, llAddr, idtr>>

RunAt(addr, image) ==
  LET hop == IF Overlap(base, addr) /\ addr + Size < High THEN High ELSE addr
  IN  CopyAndRun(hop, [image EXCEPT !.runAtAddr = addr])

(* restart() *)
Restart ==
  /\ RunAt(Low, [Running EXCEPT !.firsttime = TRUE, !.setting = 0])
  /\ variables' = 0 /\ target' = Low

(* do_test(): a partial relocation is finished first ... *)
BadFinishMove ==   \* also when the program is where it was sent
  /\ pc = "do_test"
  /\ Running.runAtAddr # NoAddr
  /\ CopyAndRun(Running.runAtAddr, Running)
  /\ UNCHANGED <<moves, variables, target>>
FinishMove ==
  /\ pc = "do_test"
  /\ Running.runAtAddr \notin {NoAddr, base}
  /\ CopyAndRun(Running.runAtAddr, Running)
  /\ UNCHANGED <<moves, variables, target>>

(* ... and a program that just started goes to LOW_TEST_ADR ... *)
GoHome ==
  /\ pc = "do_test"
  /\ Running.runAtAddr \in {NoAddr, base}
  /\ Running.firsttime /\ base # Low
  /\ Restart
  /\ UNCHANGED moves

(* ... and is initialised there; otherwise the tests go on. *)
BadGoOn ==   \* run_at_addr is not reset
  /\ pc = "do_test"
  /\ Running.runAtAddr \in {NoAddr, base}
  /\ ~ (Running.firsttime /\ base # Low)
  /\ mem' = [mem EXCEPT ![base] = [@ EXCEPT !.firsttime = FALSE]]
  /\ pc' = "run"
  /\ UNCHANGED <<base, entry, llAddr, idtr, moves, variables, target>>
GoOn ==
  /\ pc = "do_test"
  /\ Running.runAtAddr \in {NoAddr, base}
  /\ ~ (Running.firsttime /\ base # Low)
  /\ mem' = [mem EXCEPT ![base] =
               [@ EXCEPT !.runAtAddr = NoAddr, !.firsttime = FALSE]]
  /\ pc' = "run"
  /\ UNCHANGED <<base, entry, llAddr, idtr, moves, variables, target>>

-----------------------------------------------------------------------------
(* The program at work: it sets its variables, and the tests overwrite all of  *)
(* memory but the image (what the driver sees to).                             *)
Work ==
  /\ pc = "run"
  /\ \E s \in Settings :
       /\ mem' = [b \in Bases |-> IF b = base THEN [mem[b] EXCEPT !.setting = s]
                                  ELSE Junk]
       /\ variables' = s
  /\ UNCHANGED <<pc, base, entry, llAddr, idtr, moves, target>>

(* The driver changes windows, ends a test or is restarted from the menu. *)
Move ==
  /\ pc = "run" /\ moves < MaxMoves
  /\ moves' = moves + 1
  /\ \/ \E addr \in {Low, High} :
          RunAt(addr, Running) /\ target' = addr /\ UNCHANGED variables
     \/ Restart

Program == \/ Startup \/ DlStart \/ DoRel \/ DlDone
           \/ FinishMove \/ GoHome \/ GoOn

Next == Program \/ Work \/ Move

(* The processor does not stop in the middle of a move; whether there is       *)
(* another one is for the tests and the operator.                              *)
Spec == Init /\ [][Next]_vars /\ WF_vars(Program)

-----------------------------------------------------------------------------
(* What the i386 ABI has in the word of entry i when the image is at b; 0 is   *)
(* for the word as linked.                                                     *)
Resolved(i, b) ==
  LET S == Value[i] + (IF i \in Defined THEN b ELSE 0)
  IN  IF b = 0 \/ Kind[i] = "NONE" THEN Addend[i]
      ELSE CASE Kind[i] = "RELATIVE" -> b + Addend[i]
             [] Kind[i] \in {"GLOB_DAT", "JMP_SLOT"} -> S
             [] Kind[i] = "32" -> S + Addend[i]
             [] Kind[i] = "PC32" -> S + Addend[i] - (b + Offset[i])

TypeOK ==
  /\ pc \in {"startup", "dl_start", "relocate", "do_test", "run", "lost"}
  /\ base \in Bases
  /\ mem \in [Bases -> Image]
  /\ entry \in 1 .. Entries + 1
  /\ llAddr \in Int /\ idtr \in Int
  /\ moves \in Nat
  /\ variables \in Settings
  /\ target \in {Low, High}

(* Wherever the program runs, however often it moved and whatever the tests    *)
(* did to the copies it left behind, each word the linker made an entry for is *)
(* what the ABI wants at this address: moving an image that was relocated      *)
(* already loses nothing (reloc.c:65-120, last_load_address).                  *)
WordsResolved ==
  pc \in {"do_test", "run"} =>
    \A i \in 1 .. Entries : Running.word[i] = Resolved(i, base)

(* The dynamic section is moved before the relocation entries and the symbols  *)
(* are read through it, and on each move (reloc.c:124-179).                    *)
PointersResolved ==
  pc \in {"relocate", "do_test", "run"} =>
    \A d \in DOMAIN Pointers : Running.dynamic[d] = Pointers[d] + base

(* Moving keeps the variables: BSS is cleared before the program first runs    *)
(* and never again (head.S:90-101).                                            *)
VariablesKept == pc = "run" => Running.setting = variables

(* The copy never overwrites the code that copies: an overlapping move goes by *)
(* way of high_test_adr and is finished from there (main.c:119-139, 189-194),  *)
(* and the program ends up where it was sent, ready for the next move.         *)
NeverLost == pc # "lost"
AtTarget == pc = "run" => base = target /\ Running.runAtAddr = NoAddr

(* While it runs, exceptions and parity errors are handled by the running      *)
(* copy, never by one the tests have overwritten (head.S:119-287).             *)
VectorsRight == pc = "run" => idtr = base /\ Running.vectors = base

(* A move comes to its end. *)
MoveEnds == (pc = "startup") ~> (pc = "run")

-----------------------------------------------------------------------------
(* Why these hold.  The address an image was last relocated for, 0 for one     *)
(* that never was, goes with the image.                                        *)
LastAddr == IF Running.zerobss THEN 0 ELSE Running.last

(* In the middle of the relocations the words before entry are done.           *)
AdjustedTo(i) ==
  IF pc = "relocate" THEN IF i < entry THEN base ELSE llAddr ELSE LastAddr

WordsAdjusted == \A i \in 1 .. Entries : Running.word[i] = Resolved(i, AdjustedTo(i))
PointersAdjusted == \A d \in DOMAIN Pointers : Running.dynamic[d] = Pointers[d] + LastAddr

Started ==
  /\ pc # "startup" => ~ Running.zerobss /\ idtr = base /\ Running.vectors = base
  /\ pc \in {"relocate", "do_test", "run"} => Running.last = base

VariablesMove ==
  IF Running.zerobss THEN variables = 0 ELSE Running.setting = variables

(* Where the image is going: home the first time, else to run_at_addr, on      *)
(* the way to which it is at high_test_adr at most.                            *)
OnItsWay ==
  /\ Running.zerobss \/ Running.firsttime => target = Low
  /\ IF pc = "run"
     THEN base = target /\ Running.runAtAddr = NoAddr /\ ~ Running.firsttime
     ELSE \/ /\ Running.runAtAddr = NoAddr
             /\ Running.zerobss \/ Running.firsttime
          \/ Running.runAtAddr = target /\ base \in {target, High}

(* The inductive invariant.                                                    *)
IInv ==
  /\ TypeOK /\ NeverLost
  /\ WordsAdjusted /\ PointersAdjusted
  /\ Started /\ VariablesMove /\ OnItsWay
=============================================================================
