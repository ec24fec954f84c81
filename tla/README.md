# safari-memtest: specifications, model checking and proofs

The repository is a fork of Memtest86+ 4.20 (`src/edwardMemtest`) whose error
report lists runs of failing addresses with a fixed stride, and a few Java
programs that read its logs. Memtest86+ is a single-threaded program without an
operating system. What makes it hard is that it tests the memory it lives in: it
copies itself about, looks at memory in windows of 2GB, and lets the operator
change limits and tests from a menu that is polled in the middle of a test.

## The system

| Component | State | Operations | Talks to |
|---|---|---|---|
| Driver (`main.c`) | `window`, `v->map`, `segs`, `bail`, `v->test`, `v->pass`, `run_at_addr`, `high_test_adr`, `firsttime` | `do_test`, `run_at`, `restart`, `compute_segments`, `find_ticks_for_*` | calls the test algorithms; is changed by the menu |
| Menu (`config.c`) | `v->testsel`, `v->plim_lower/upper`, `memsz_mode`, print mode | `get_config`, `adj_mem`, pop-ups | reached from `check_input()`, that is from every tick of a test, and from the end of a pass; calls `find_ticks_for_pass`, `restart` |
| Page mapping (`init.c`) | `mapped_window`, page tables | `map_page`, `mapping`, `emapping`, `page_of`, `paging_off` | called by the driver and by error reports |
| Memory map (`memsize.c`, `linuxbios.c`) | `e820[]`, `v->pmap`, `v->msegs`, page counts | `query_linuxbios`, `mem_size`, `sanitize_e820_map`, `memsize_*`, `sort_pmap` | called by `init()`; gives the driver its map |
| Test algorithms (`test.c`, `random.c`) | memory under test, `p`, `p1`, `p2` | `addr_tst*`, `movinv*`, `modtst`, `block_move`, `bit_fade` | walk over `v->map`; call `error()` and `do_tick()` |
| Error log (`error.c`, `dmi.c`) | `v->ecount`, `v->erri`, `v->err_range`, error counts per slot | `common_err`, `update_err_ranges`, `print_ecc_err` | called by tests and ECC polling; calls BadRAM patterns and the console |
| BadRAM patterns (`patn.c`) | `v->patn`, `v->numpatn` | `insertaddress`, `relocateiffree` | called by the error log |
| Console (`lib.c`, `screen_buffer.c`, pop-ups of `config.c`) | screen, buffer, scroll lock, message line | `cprint`, `scroll`, `popup`/`popdown`, `getval`, `check_input` | called by everybody |
| ECC polling (`controller.c`, `pci.c`) | controller registers, `ctrl` | `find_controller`, `poll_errors`, `set_ecc_polling` | called by `do_tick()`; calls `print_ecc_err` |
| Boot and relocation (`bootsect.S`, `setup.S`, `head.S`, `reloc.c`) | image, GOT, relocation entries | `_dl_start` | runs at each start of a copy of the program |
| CPU and SPD identification (`cpuid.c`, `init.c`, `spd.c`) | identification strings, cache sizes, speeds | `cpu_type`, `cpuspeed`, `show_spd` | display only |
| Log readers (`src/logparse`, `src/QuickSummary`, `src/tabler-prototype`) | tables in memory | parse a log, print a table | read what the serial console printed |
| Multiprocessor code (`smp.c`), extra menu (`extra.c`) | spin locks, barriers; chipset timings | - | not linked by the Makefile |

### What is hard about each part, and what makes it correct

- **Driver and menu.** One thread, but a preemptive one in effect: every tick of
  a test polls the keyboard, and the menu that it may open changes the limits,
  the test and even the list of segments under the loop that walks over them.
  The program jumps between a low and a high copy of itself, with a third place
  on the way if they overlap. Correct: a test never reaches the running copy;
  it touches selected pages only; when it has been in all windows no selected
  page is left out; the copy that runs is the one the window needs; the test
  number is one of the table; every pass ends.
- **Memory map.** Sweeps over overlapping entries in any order, rounding to pages,
  a hole that must not be used, arrays with fixed bounds. Correct: each address
  keeps its largest type; only usable pages are listed and all of them are; where
  memory is probed, no page is seen twice and none is written that the program is
  in; the page counts on the screen are those of the listed pages.
- **BadRAM patterns.** Ten adr/mask pairs, merged and moved in place by a recursion
  that reads indices before it moves what they point at. Correct: what was
  captured stays captured; a full array has a pattern to extend; the recursion ends.
- **Error log.** One function for four kinds of errors that pass different things in
  the same arguments; a summary updated case by case; runs of addresses that
  compete for each new error. Correct: the runs name reported addresses, all of
  them, and none twice; lowest and highest address are the lowest and highest;
  a slot is blamed for its own errors only.
- **Test algorithms.** Loops in chunks over segments that may end where the address
  space does, with hand-written assembly inside. Correct: each word is written
  and checked, in the order the algorithm needs, whatever the chunking.
- **Console.** A scroll lock that is waited for inside a report, nested pop-ups that
  save the screen, numbers typed key by key. Correct: nothing waits for ever, the
  screen comes back, a number is what was typed.
- **ECC polling.** Registers read and cleared one after the other while errors go on.
  Correct: an error is reported once if the hardware allows it.
- **Relocation.** Each copy relocates itself by the difference to where it ran last,
  and the image that is copied is the running one, variables and all. Correct:
  every word and pointer fits the address it runs at, whatever the sequence of
  moves; no copy destroys the code that copies; a move ends where it was to.
- **Log readers.** State carried from line to line and file to file.

## The modules

| Module | What it is | Code |
|---|---|---|
| `TestDriver` | driver, page mapping, and the menu as far as it changes what the driver does | `main.c`, `init.c:245-373`, `config.c` |
| `Relocation` | the moves of the image, as `run_at()` and `_dl_start()` do them | `reloc.c`, `main.c:118-149`, `head.S`, `elf.h` |
| `MemTests` | the test algorithms and the calls that make up a test | `test.c`, `main.c:308-436`, `main.c:565-617` |
| `FaultyMemory` | memory with at most one fault, under `MemTests` and `March` | (hardware) |
| `March` | abstract specification: a test is a program of sweeps over words | implemented by `MemTests` |
| `ErrorLog` | error log, SMBIOS table and slots | `error.c`, `dmi.c:119-309` |
| `BadRam` | patterns | `patn.c` |
| `EccPoll` | controller table, setup and poll functions | `controller.c`, `pci.c` |
| `MemMap` | firmware table, probing, memory map, limits and page counts | `memsize.c`, `linuxbios.c`, `config.c:547-588` |
| `Console` | command line, keys, menus, pop-ups, scroll region, serial terminal | `lib.c`, `config.c`, `screen_buffer.c`, `main.c:140-200` |
| `TestDriver_proofs`, `MemTests_proofs`, `MemMap_proofs`, `BadRam_proofs`, `Relocation_proofs`, `ErrorLog_proofs`, `EccPoll_proofs`, `Console_proofs` | theorems | |
| `MemTestsInvariants` | the inductive invariants of `MemTests_proofs` | |
| `MC...` | the small instances of each for TLC | |

How they fit together: `TestDriver` has a test as a set of segments gone over, and
a move of the program as one step; `MemTests` and `Relocation` are what is inside
these two. A report is an input of `ErrorLog`; the tests and the polls that make
reports are `MemTests` and `EccPoll`, the waiting inside a report is `Console`, and
the addresses it hands on are the inputs of `BadRam`. The map that `MemMap` ends
with is `PMaps` of `TestDriver`. The menu is in four models, each with what its
entries do to that component. The product of the models is not explored: they
meet at calls, and what is passed in a call is in each model any value that the
other side can pass.

An operator `BadX` next to `X` is `X` with a plausible mistake in it. It is not
part of the model: putting it in the place of `X` makes TLC refute the property
that `PROJECT.json` pairs it with.

### TestDriver

*State.* `pc` is where the program is: `do_test`, `window` (past the jumps),
`test` (inside a test algorithm), `next_window`, `skip_window`, `menu`, and
`lost`, after it has overwritten itself. `at` is the address of the running copy
and `runAt` is `run_at_addr`. `map` is `v->map`: a function from the index of the
`pmap` entry to the segment cut out of it. `swept`, `touched` and `recomputed`
are history: the segments the test has been over, the physical pages it touched,
and how often the menu computed the segments anew during this test.

*Units.* Memory is counted in pages; the image takes `CodePages` whole pages and,
if `CodeTail` is 1, a part of one more. `windows[0].start` and `windows[1].end`,
which the code patches in at run time, are the operators `Win0Start` and `highAdr`.

*Actions.* One for each way through `do_test()`, `run_at()`, `restart()` and each
entry of the menu. Some choices that need explaining:
- Tests sweep upwards and downwards, so the order of the segments is left open.
- A tick is any moment at which a segment has been gone over. A menu opened by an
  error report (`scroll()`) is the same as one at a tick.
- `v->pass` saturates at `MaxPass`; `MinTest` bounds how far `v->test--` goes.
- Display, progress, print modes and the tick estimates are left out. They do not
  influence the driver, except through `find_ticks_for_pass()`, whose side effect
  on `v->map` and `window` is modelled.
- `restart()` leaves paging, `high_test_adr` and the error ranges as they are, and
  so does the model; the memory map after `init()` is any of `PMaps`.
- The `else if` branch of `run_at()` and the `if (bail)` after `skip_window` cannot
  be reached and are not modelled.

### BadRam

A word is the set of its 1 bits, which makes `combine()` three set operations and
`addresses()` a cardinality. The tail call of `relocateiffree()` is a step of its
own. `idx` keeps the argument of the call, which is not always below `numpatn`;
what lies beyond `numpatn` stays in the array, as in the code. `insertaddress()`
is given the virtual address of an error (`error.c:270`). `slipped` is history:
some pattern was merged with itself or with the last one.

### MemMap

Each loop of `memsize.c` is a value of `pc` and each turn of it a step; `at` is its
index. The bubble sort of the change points is replaced by taking the least of
those left, in the order the sort would give them (`Precedes`, a stable order). The
overlap list is a set. `pmap` has an element at -1, which the code can reach.
A negative number of pages stands for the unsigned number it wraps to. `full` and
`moved` are history.

What the firmware left is any of `Machines`: a BIOS table, and in memory a list of
linuxbios tables, good or bad, of which `query_linuxbios()` takes the first that its
checks accept (`Accepted`, `FindTable`) or the one that forwards to. A record is its tag and
its size; the checksums are whether they are right.

`memsize_probe()` has three loops: the search for the end of what is decoded (`wrap`),
the walk over memory (`probe`) and the search for the end of a gap (`gap`). `ram` is what
the machine has and `decode` how much of an address is looked at, so that an address behind
it is one of the first again. The hole is not special to the hardware; the program skips
it. `check_ram()` is an oracle here: what it writes is in memory that is tested later.
The code does not bound the number of segments; `at < E820Max` in `Close` does.

### ErrorLog

A report is one call of `common_err()`, with the test number and the window that
the driver had at the time, which are inputs here. It is one step, except in the
individual-errors mode, where the menu can be opened in the middle
(`check_input()`, `scroll()`): `pc` is `reporting` from there on, and a `Restart` in
between leaves the report unfinished. `low_po` and `high_po` are written and never
read, and are left out. Types keep the meaning they have in the summary: 0 data,
1 address, 2 ECC, 3 parity. The addresses handed to `insertaddress()` are collected
in `patnFaults`; what becomes of them is `BadRam`. The devices and mappings of the SMBIOS table are
those of the structures that the walk of `open_dmi()` looks at, which is one more than the
table says there are.

### MemTests, March and FaultyMemory

*State.* `calls`, `loops` and `j` are where the test is: the calls that are left, the
loops of the present one, and the segment. `p` and `pe` are the pointers of the
code, `start` and `end` the bounds of the segment; addresses are words and wrap at
`Space`, as the code's do at 2^32. `pat`, `k` and `mask` are the variables of the walk
that carry over from chunk to chunk (`movinv32`'s pattern, shift and low bit,
`modtst`'s counter). `nticks` counts ticks. `seen`, `sweep` and `reported` are history.

*Steps.* A chunk of `Spin` words is one step for each word (the words are what a
fault and a bail-out tell apart), then a tick, at which the test may be told to stop:
`bail` is then looked at where the code looks at it. The assembly is translated by
what its loop does, direction and first and last word included. A word is the
set of its 1 bits, so that a rotation is an addition and a complement is a set
difference; the address a word holds in test 1 is a set of its own.

*Segments.* `SegmentAssumption` and `BlocksAssumption` are what `mapping()`, `emapping()` and
the fix-ups of the first segment make sure of: a segment is whole pages less 64 words
at the end, and perhaps 320 at the start, so that also the last chunk of a segment is longer than a
step of `modtst()` (20 words) and than a block of `block_move()` (16 words), and 32 patterns fit a
whole number of times. What `block_move()` leaves out at the start, the words below 0x500, is less than any
chunk. Nothing is assumed of where a segment starts: `roundup()`
of `addr_tst1()` wraps around as it does in the code, and `Astray` says when (see below).

*Trials.* What is run, and on what: the memory map, the pattern, the number of
iterations and the fault. The driver's halving of the iterations in the first
pass is the choice of the iterations.

*March.* What a test promises, without chunks, pointers and segments: each sweep
goes over a set of words in the order of their addresses, up or down, reads each word if it
has something to expect and then writes it.
`MemTests` has in `Planned` what each test of the table should do, in the notation for
march tests, with each value as a function of the place of the word in its segment;
`ImplementsMarch` says that the loops do exactly that, word by word and in this order, reports
included, whatever was in memory at first. `seen`, the words that the current loop has been at,
and `sweep`, the number of loops so far, are history variables for it. The
block moves, the address line test and bit fade are not of this form and are
mapped to the empty program.

*Faults.* Stuck bits, coupled words, two words that are one cell, a dead address line,
bits that fade. `MadeFor` says which patterns are for which, but for dead lines, which `LinesFound`
is about: whether they can be found depends on where there is memory. `FaultsAssumption` says that a fault is one (a bit of the word, two
different words) and that the iterations of the patterns 0 to 2 are not none, which
holds for half of any of those in `tseq[]` (`main.c:19-28`, `main.c:290`).

### EccPoll

The registers belong to the hardware. A status bit, one for corrected and one for
uncorrected errors, is set by an error if it is clear and stays set; instead of
TRUE it holds the number of that error, 0 if clear, so that a report can be compared
with what really happened. `todo` is what is left of the `poll_` function that is under
way, an access at a time, and `LogError` may come in between any two. `controllers` is
the table of `controller.c:3426-3578` reduced to the shapes of its rows; `find_controller`
sets up the row that PCI configuration space names. Mode, capabilities and the
menu entry that switches polling are modelled; clocks and timings are not.

### Relocation

An image is its relocated words, the pointers of its dynamic section, the address its
vectors point to and its variables; `mem` maps each address the program was copied
to to what is there. `CopyAndRun` makes a copy, and makes `Junk` of what it
overwrites. `_dl_start()` is one step per relocation entry, so that the pointers it
goes by are those of the moment. `Resolved(i, b)` is what the ABI asks of word `i` at
base `b`; the code never computes it, since it only adds the distance of the move.

### Console

The program polls for keys from many places and is entered again from there.
`stack` holds the calls in progress, innermost last: the tests, a report that waits
for the scroll lock, a menu, a page, a number prompt, a wait for a key to be let go.
`Next` is a step of whatever is on top, or the operator giving a key. The screen is the
rows of the scroll region; `screen_buf`, the terminal of a serial line, and the two
buffers in which pop-ups save what they cover are functions on them. A key may be
pressed and let go on a keyboard and only pressed on a serial line. `getval()` is one
step per key. A session is a set of keys the operator uses and how many. The console is
set up from the `console=` parameters in the order of the command line; `CommandLines` are
some with parameters that are understood and some that are not. `ser_map` is
a relation between characters and keys, reduced to the keys that are asked for; a character
in two rows is the key of the first.

## The runs

| Run | Checks | Instance | Distinct states |
|---|---|---|---|
| `limits` | `ImageSpared`, `TestsOnlySelected`, `EveryPageTested`, `CopyFitsWindow`, `BiosAreaSpared`, `PassesRecur` | PAE, four windows, memory in three blocks, limits changed at any moment | 157,480 |
| `nopae` | `IInv` (with `ImageSpared` and `CopyFitsWindow` in it), `EveryPageTested` | no PAE, three machines, tests selected by number, tests of two sweeps | 563,979 |
| `overwrite` | `NeverOverwritten` is violated | as `limits` | |
| `patterns` | `CapturedUnlessSlipped`, `NothingUncovered`, `RelocationEnds` | three patterns | 31,074 |
| `memmap` | `Sanitized`, `OnlyRamListed`, `RamListed`, `PagesCounted` | 4,650 tables from either firmware, 24 sets of linuxbios tables, 384 memories to probe; limits 0, two between and the largest page | 6,720,544 |
| `errors_runs` | `NothingInvented`, `NothingForgotten`, `NothingCountedTwice` | six reports, three runs | 320,948 |
| `errors_modes` | `LowestIsLowest` | three reports of all kinds, all modes | 721,910 |
| `tests` | `NoFalseAlarm`, `FaultsFound`, `LinesFound`, `TicksAsExpected`, `OnlySegmentsWritten`, `ImplementsMarch`, `Ends` | all patterns, two segments, every kind of fault | 257,268 |
| `ecc_polls` | `NothingInvented`, `RightLocation`, `NoLeftOver`, `OnlySeenCleared`, `Recovers` | every row of the table, three errors | 91,702 |
| `ecc_multibit` | `MultibitUncorrected` is violated | two errors | |
| `reloc` | `IInv`, `WordsResolved`, `AtTarget`, `MoveEnds` | four load addresses, up to four moves, eight entries | 1,340 |
| `console` | `PopupRestores`, `TerminalAsBuffered`, `EnteredAsTyped`, `AllOrNothing`, `Answered` | keyboard and serial line, four sessions | 786,477 |

### Bounds, and why they are enough

*Driver.* The scaled-down machine has an image of one page and a bit, "640K" at page
4, "1M" at 5, a high copy at 6 or 8, and "2GB" at 12. Every relation between
these that a guard asks about occurs: an image that ends inside a page, a small and
a big machine, blocks of memory that begin, end and lie across a window boundary,
windows without memory, a machine too small for the high copy. The limits the
operator types are below, in, between and above the segments, and the largest page
number. Three kinds of test number are enough, since the driver knows only the
last test (a different loop), the bit fade test (window 0 only) and the others. The
pass counter plays no role in any guard.

*BadRam.* With three patterns a pattern can be merged into one before it, after it
and into the last, and the array can be full. The words are a few bits wide; at
this width costs are small, and some runs of the recursion that need masks of at
most one bit are more frequent than with 32 bits. The theorems hold for any width.

*MemMap.* A page of two units, a hole of two pages, and entries that begin and end
before, in, at the ends of and behind it, aligned and not; two entries of all these
or three of some, since the sweep treats any overlap as pairs do; three places
in the table, and tables that need five. One entry wraps around the address space and
one is empty. `Decoded`, `PageSize >= 2` and `Step <= ResEnd - ResStart` of `MapAssumption` are
what the addresses of the code satisfy: the size of what is decoded is RES_END or a
power of 2 above it, a page is 4096 bytes, and the probes are 16K apart with a
hole of 384K. Memory to be probed comes in seven blocks, each there or not, which
makes gaps that are shorter than `GapSteps` probes, as long and longer, on both sides of the hole.
`Ulong` is 2^32 in the code; the run has 32, more than all pages, and takes as limits page 0, two
pages inside the memory and the largest page, 31. The menu compares limits without a sign
(`config.c:163`, `config.c:183`): 0 is taken as the upper limit and 31 as the lower one whatever the
other is, so that every order of the limits occurs, crossed ones too.

*ErrorLog.* Six reports fill three runs and overflow them; a run competes with
another from the fourth report on. Three reports are enough for every pair of
branches of the summary. Eight words in four pages, the upper half seen through
window 1 or 2; the third slot lies above the 32-bit addresses.

*MemTests.* An address space of 96 words, chunks of 16, words of 4 bits: a segment
shorter than a chunk, one longer, one that ends in the last words of the address
space (where the pointers wrap), and for the block moves, which have an alignment
of their own, two that are whole blocks. Faults sit in the first and the last word
of segments and chunks, where a loop that is off by one misses them; coupled
words are in both orders and in different segments. One trial has a segment that
starts in the last bank. Two iterations, since what
the first leaves is what the second begins with.

*EccPoll.* Three errors: one that is being read, one that comes in between, and one
after. Both kinds in each place.

*Relocation.* The image (4) is loaded below `LOW_TEST_ADR` (5) and overlapping it (2),
at it (5), above and overlapping (8), and clear of it (12). `high_test_adr` (20) is clear
of all of them. Eight entries: one of each type, defined symbols and not. Four
moves are there and back twice, by way of a third place or not.

*Console.* Three rows: one that scrolls away, one in the middle, and the last one, which
is not sent to the terminal. Seven keys open three levels of menus or make a number
of three characters with a correction. One line more is printed than there are
rows.

### Fairness

`TestDriver` assumes weak fairness of the program's own steps (a processor does not
stop) and of leaving the menu (without it nothing continues: the program waits at
the end of each pass, `main.c:489`). `PassesRecur` further assumes that the operator
opens the menu and reboots finitely often, and that the program has not
overwritten itself. `BadRam`, `MemTests` and `Relocation` assume weak fairness of the
program's steps and nothing else. `EccPoll` has the same: while a test runs there is
always another tick. `Console` has it too, and weak fairness of an operator who is
asked: who has opened a menu gives another key in the end. Without this `Answered`
would be false, since all these waits are for keys.

## What is proved

*Driver* (`TestDriver_proofs`): `TypeCorrect`, `CopyIsRight` (`Spec => []CopyFitsWindow`) and
`ProgramSpared` (`Spec => []ImageSpared`), for every image size, window layout,
memory map and input that satisfies the named assumptions of the module: sizes
are natural numbers, the low copy lies below the high ones, the high copy ends
within the first 2GB, there are at least three windows, and a memory map has at
least one entry.

`ImageSpared` is not inductive. Whether a test reaches the image depends on where
the image is, which depends on a jump that was decided on in another window.
`IInv == TypeOK /\ Settled /\ CopyFitsWindow /\ ImageSpared` is: `Settled` says that
between the jumps `run_at_addr`, `firsttime`, `at` and `window` agree, at
`do_test` that the jump under way is the right one, and that a menu at the end of a
pass has `window = 0`. The proof goes action by action; the arithmetic of windows
and segments is in lemmas about `Segments`, `FirstSeg` and `FromLowerLimit`. The run
`nopae` checks `IInv` itself.

*Coverage of the tests* (`TestDriver_proofs`, too): `OnlySelectedTested`
(`Spec => []TestsOnlySelected`), `NoPageForgotten` (`Spec => []EveryPageTested`) and, for memory
maps in ascending order, `BiosSpared` (`Spec => []BiosAreaSpared`), under the same
assumptions. A page is seen at another address than its own above 2GB, so that
both bounds rest on the window that is mapped in being the one under test
(`Fits`, `OneBlock`), and on the arithmetic of `mapping()` and `page_of()` in `InBlock`
and `RangePages`. `EveryPageTested` speaks of the last window only; `CoverInv` says for every
place in the loop up to which window the pages are touched, and for the middle
of a test that its segments have all of the window and that those swept are
touched (`Progress`). Two things make it more than an induction over windows. The menu
may replace the segments in the middle of a test by those of the same window
and set the window to 0: the pages of window 0 are then either covered already or
those that the segments list (`SettingsCInv`). And the test number may change between
windows, when a test that was selected by number begins after windows without
memory: `Exempt` is what a test number that promises nothing has to satisfy so
that it stays one. `BiosSpared` needs the order, since only the first segment is
marked.

*Patterns* (`BadRam_proofs`): `TypeCorrect`, `FaultsCaptured`
(`Spec => []CapturedUnlessSlipped`) and `CoverageKept` (`Spec => NothingUncovered`), for
words of any width and any number of patterns. The invariant adds to these that no
mask has bits 0 and 1, and that the index of the recursion is in use as long as
nothing slipped. The first is what makes a full array work: costs are then even
and below 2^Width - 1, so the search cannot come back empty (`CombiCostBelowMax`,
`CheapestExists`). `FreeIsCaptured` shows that a cost of 0 means that the address is
captured, through the cardinalities of the masks.

*Relocation* (`Relocation_proofs`): `WordsAlwaysResolved`, `ArrivesAtTarget`,
`ProgramNeverLost`, `VariablesTravel`, `PointersAlwaysResolved`, `VectorsFollow`, for any
image, any list of relocation entries, any number of moves and any load
addresses at which the image does not overlap the copy at `high_test_adr`.
`_dl_start()` adjusts each word by the *difference* to the address it was adjusted to
before, so that a word is right only if it was right before the move. The invariant
therefore says what the words and pointers of the running copy are worth at each step of the
startup code: `IInv` is `TypeOK` with `NeverLost`, `WordsAdjusted` and
`PointersAdjusted`, `Started` (what the startup code has done so far), `VariablesMove` (the
variables are those of the copy it came from) and `OnItsWay` (where a move by way of
`high_test_adr` goes next). The run `reloc` checks `IInv` itself.

*Error log* (`ErrorLog_proofs`): `TypeCorrect`, `RunsAreReal` (`Spec => []NothingInvented`),
`RunsAreComplete` (`Spec => []NothingForgotten`) and `LowestIsRight`
(`Spec => []LowestIsLowest`), for words of any width, any number of runs and any
sequence of reports. A run is kept as a first address, a stride and a count;
`NothingInvented` is inductive because it also says that this leads to the last
address of the run. That holds where addresses wrap around as well: `ModOfSum` and
`StrideLeads` are the arithmetic, and `ExtendRight` shows that extending a run adds
the new address and no other. `CountedOnce` (`Spec => []NothingCountedTwice`) is about sums
over the runs. `CountsOK` carries along that the counts of the runs, and of the runs for each bit, are a total
(`IsTotal`) that is not more than the reports counted; `RunsChange` and `OneMore` show that a report makes at most one
run longer, by one, and `TotalStep` what that does to the total. The facts about sums themselves (`SumOf`, `SumSplits`,
`SumsAgree`) come from the recursive function under the fold of the community modules, by induction over the finite
sets of a domain; the induction is a fact about sets of sets (`Inductive`), by the pigeon-hole theorem of the library.

*ECC polling* (`EccPoll_proofs`): `SeenBeforeCleared` (`Spec => OnlySeenCleared`) and
`NothingFromBefore` (`Spec => []NoLeftOver`), for any number of errors that come at any
moment of a poll. Neither follows from the state between two polls: a poll function is a
list of steps, so what is still to be done has to be right for the registers as they
are at each step. `CarefulClears` and `FreshReads` say what holds of the lists of all poll
functions concerned: they clear only bits that were set, each once, and report nothing
before they have read a log. `SeenInvariant` carries the first along: the bits that
are left to clear still hold the error that was seen, since an error does not touch a bit
that is set. `NewInvariant` carries the second along: a log that a set bit or a step
that is left refers to holds the location of an error that came after the setup. It needs the
rule that the register is taken as long as a bit is set (`LogFree`), and it is where a setup
function that leaves the status alone would be caught (`ClearsOrFindsNone`).

`NoneInvented` (`Spec => []NothingInvented`) and `LocationsRight` (`Spec => []RightLocation`)
are about the reports. That no more are made than errors were logged is proved by naming
for each report the error it stands for: `Books` has a sequence `tok` of errors, as long as
the reports, of their kinds and without repetition (`Matches`), which is an injection
(`Invented`). The error is the one that held the bit when the status was read, also where
the one location register holds that of another. Two things keep it going: a bit whose
error has been reported is one that the poll is still going to clear, and what is
left to report was seen and is not in `tok` yet (`Due`); so an error that comes between two accesses is
reported by the next poll or not at all. `AccountsFor` says what this asks of the lists of steps, a
clearing behind every report, and `CountedPolls` that all poll functions but those of the AMD
76x and the i440GX have it. The i440GX, which may clear the wrong register
(`Misses`), is right for another reason: it clears the location after the report
(`GxOnce`). Where there are two location registers the report gives the error itself:
`LocatedOnce` adds that a register about to be read holds an error that was not reported
(`Fetchable`), and that the location in hand is of the kind that the next report says
(`Located`).

*Memory map* (`MemMap_proofs`): `Invariant` (`Spec => []Inv`), `TableSanitized`
(`Spec => []Sanitized`), `OnlyRamTested` (`Spec => []OnlyRamListed`) and `AllRamListed`
(`Spec => []RamListed`), for any table, any memory, any hole of whole pages and any number of places in the table. The table that
the sweep is making says nothing false at any turn: the proof rests on `SweepInv`,
which has a part for a sweep that goes on (`Going`) and one for a sweep that ran out of room
(`Stopped`). While it goes on, the entries it is inside of are those that began at a point it has passed
and did not end (`overlap`), the type since `lastAddr` is the largest of them, and every address
before the point it is at has its type in `nm` or, since `lastAddr`, in `lastType`
(`KeptIn`). That the points left are all behind it needs the order of the points, with the
starts before the ends at the same address. This is where an empty entry breaks it:
both its points are starts, so that it never ends. `SegmentsFit` says
from then on of each segment, whoever makes it, that its pages are fit to be tested; `sort_pmap()`
shifts segments about, loses and doubles some, but makes no new ones.
For the probes, `ProbeInv` has the grid of the addresses probed, on both sides of the
hole, the open segment with all its probes seen, and that nothing at or above what is decoded
is ever looked at: two pages below that cannot be the same memory. It needs that the search for the
end doubles from RES_END on and that memory there is a power of 2 times as large.

That no usable page is lost needs an invariant of its own, `RamInv`, which TLC has checked on
the run `memmap`. A page that lies in two entries of one type is in neither, so `Unsplit` says that
no entry of the sanitized table begins where the address before has its type: at a start the type can only
grow, and at an end that changes it the entry that ends was the largest (`ChangeFresh`).
Then a usable page lies in one entry (`InOneEntry`), and `Turned` says that the loop has listed the
pages of the entries it is past. Where memory is probed, `SoughtFound` says that every page whose probe is
behind `p` is in a segment, the one that is still open included, and when the loops end for whatever
reason, at the limit or because the pointer wrapped around, every page at all. A gap that becomes
too long is the one way to lose pages. `GapCounted` keeps the count against the probes that saw
nothing, so that what lies behind is what `GivenUp` leaves out. It needs that the hole is
no narrower than the distance of the probes: the jump over it counts as one turn.

`CountsRight` (`Spec => []PagesCounted`) has an invariant of its own as well, `CountInv`, checked by TLC on the same run. Pages are
added up as if segments had none in common, so it says that they have none, wherever they come from: the sweep leaves
entries in order (`SweepOrder`, which holds with empty entries too), the loop over them puts a segment before the entries
still to come (`BuildOrder`), and probing goes up (`ProbeOrder`). The sum over the segments inside the limits is then a size
of a union (`SumOfSizes`, by induction over the subsets of the segments), and what `adj_mem()` makes of its cases is the
part of a segment inside the limits (`SelectedPages`, `SelectionRight`), modulo 2^32 as the code has it. This needs limits that are
in order or, since the menu does not keep them so, a segment that lies on one side of the lower one (`Sensible`): crossed
limits select no page of it, and none is counted. What is left out is `CrossedInside`, where the count is wrong; see below.

*Console* (`Console_proofs`): `RegionComesBack` (`Spec => []PopupRestores`) and `TerminalTrue`
(`Spec => []TerminalAsBuffered`), for any number of rows, any keys and any lines. There are two
buffers for what a pop-up covers, and `popdown()` shows what is in one without asking when it was
saved. That this is right is a matter of what can be in progress on top of what, and
`Nested` says it: over a menu are only sub-menus, prompts, pages and waits for a key, none of
which prints or polls; a page has a menu under it; what waits for the scroll lock is
under way to print. So nobody opens a second menu over the first or prints under it, and
`Restorable` holds: while a menu is open the saved rows and the rows it leaves free are those
that were printed. It survives that the message line changes while `scroll()` waits (see
below): the line is then printed elsewhere, but on the screen and in the buffer alike.
`SetUpWhole` (`Spec => []AllOrNothing`) is about a fold over the command line: what the parameters of
any set of places set up together is what the last of them makes of the others (`LastParameter`), so that by
induction over the sets the fold is what the property says (`ParsedTogether`).

*Test algorithms* (`MemTests_proofs`, with the invariants in `MemTestsInvariants`): `Invariant` (`Spec => []IInv`), `GoodMemoryPasses`
(`Spec => []NoFalseAlarm`) and `SegmentsOnly` (`Spec => OnlySegmentsWritten`), for any sizes of
address space, chunk, word, block, bank and modulo step, any segments that satisfy the
assumptions, any generator of random numbers and any contents of the memory at first. A test that
is stopped stops at any chunk, so the proofs are for every prefix of a test too. That good memory passes is
an invariant of a program with pointers, and `IInv` has what a proof of such a program has:

- `Shape`: the variables, and that what is left of a call is loops that may follow each other
  (`LoopsOf`). It is enough of the order of loops to know what the loop before has left.
- `Places`: where the pointers are in the segment, for loops that go up, down, in steps of
  `ModSz`, in halves of chunks and over address bits. It has the arithmetic that a wrap around at
  the end of the address space is found out as one (`ChunkUp`), that the chunks of a loop that goes down end on
  multiples of the pattern, and that a modulo step over a chunk's end lands in the next chunk.
- `Marked`: what the registers are where the pointer is. The shift count of `movinv32()` is the
  distance from the start of the segment, modulo the width, in every chunk and after every boundary; `movinvr()`
  is at the random number that is the count of words before this one in the segments before and
  in this one (`Before`), the same in each of its loops; the counter of `modtst()` is the distance modulo `ModSz`.
- `Filled`: what is in the memory: of each word of each segment, what this loop leaves if the pointer is past
  it, and what the loop before left if it is not; of `modtst()` the words of the modulus only.
  `Planted` is the same for the one word of `addr_tst1()`.
- `Blocked`: for `block_move()`, that the words of a pair are equal: in the lower half of each chunk once the
  blocks are written, and in all of a chunk once it is moved. A move overwrites the upper half by the
  lower, and the lower by the upper, one place further (`Moved`); that this keeps pairs together needs
  that halves of chunks have an even number of words, the last chunk of each segment included.

`IInv` holds under TLC for the trials of the run `tests`. `SegmentsOnly` is proved from the same `Places`.

`MarchesImplemented` (`Spec => ImplementsMarch`) is the refinement: for any memory with any fault, every step of a march
test is a step of the program of sweeps or a stutter. It needs `IInv` and one more invariant, `MInv`, which TLC has checked
on the run `tests`, too. `Books` says that the calls left are the rest of those the test makes and the loops left the rest of those of
the call (`Rest`), so that `sweep` is a place in the list of all sweeps (`SweepNow`, the arithmetic of calls and loops within
calls), and that `seen` is what the loop should have been at when its pointer is where it is (`SeenIs`): the segments behind it,
of this one the words behind the pointer, at its offset only in a loop in steps of `ModSz`. With `Places` the
word at the pointer is the first of those left (`WordIsNext`), at the end of a loop none is, and
with `Marked` the registers hold what is planned for its place (`WordOfMarch`): the pattern of `movinv32()`,
which goes over the segment downwards from where a shift of its own put it, and the
counter of `modtst()`, which leaves the right words alone in chunks that are no multiple of its step.
A program of the other tests is empty; their steps stutter until they end or are stopped (`NoMarches`).

`TicksRight` (`Spec => []TicksAsExpected`) needs a third invariant, `TInv`, checked by TLC on the run `tests` as well.
`Ticked` says what the counter is wherever a test is: for each loop before this one (`Turns`) a tick for each chunk of all
segments, for this one as many for the chunks that are behind (`Passed`), as often as `block_move()` moves each
block if it is moving (`Weight`, `Moves`). That the chunks behind are one more after each chunk needs that a chunk
ends a whole number of chunks from where the segment starts, or from its end if the loop goes down (`Placed`); that all
are behind at the end of a loop needs two facts about rounding up: a loop that goes down from the last word of a
segment, rather than from its end, has as many chunks (`CeilDown`), and so has `block_move()` although
it leaves out the words below 0x500 (`CeilBlocks`; it would lose one if those could be a whole chunk). At the end
of the test `SweepsCounted` compares calls times loops with what `find_ticks_for_test()` multiplies.

`FaultsDetected` (`Spec => []FaultsFound`) is the one about faults: a test that was not stopped has reported something, wherever the
fault is. Since `MarchesImplemented` holds for any memory, it needs no pointers for the marches. `FInv` says sweep by sweep what the program
of sweeps has made of the faulty words; that it is an invariant follows from what a step of `March` does, and that the program
of each test has the sweeps it asks for from its calls (`StuckShows`, `Clashes`, `Inversions`).

- A stuck bit has its value always (`StuckFound`), so that a sweep that expects the other shows it (`Shows`). Each test has such a sweep:
  it writes both values of each bit, to `movinv32()`'s words by a call of its own for each place (`CallFor32`), and by the
  modulo test to the words of each offset (`ModuloRuns`).
- Two words that are one show in two upward sweeps, the second of which expects what the first has written (`Clash`): at the
  lower word, since the upper one has been written over it, or, if they are written the same, at the
  upper one after the lower has been inverted (`Aliased`).
- A word that flips when another rises or falls needs inversions in both directions (`Inverts`): which of three sweeps finds it depends
  on which of the two is above and on whether they are inverted to the value that matters while going up or going
  down. `Coupled` has the four cases, and what both words hold from one to the next. In one case, if the other word is below and does it on the way
  down, only the sweep after that reads the victim: this is why the call with
  the complement, or a second iteration, is needed (`InvertsTwice`).

The bit fade test is no march, and has an invariant of its own, `FadeInv`: the bit has its value from the end of a sleep to the end of the
check after it (`Settled`), unless the sleep was cut short, and one of the two checks expects the other value. TLC has checked
both invariants on trials of the run `tests`.

Induction over the length of a sequence is done with sets and pigeon holes (`Inductive`), since the library's
induction takes an operator.

Only model-checked: `EnteredAsTyped` of `Console` (the prover knows nothing of powers, which are what a digit is worth),
`LinesFound` of `MemTests` (whether a dead line can be found depends on whether the segments have words at both
of its values that differ in nothing else, among those the mask leads to). Liveness (`PassesRecur`, `RelocationEnds`, `Ends`, `Recovers`,
`MoveEnds`, `Answered`) is beyond the prover.

## Where the code and its texts disagree

With a run that shows it:

1. `overwrite`: two recomputations of the segments in the menu make a test walk over
   the running copy (`main.c:550`, against `main.c:450`).
2. `ecc_multibit`: `poll_amd76x()` reports multibit errors as corrected ones, and single
   bit errors as not corrected (`controller.c:519`, against `controller.c:507`).

Seen while modelling, without a run of their own. The properties that hold are
stated so as to leave these out, and say so.

*Driver and menu*
- Two changes of the limits in one menu during test 0, or one between tests, make the
  test number -1 (`config.c:165`).
- The fix-ups of the first segment are lost when the menu computes the segments anew:
  the test then starts at address 0 (`main.c:233`). `BiosAreaSpared` holds until then.
- A relocated test starts at the lower limit even if that lies in a hole of the map
  (`main.c:230`, against `memsize.c:153`).
- The program waits at the end of each pass (`main.c:489`), against README:283.
- `run_at()`'s third branch (`main.c:134`) is never taken when the two places overlap.

*Memory map*
- An entry of size 0 is never left again by the sweep, since both its ends look like a start
  (`memsize.c:317`): all above it has at least its type. `Sanitized`, `OnlyRamListed` and
  `RamListed` are for tables without one (`NonEmpty`).
- The gap after which probing gives up is 8192 probes 16K apart, 128MB and not "32768k"
  (`memsize.c:412`). `check_ram()` leaves the complement of what it read. The last page
  below the limit is not listed, since the limit is one less than it should be.
- Probing has no bound on the number of segments (`memsize.c:394`, `memsize.c:404`).
- The insertion sort of the segments shifts the wrong way (`memsize.c:104`); it works
  for segments in ascending order only, which is what the sweep delivers and
  what a linuxbios table need not. `RamListed` is limited to that case.
- An entry that covers all of the hole is used, hole included (`memsize.c:153-162`), and
  a linuxbios table is used as it is, hole included (`memsize.c:120`).
- Without a usable entry `pmap[-1]` is read (`memsize.c:70`).
- The comparisons of the menu are unsigned (`config.c:163`, `config.c:183`): page 0 is taken as upper
  limit and the largest page as lower one whatever the other limit is. With lower limit 9 and
  upper limit 0, `adj_mem()` takes a segment around 9 for one that contains both and adds
  0 - 9 (`config.c:567-569`): `v->selected_pages` is wrong. It does not get to the screen
  with these limits: every window is empty (`main.c:636`) and skipped before the only line that
  shows the count (`main.c:252`). `PagesCounted` leaves the case out (`CrossedInside`);
  without that TLC finds it.

*Error log and patterns*
- The highest error address is not the highest: it is not looked at when the lowest
  page changes, and page and offset are taken one after the other (`error.c:78`).
- The wrong memory slot is blamed: an ECC report hands its page number to
  `add_dmi_err()`, and virtual addresses above 2GB are not translated (`error.c:41`,
  `dmi.c:291`). The count of a slot never exceeds 1 (`dmi.c:302`), and its last KB is
  left out (`dmi.c:292`).
- `len` starts anew with each error, so "Max Contiguous Errors" is at most 2
  (`error.c:108`); `maxl \in 0 .. 2` is part of `TypeOK`.
- Runs and patterns are made of virtual addresses: words of different windows are
  not told apart, and an ECC error is entered under its page number.
- A fault can be in no pattern at all: four faults at 0x0, 0xC, 0x4, 0x8 do it
  (`patn.c:118`, against README:197). With masks of at most one bit a pattern selects
  itself (`patn.c:95`); a merge that is taken to be free can cover more than both
  patterns (`patn.c:96`).
- The individual-errors mode prints nothing any more (`error.c:224-253`), the default is
  "counts only" (`init.c:238`) and there are ten patterns, not five: README:172-205
  describes the program before the fork.

*Tests*
- The global part of the address line test writes wherever the address bits lead, into
  holes of the map as well (`test.c:49-65`); `OnlySegmentsWritten` leaves it out.
- The part of that test that goes through banks rounds the start of a segment up to a bank, and that
  wraps around to 0 if the segment starts in the last bank of the address space: it then tests
  addresses from 0 on, those of the program included, until it is past the end (`test.c:92`; the
  bank is 1MB with more than 8MB of memory). A lower limit in the menu can make such a segment. `OnlySegmentsWritten` leaves it out; without `Astray` TLC finds it.
- `emapping()` keeps the tests off the last 256 bytes of each segment (`init.c:350-357`).
- The ticks that `find_ticks_for_test()` expects are not those of the tests 1, 2, 5 and 8
  (`main.c:581`, `main.c:597`): the bar is full too early or not at all.
- A stop during the sleep of bit fade still checks the first segment (`test.c:1328`).
- The pointer arithmetic needs segments that are whole pages (`test.c:185`);
  `TestsAssumption` says so.

*ECC polling*
- The poll functions of i840, i875, i845, i820, amd751 and amd64 clear all bits, those of
  an error that came after the status was read included; iE7xxx clears twice.
- iE7221 clears without a report when both bits are set; the second log of the
  chips that have one (NERR) is cleared unread.
- The setups of i840, i845, i820, i850, amd751, amd76x and i440gx do not clear the status:
  errors from before the program are reported as new (`NoLeftOver` is for the others).
- `poll_i440gx` reads two bytes at an odd register; `poll_i820` shifts the mask instead of the
  masked value; `setup_cnb20` leaves polling on with nothing to poll.

*Console*
- `scroll()` decides on the message line before it waits for the lock; "Individual
  Errors" chosen meanwhile makes it print above the region (`lib.c:197-203`,
  `config.c:277`).
- Leaving the menu with the space bar sets the scroll lock (`config.c:372`).
- `scroll()` does not send the last row to a serial terminal; `clear_scroll()` blanks the
  screen but not its buffer.
- `getval()` has no bound on the length of its 16-character buffer; `NumLen` bounds the
  model. The letter that repeats a key on a serial line is not the one that
  `lib.c:587` names.
- A console parameter is parsed in one step: `serial_console_setup()` stores what it read only
  after the last check (`lib.c:1108-1115`).

*Firmware tables*
- The walk over the DMI table stores as many devices and mappings as the table has into
  arrays of `MAX_DMI_MEMDEVS` (`dmi.c:176-180`), looks at one structure more than there are, and
  takes the system information, which is of type 1, for a mapping; `query_linuxbios()` uses a
  forwarded table without checking it.

## Plan

In this order:

1. A theorem about `LinesFound` of `MemTests`, with what segments must have for a line to be found.
2. An abstract driver (every pass tests each selected page with each test) that
   `TestDriver` implements while the menu is closed.
3. The spin lock and barrier of `smp.c`, should the Makefile ever link it.

## Not modelled

- Code that decides nothing: boot sectors and `setup.S`, chipset and JEDEC names, CPU
  and SPD identification, clocks and timings of the chipsets, which only fill the
  screen; the bars of progress, but for the ticks they count.
- `smp.c` and `extra.c` are not linked by the Makefile.
- The layout of the firmware's tables: their checksums, which are right or not, and the
  strings of the SMBIOS structures (`print_dmi_info()`), which are only shown.
- The log readers: sequential programs that read finished logs.
- The hardware: timing, caches, and what a faulty memory does to the program's own
  image. A program that has overwritten itself is `lost` and does nothing.
- A parity interrupt (`lib.c:481-486`, with `PARITY_MEM` of `config.h:11`) in the middle of
  `common_err()`: it is a report of its own here, before or after the one under way.
