------------------------------ MODULE MemMap ------------------------------
(***************************************************************************)
(* The memory map of memsize.c, from what the firmware reports to the      *)
(* segments v->pmap that the driver tests and the page counts on the       *)
(* screen.  Each loop is a program counter value, each of its turns a step:*)
(*   sweep      sanitize_e820_map(), over the change points                *)
(*   build      memsize_820(), over the sanitized entries                  *)
(*   linuxbios  memsize_linuxbios(), over the reported entries             *)
(*   wrap, probe, gap    the three loops of memsize_probe()                *)
(*   sort       sort_pmap(), over the segments                             *)
(* Addresses are counted in units of which PageSize make a page of 4K.     *)
(*                                                                         *)
(* An operator named Bad... is a plausible mistake in the definition that  *)
(* follows it; nothing refers to it.                                       *)
(***************************************************************************)
EXTENDS Integers, Sequences, FiniteSetsExt

CONSTANTS
  PageSize,      \* 4096
  ResStart,      \* RES_START, 640K
  ResEnd,        \* RES_END, 1M
  Word,          \* 2^64: addresses and sizes wrap around there
  E820Max,       \* E820MAX
  Extended,      \* the extended memory the 801 and 88 calls report, in pages
  Ptr,           \* 2^32: pointers wrap around there
  ImageEnd,      \* &_end, of the copy that sizes the memory
  Step,          \* 0x1000 words of 4 bytes: the addresses probed lie so far apart
  GapSteps,      \* 32768 >> 2
  Decoded,       \* the sizes that the decoded part of the address space may have
  Machines,      \* what the firmware left in memory, and what is memory
  Ulong,         \* 2^32: the limits and the count of what they select wrap around there
  Pages          \* limits the operator may enter

Entry == [addr : 0 .. Word - 1, size : 0 .. Word - 1, type : Nat \ {0}]
RAM == 1
Reserve == 2
ACPI == 3
NVS == 4
Usable == {RAM, ACPI}

(* A linuxbios (coreboot) table: whether signature, size of the header and      *)
(* checksums are right, the bytes and entries it is said to have, in words,    *)
(* and its records.  null is about the address in a record that forwards.      *)
LbRecord ==
  [tag : {"memory", "forward", "other"}, size : Nat, map : Seq(Entry),
   null : BOOLEAN]
LbTable == [right : BOOLEAN, bytes : Nat, entries : Nat, records : Seq(LbRecord)]

(* The tables in the order in which they are found, one they may forward to,   *)
(* the table that setup.S got from the BIOS, the addresses of memory and the   *)
(* size of the address space that is decoded.                                  *)
Machine ==
  [lb : Seq(LbTable), forwarded : LbTable, table : Seq(Entry), ram : SUBSET Nat,
   decode : Decoded]

(* Not less than 1M is decoded, and always 1M times a power of 2; the distance  *)
(* of the probes is not more than the hole is wide.                            *)
ASSUME MapAssumption ==
  /\ PageSize \in Nat /\ PageSize >= 2 /\ Word \in Nat \ {0}
  /\ ResStart \in Nat /\ ResEnd \in Nat /\ ResStart < ResEnd
  /\ ResStart % PageSize = 0 /\ ResEnd % PageSize = 0
  /\ E820Max \in Nat /\ E820Max >= 2 /\ Extended \in Nat
  /\ Ulong \in Nat \ {0} /\ Pages \subseteq 0 .. Ulong - 1
  /\ ImageEnd \in Nat /\ Step \in Nat /\ GapSteps \in Nat \ {0}
  /\ Step > 0 /\ Step % PageSize = 0 /\ Step <= ResEnd - ResStart
  /\ \A d \in Decoded :
       d \in Nat /\ d >= ResEnd /\ (d = ResEnd \/ \E e \in Decoded : d = 2 * e)
  /\ Ptr \in Nat /\ ResEnd < Ptr /\ Ptr % PageSize = 0
  /\ 2 * Step <= ImageEnd /\ ImageEnd <= ResStart
  /\ Machines \subseteq Machine
  /\ \A m \in Machines :
       Len(m.table) <= E820Max /\ \A i \in 1 .. Len(m.lb) : m.lb[i].records # <<>>

VARIABLES
  pc,
  firmware,       \* "pcbios" or "linuxbios"
  e820,           \* the copy of the table (mem_size)
  ram, decode,    \* addresses of memory, below what is decoded
  mode,           \* memsz_mode: "bios" or "probe"
  limit,          \* m_lim, and p2 before it is known
  p,              \* p, the address probed
  gap,            \* n, the turns until a gap is too large
  points,         \* change points the sweep has not come to
  overlap,        \* overlap_list: entries the sweep is inside of
  lastType,       \* last_type
  lastAddr,       \* last_addr
  nm,             \* the sanitized entries, as far as they are finished
  at,             \* the index of the loops of build, linuxbios, probe and sort
  pmap,           \* v->pmap, with what lies before it at index -1
  msegs,          \* v->msegs
  testPages, reservedPages, selectedPages,
  plimLower, plimUpper,
  \* History, read by properties only:
  full,           \* the sweep ended because nm was full
  moved           \* sort_pmap() found a segment out of its place

machine == <<firmware, e820, ram, decode>>
probing == <<limit, p, gap>>
sanitizing == <<points, overlap, lastType, lastAddr, nm>>
counts == <<testPages, reservedPages, selectedPages>>
limits == <<plimLower, plimUpper>>
vars == <<pc, machine, mode, probing, sanitizing, at, pmap, msegs, counts,
          limits, full, moved>>

BadUp(a) == a \div PageSize + 1   \* loses a page that starts at a
Up(a) == (a + PageSize - 1) \div PageSize
Down(a) == a \div PageSize
End(e) == (e.addr + e.size) % Word

-----------------------------------------------------------------------------
(* query_linuxbios().  The records that for_each_lbrec() goes over: those that *)
(* end within the table, up to one of size 0.                                  *)
Records(t) ==
  {i \in 1 .. Len(t.records) :
     /\ \A j \in 1 .. i : t.records[j].size >= 1
     /\ MapThenSumSet(LAMBDA j : t.records[j].size, 1 .. i) <= t.bytes}

(* __find_lb_table(): the tables it accepts; find_lb_table() takes the first. *)
Accepted(m) ==
  {i \in 1 .. Len(m.lb) :
     m.lb[i].right /\ Cardinality(Records(m.lb[i])) = m.lb[i].entries}
FindTable(m) == m.lb[Min(Accepted(m))]

Forwards(t) == t.records[1].tag = "forward"

QueryLinuxbios(m) ==   \* what it returns
  /\ Accepted(m) # {}
  /\ ~(Forwards(FindTable(m)) /\ FindTable(m).records[1].null)

(* mem_info.e820 after it: the memory record's entries as far as there is room, *)
(* or what was there before.  The table forwarded to is not checked.            *)
MemInfo(m) ==
  LET head == IF Forwards(FindTable(m)) THEN m.forwarded ELSE FindTable(m)
      memory == {i \in Records(head) : head.records[i].tag = "memory"}
      map == head.records[Min(memory)].map
  IN  IF ~QueryLinuxbios(m) \/ memory = {} THEN m.table
      ELSE IF map = <<>> THEN m.table
      ELSE [i \in 1 .. Min({Len(map), E820Max}) |->
              [map[i] EXCEPT !.type = IF @ = RAM THEN RAM ELSE Reserve]]

-----------------------------------------------------------------------------
(* sanitize_e820_map().  A change point is the start or the end of an entry; *)
(* the end of an empty one is taken for a start, as the code does.           *)
Points == (1 .. Len(e820)) \X {"start", "end"}
AddrOf(x) == IF x[2] = "start" THEN e820[x[1]].addr ELSE End(e820[x[1]])
Starts(x) == AddrOf(x) = e820[x[1]].addr

(* The order of the sorted list: by address, starts before ends, and as they *)
(* were recorded.                                                            *)
Precedes(x, y) ==
  \/ AddrOf(x) < AddrOf(y)
  \/ /\ AddrOf(x) = AddrOf(y)
     /\ \/ Starts(x) /\ ~Starts(y)
        \/ /\ Starts(x) <=> Starts(y)
           /\ x[1] < y[1] \/ (x[1] = y[1] /\ x[2] = "start")

IsNext(x) == x \in points /\ \A y \in points \ {x} : Precedes(x, y)

(* The larger type takes precedence; 0 if there is none. *)
BadTypeOf(entries) ==   \* the smaller one does
  IF entries = {} THEN 0 ELSE Min({e820[i].type : i \in entries})
TypeOf(entries) == Max({0} \cup {e820[i].type : i \in entries})

Unreasonable == \E i \in 1 .. Len(e820) : End(e820[i]) < e820[i].addr

(* mem_size(), up to the loops *)
MemSize ==
  /\ pc = "start"
  /\ reservedPages' = 0 /\ testPages' = 0
  /\ \/ mode = "probe" /\ pc' = "wrap"
     \/ mode = "bios" /\ firmware = "linuxbios" /\ pc' = "linuxbios"
     \/ mode = "bios" /\ firmware = "pcbios" /\ Unreasonable /\ pc' = "fallback"
     \/ mode = "bios" /\ firmware = "pcbios" /\ ~Unreasonable /\ pc' = "sweep"
  /\ points' = IF pc' = "sweep" THEN Points ELSE {}
  /\ overlap' = {} /\ lastType' = 0 /\ lastAddr' = 0 /\ nm' = <<>>
  /\ at' = IF pc' = "linuxbios" THEN 1 ELSE 0
  /\ msegs' = IF pc' = "linuxbios" THEN 0 ELSE msegs
  /\ limit' = ResEnd /\ p' = 0 /\ gap' = 0
  /\ full' = FALSE /\ moved' = FALSE
  /\ UNCHANGED <<machine, mode, pmap, selectedPages, limits>>

NoRoom(entries) == Len(entries) >= E820Max

(* One change point: which entries overlap from here on, whether the type    *)
(* changes, and the entry that this finishes.                                *)
SweepPoint ==
  \E x \in points :
    LET here == AddrOf(x)
        inside == IF Starts(x) THEN overlap \cup {x[1]} ELSE overlap \ {x[1]}
        type == TypeOf(inside)
        finished == [addr |-> lastAddr, size |-> here - lastAddr, type |-> lastType]
        done == type # lastType /\ lastType # 0 /\ finished.size # 0
        nm1 == IF done THEN Append(nm, finished) ELSE nm
        stop == done /\ NoRoom(nm1)
    IN  /\ pc = "sweep" /\ IsNext(x)
        /\ overlap' = inside
        /\ nm' = nm1
        /\ full' = stop
        /\ points' = IF stop THEN {} ELSE points \ {x}
        /\ lastType' = IF stop THEN lastType ELSE type
        /\ lastAddr' = IF type \notin {lastType, 0} /\ ~stop THEN here ELSE lastAddr
        /\ UNCHANGED <<pc, machine, mode, probing, at, pmap, msegs, counts, limits,
                       moved>>

SweepOver ==
  /\ pc = "sweep" /\ points = {}
  /\ pc' = IF nm = <<>> THEN "fallback" ELSE "build"
  /\ at' = 1 /\ msegs' = 0
  /\ UNCHANGED <<machine, mode, probing, sanitizing, pmap, counts, limits, full, moved>>

-----------------------------------------------------------------------------
(* The pages between two addresses become the next segment. *)
AddSegment(start, end) ==
  /\ pmap' = [pmap EXCEPT ![msegs] = [start |-> Up(start), end |-> Down(end)]]
  /\ testPages' = testPages + (Down(end) - Up(start))
  /\ msegs' = msegs + 1

(* memsize_820(): one turn.  Nothing between 640K and 1M is to be used. *)
BadClip(start, end) ==   \* the end of an entry is left alone
  IF start > ResStart /\ start < ResEnd
  THEN <<ResEnd, end>>
  ELSE <<start, end>>

Clip(start, end) ==
  <<IF start > ResStart /\ start < ResEnd THEN ResEnd ELSE start,
    IF end > ResStart /\ end < ResEnd THEN ResStart ELSE end>>

InHole(start, end) == start > ResStart /\ start < ResEnd /\ end < ResEnd

BuildUsable ==
  LET e == nm[at]
      c == Clip(e.addr, e.addr + e.size)
  IN  /\ pc = "build" /\ at <= Len(nm) /\ e.type \in Usable
      /\ IF InHole(e.addr, e.addr + e.size)
         THEN UNCHANGED <<pmap, testPages, msegs>>
         ELSE AddSegment(c[1], c[2])
      /\ at' = at + 1
      /\ UNCHANGED <<pc, machine, mode, probing, sanitizing, reservedPages,
                     selectedPages, limits, full, moved>>

BuildOther ==
  /\ pc = "build" /\ at <= Len(nm) /\ nm[at].type \notin Usable
  /\ reservedPages' = reservedPages +
       (IF nm[at].type = NVS THEN Down(nm[at].size) ELSE 0)
  /\ at' = at + 1
  /\ UNCHANGED <<pc, machine, mode, probing, sanitizing, pmap, msegs, testPages,
                 selectedPages, limits, full, moved>>

(* memsize_801(): the first 640K and what the older calls report *)
Fallback ==
  /\ pc = "fallback"
  /\ pmap' = [pmap EXCEPT
       ![0] = [start |-> 0, end |-> Down(ResStart)],
       ![1] = [start |-> Up(ResEnd), end |-> Extended + Down(ResEnd)]]
  /\ msegs' = 2
  /\ testPages' = Down(ResStart) + Extended
  /\ pc' = "sort" /\ at' = 0
  /\ UNCHANGED <<machine, mode, probing, sanitizing, reservedPages, selectedPages,
                 limits, full, moved>>

(* memsize_linuxbios(): one turn *)
LinuxbiosEntry ==
  /\ pc = "linuxbios" /\ at <= Len(e820)
  /\ IF e820[at].type = RAM
     THEN AddSegment(e820[at].addr, End(e820[at]))
     ELSE UNCHANGED <<pmap, testPages, msegs>>
  /\ at' = at + 1
  /\ UNCHANGED <<pc, machine, mode, probing, sanitizing, reservedPages, selectedPages,
                 limits, full, moved>>

Built ==
  /\ \/ pc = "build" /\ at > Len(nm)
     \/ pc = "linuxbios" /\ at > Len(e820)
  /\ pc' = "sort" /\ at' = 0
  /\ UNCHANGED <<machine, mode, probing, sanitizing, pmap, msegs, counts, limits,
                 full, moved>>

-----------------------------------------------------------------------------
(* memsize_probe().  What the program finds at an address; check_ram() looks   *)
(* at one word and leaves its complement there.                                *)
Sees(a) == a % decode \in ram
Wraps == limit % decode = 0
Inside == p < limit /\ p >= ImageEnd
Reserved(a) == a < ResEnd /\ a >= ResStart
From(a) == (a + Step) % Ptr

(* Address space that is not decoded shows what is at address 0 again. *)
FindLimit ==
  /\ pc = "wrap"
  /\ IF ~Wraps /\ 2 * limit < Ptr
     THEN limit' = 2 * limit /\ UNCHANGED <<pc, p, pmap>>
     ELSE /\ limit' = (IF Wraps THEN limit ELSE Ptr) - 1
          /\ pmap' = [pmap EXCEPT ![0].start = Up(ImageEnd)]
          /\ p' = Up(ImageEnd) * PageSize
          /\ pc' = "probe"
  /\ UNCHANGED <<machine, mode, gap, sanitizing, at, msegs, counts, limits, full,
                 moved>>

(* The segment ends here, and the next is to be found. *)
Close(page) ==
  /\ at < E820Max
  /\ pmap' = [pmap EXCEPT ![at].end = page, ![at + 1].start = 0]
  /\ testPages' = testPages + (page - pmap[at].start)
  /\ at' = at + 1
  /\ gap' = GapSteps
  /\ pc' = "gap"
  /\ UNCHANGED <<machine, mode, limit, sanitizing, msegs, reservedPages,
                 selectedPages, limits, full, moved>>

ProbeReserved ==
  /\ pc = "probe" /\ Inside /\ Reserved(p)
  /\ p' = ResEnd
  /\ Close(Down(ResStart))

ProbeNothing ==
  /\ pc = "probe" /\ Inside /\ ~Reserved(p) /\ ~Sees(p)
  /\ p' = p
  /\ Close(Down(p))

ProbeRam ==
  /\ pc = "probe" /\ Inside /\ ~Reserved(p) /\ Sees(p)
  /\ p' = From(p)
  /\ UNCHANGED <<pc, machine, mode, limit, gap, sanitizing, at, pmap, msegs,
                 counts, limits, full, moved>>

(* The loop over a gap; the hole is skipped. *)
PastHole(a) == IF Reserved(a) THEN ResEnd ELSE a

GapEnds ==
  LET here == PastHole(p)
  IN  /\ pc = "gap" /\ Inside /\ Sees(here)
      /\ pmap' = [pmap EXCEPT ![at].start = Down(here)]
      /\ p' = From(here)
      /\ pc' = "probe"
      /\ UNCHANGED <<machine, mode, limit, gap, sanitizing, at, msegs, counts,
                     limits, full, moved>>

GapTurn ==
  LET here == PastHole(p)
      long == gap - 1 <= 0
  IN  /\ pc = "gap" /\ Inside /\ ~Sees(here)
      /\ gap' = gap - 1
      /\ p' = From(IF long THEN limit ELSE here)
      /\ pc' = IF long THEN "probe" ELSE "gap"
      /\ UNCHANGED <<machine, mode, limit, sanitizing, at, pmap, msegs, counts,
                     limits, full, moved>>

GapOver ==
  /\ pc = "gap" /\ ~Inside
  /\ p' = From(p)
  /\ pc' = "probe"
  /\ UNCHANGED <<machine, mode, limit, gap, sanitizing, at, pmap, msegs, counts,
                 limits, full, moved>>

(* Memory up to the limit ends there. *)
Probed ==
  LET open == pmap[at].start # 0
  IN  /\ pc = "probe" /\ ~Inside
      /\ pmap' = IF open THEN [pmap EXCEPT ![at].end = Down(limit)] ELSE pmap
      /\ testPages' = testPages + (IF open THEN Down(limit) - pmap[at].start ELSE 0)
      /\ msegs' = IF open THEN at + 1 ELSE at
      /\ pc' = "sort" /\ at' = 0
      /\ UNCHANGED <<machine, mode, probing, sanitizing, reservedPages,
                     selectedPages, limits, full, moved>>

-----------------------------------------------------------------------------
(* sort_pmap(): where the loop over j leaves segment i, and the segments     *)
(* after its memmove().                                                      *)
Place(i) ==
  LET below == {j \in 0 .. i - 1 : pmap[i].start > pmap[j].start}
  IN  IF below = {} THEN -1 ELSE Max(below) + 1

Shift(i, j) ==
  [k \in DOMAIN pmap |->
     IF k = j THEN pmap[i] ELSE IF k \in j .. i - 1 THEN pmap[k + 1] ELSE pmap[k]]

SortTurn ==
  LET j == Place(at)
  IN  /\ pc = "sort" /\ at < msegs
      /\ pmap' = IF at # j THEN Shift(at, j) ELSE pmap
      /\ moved' = (moved \/ (at # 0 /\ at # j))
      /\ at' = at + 1
      /\ UNCHANGED <<pc, machine, mode, probing, sanitizing, msegs, counts, limits, full>>

(* adj_mem(): the pages of segment s inside the limits *)
BadSelectedOf(s, lower, upper) ==   \* not both limits inside a segment
  IF s.start >= lower /\ s.end <= upper THEN s.end - s.start
  ELSE IF s.start < lower
       THEN IF s.end < lower THEN 0 ELSE s.end - lower
       ELSE IF s.start > upper THEN 0 ELSE upper - s.start

SelectedOf(s, lower, upper) ==
  IF s.start >= lower /\ s.end <= upper THEN s.end - s.start
  ELSE IF s.start < lower
       THEN IF s.end < lower THEN 0
            ELSE IF s.end > upper THEN upper - lower ELSE s.end - lower
       ELSE IF s.start > upper THEN 0 ELSE upper - s.start

AdjMem(lower, upper) ==
  MapThenSumSet(LAMBDA i : SelectedOf(pmap[i], lower, upper), 0 .. msegs - 1) % Ulong

(* mem_size(), after the loops *)
Sorted ==
  /\ pc = "sort" /\ at >= msegs
  /\ plimLower' = 0
  /\ plimUpper' = pmap[msegs - 1].end
  /\ selectedPages' = AdjMem(plimLower', plimUpper')
  /\ pc' = "ready"
  /\ UNCHANGED <<machine, mode, probing, sanitizing, at, pmap, msegs, testPages,
                 reservedPages, full, moved>>

-----------------------------------------------------------------------------
(* get_config(): the limits, and a restart to size the memory again.  The      *)
(* limits are unsigned, and the sum and the difference wrap around: page 0 is  *)
(* taken as an upper limit and the largest page as a lower one in any case.    *)
SetLower(page) ==
  /\ pc = "ready"
  /\ plimLower' = IF (page + 1) % Ulong <= plimUpper THEN page ELSE plimLower
  /\ selectedPages' = AdjMem(plimLower', plimUpper)
  /\ UNCHANGED <<pc, machine, mode, probing, sanitizing, at, pmap, msegs, testPages,
                 reservedPages, plimUpper, full, moved>>

SetUpper(page) ==
  /\ pc = "ready"
  /\ plimUpper' = IF (page - 1) % Ulong >= plimLower THEN page ELSE plimUpper
  /\ selectedPages' = AdjMem(plimLower, plimUpper')
  /\ UNCHANGED <<pc, machine, mode, probing, sanitizing, at, pmap, msegs, testPages,
                 reservedPages, plimLower, full, moved>>

AllMemory ==
  /\ pc = "ready"
  /\ plimLower' = 0
  /\ plimUpper' = pmap[msegs - 1].end
  /\ selectedPages' = AdjMem(plimLower', plimUpper')
  /\ UNCHANGED <<pc, machine, mode, probing, sanitizing, at, pmap, msegs, testPages,
                 reservedPages, full, moved>>

Restart ==
  /\ pc = "ready"
  /\ pc' = "start"
  /\ mode' \in {"bios", "probe"}
  /\ UNCHANGED <<machine, probing, sanitizing, at, pmap, msegs, counts, limits,
                 full, moved>>

Init ==
  /\ pc = "start"
  /\ \E m \in Machines :
       /\ firmware = IF QueryLinuxbios(m) THEN "linuxbios" ELSE "pcbios"
       /\ e820 = MemInfo(m) /\ ram = m.ram /\ decode = m.decode
  /\ mode = "bios" /\ limit = 0 /\ p = 0 /\ gap = 0
  /\ points = {} /\ overlap = {} /\ lastType = 0 /\ lastAddr = 0 /\ nm = <<>>
  /\ at = 0
  /\ pmap = [i \in -1 .. E820Max |-> [start |-> 0, end |-> 0]]
  /\ msegs = 0
  /\ testPages = 0 /\ reservedPages = 0 /\ selectedPages = 0
  /\ plimLower = 0 /\ plimUpper = 0
  /\ full = FALSE /\ moved = FALSE

Next ==
  \/ MemSize \/ SweepPoint \/ SweepOver
  \/ BuildUsable \/ BuildOther \/ Fallback \/ LinuxbiosEntry \/ Built
  \/ FindLimit \/ ProbeReserved \/ ProbeNothing \/ ProbeRam
  \/ GapEnds \/ GapTurn \/ GapOver \/ Probed
  \/ SortTurn \/ Sorted
  \/ \E page \in Pages : SetLower(page) \/ SetUpper(page)
  \/ AllMemory \/ Restart

Spec == Init /\ [][Next]_vars

-----------------------------------------------------------------------------
(* What the firmware says of address a. *)
Covers(e, a) == e.addr <= a /\ a < e.addr + e.size
CoveringType(a) ==
  Max({0} \cup {e820[i].type : i \in {k \in 1 .. Len(e820) : Covers(e820[k], a)}})

(* The pages that will be tested. *)
Segment(i) == pmap[i].start .. pmap[i].end - 1
Listed == UNION {Segment(i) : i \in 0 .. msegs - 1}

Addresses == 0 .. Word - 1
Of(page) == page * PageSize .. page * PageSize + PageSize - 1
Hole == ResStart .. ResEnd - 1
AllPages == 0 .. Down(Word) - 1

(* A page that the firmware reports as usable, in one piece *)
UsablePage(page) ==
  \/ /\ firmware = "pcbios"
     /\ \E t \in Usable : \A a \in Of(page) : CoveringType(a) = t
  \/ /\ firmware = "linuxbios"
     /\ \E i \in 1 .. Len(e820) :
          e820[i].type = RAM /\ \A a \in Of(page) : Covers(e820[i], a)

(* No entry is of size 0. *)
NonEmpty == \A i \in 1 .. Len(e820) : e820[i].size # 0

(* The map comes from the table and not from the older calls. *)
FromTable == mode = "bios" /\ (firmware = "linuxbios" \/ nm # <<>>)

(* The addresses that are probed, the one that stands for a page, and whether  *)
(* the search was given up before it came there.                               *)
ProbedFrom(a, b) == {x \in a .. b - 1 : (x - a) % Step = 0}
Probes == ProbedFrom(Up(ImageEnd) * PageSize, ResStart) \cup ProbedFrom(ResEnd, Ptr)
ProbeOf(page) == Max({x \in Probes : x <= page * PageSize})
GivenUp(a) ==
  \E x \in Probes :
    LET run == {y \in Probes : x <= y /\ y < a}
    IN  \E y \in run : \A z \in run :
          z <= y => ~Sees(z) /\ Cardinality({w \in run : w <= y}) >= GapSteps

Segments == [start : Int, end : Int]

TypeOK ==
  /\ pc \in {"start", "sweep", "build", "fallback", "linuxbios", "wrap", "probe",
            "gap", "sort", "ready"}
  /\ points \subseteq Points /\ overlap \subseteq 1 .. Len(e820)
  /\ lastType \in Nat /\ lastAddr \in Addresses
  /\ nm \in Seq(Entry) /\ Len(nm) <= E820Max
  /\ mode \in {"bios", "probe"} /\ limit \in 0 .. Ptr - 1 /\ p \in 0 .. Ptr - 1
  /\ gap \in 0 .. GapSteps
  /\ at \in 0 .. E820Max + 1
  /\ msegs \in 0 .. E820Max + 1
  /\ pmap \in [-1 .. E820Max -> Segments]
  /\ testPages \in Int /\ reservedPages \in Nat /\ selectedPages \in Int
  /\ plimLower \in Nat /\ plimUpper \in Nat
  /\ full \in BOOLEAN /\ moved \in BOOLEAN

(* The sanitized entries follow each other without overlaps, and each address *)
(* has the largest type that the firmware gave it ("larger value takes        *)
(* precedence", memsize.c:333), as far as there is room for entries and if no *)
(* reported entry is empty.                                                   *)
Ascending ==
  \A i, j \in 1 .. Len(nm) : i < j => nm[i].addr + nm[i].size <= nm[j].addr
TypesKept ==
  \A a \in Addresses :
    LET listed == {nm[i].type : i \in {k \in 1 .. Len(nm) : Covers(nm[k], a)}}
    IN  IF full /\ a >= nm[Len(nm)].addr + nm[Len(nm)].size
        THEN listed = {}
        ELSE listed = {CoveringType(a)} \ {0}
Sanitized == pc = "build" /\ NonEmpty => Ascending /\ TypesKept

(* No page is tested that the firmware does not report as usable, all of it,  *)
(* nor one between 640K and 1M, unless the firmware says that all of the hole *)
(* is memory (memsize.c:147-164).  Where memory is probed, no page is tested  *)
(* that belongs to the program or the hole or that was not seen to be memory, *)
(* and none twice, under two addresses (memsize.c:365-367).                   *)
OnlyUsable ==
  \A page \in Listed :
    /\ \A a \in Of(page) : CoveringType(a) \in Usable
    /\ Of(page) \cap Hole # {} =>
         \A a \in Hole : CoveringType(a) \in Usable
OnlyProbed ==
  \A page \in Listed :
    /\ Of(page) \cap (0 .. ImageEnd - 1 \cup Hole) = {}
    /\ Sees(ProbeOf(page))
    /\ \A other \in Listed \ {page} :
         page * PageSize % decode # other * PageSize % decode
OnlyRamListed ==
  pc = "ready" =>
    /\ firmware = "pcbios" /\ FromTable /\ NonEmpty => OnlyUsable
    /\ firmware = "linuxbios" /\ FromTable => \A page \in Listed : UsablePage(page)
    /\ mode = "probe" => OnlyProbed

(* ... and every usable page is tested, if sort_pmap() had nothing to move;   *)
(* where memory is probed, except for the page before the limit and for what  *)
(* lies behind a gap of GapSteps probes.                                      *)
RamListed ==
  pc = "ready" /\ ~moved =>
    /\ FromTable /\ ~Unreasonable /\ ~full /\ (NonEmpty \/ firmware = "linuxbios") =>
         \A page \in AllPages :
           UsablePage(page) /\ (Of(page) \cap Hole = {} \/ firmware = "linuxbios")
             => page \in Listed
    /\ mode = "probe" =>
         \A page \in Up(ImageEnd) .. Down(limit) - 1 :
           /\ Of(page) \cap Hole = {}
           /\ Sees(ProbeOf(page)) /\ ~GivenUp(ProbeOf(page))
           => page \in Listed

(* The limits are crossed, and the lower one is in a segment or at its end.  *)
CrossedInside ==
  /\ plimUpper < plimLower
  /\ \E i \in 0 .. msegs - 1 : pmap[i].start < plimLower /\ plimLower <= pmap[i].end

(* The page counts are those of the pages that are listed and of those inside *)
(* the limits (memsize.c:165, config.c:547-588), if no entry is smaller than  *)
(* a page, whatever limits the menu accepts but for crossed ones that are     *)
(* taken for one segment (config.c:567-569): no window is tested with those.  *)
PagesCounted ==
  /\ pc = "ready" /\ (firmware = "pcbios" \/ mode = "probe") /\ ~moved
  /\ \A i \in 0 .. msegs - 1 : pmap[i].start <= pmap[i].end
  => /\ testPages = Cardinality(Listed)
     /\ ~CrossedInside =>
          selectedPages = Cardinality(Listed \cap plimLower .. plimUpper - 1) % Ulong
=============================================================================
