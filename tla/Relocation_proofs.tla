------------------------- MODULE Relocation_proofs -------------------------
(***************************************************************************)
(* Proofs about Relocation, for any image, any list of relocation entries  *)
(* and any number of moves.  The invariant is IInv of Relocation.          *)
(***************************************************************************)
EXTENDS Relocation, TLAPS

-----------------------------------------------------------------------------
(* The bases, and where images can lie on each other.                          *)
LEMMA BasesPositive ==
  /\ Bases \subseteq Nat \ {0} /\ Low \in Bases /\ High \in Bases
  /\ 0 \notin Bases /\ NoAddr \notin Bases /\ Low # High
BY RelocationAssumption DEF Bases, NoAddr

LEMMA HighIsClear ==
  /\ \A b \in Bases : ~ Overlap(b, High)
  /\ ~ Overlap(High, Low)
<1>1. ~ Overlap(High, High) BY BasesPositive DEF Overlap
<1>2. ~ Overlap(High, Low)
  BY RelocationAssumption, BasesPositive DEF Overlap
<1>3. QED BY <1>1, <1>2, RelocationAssumption

(* elf_machine_rel() takes a word that is right for the last load address to   *)
(* one that is right for this one.                                             *)
LEMMA MachineRelMoves ==
  ASSUME NEW i \in 1 .. Entries, NEW ll \in Int, NEW l \in Bases
  PROVE  MachineRel(i, Resolved(i, ll), ll, l) = Resolved(i, l)
<1> DEFINE S(b) == Value[i] + (IF i \in Defined THEN b ELSE 0)
<1>1. /\ Value[i] \in Int /\ Offset[i] \in Int /\ Addend[i] \in Int /\ Kind[i] \in Types
      /\ l \in Int /\ l # 0
  BY RelocationAssumption, BasesPositive
<1>2. CASE Kind[i] = "RELATIVE"
  BY <1>1, <1>2 DEF MachineRel, Resolved
<1>3. CASE Kind[i] = "NONE"
  BY <1>1, <1>3 DEF MachineRel, Resolved
<1>4. CASE Kind[i] \in {"GLOB_DAT", "JMP_SLOT"}
  BY <1>1, <1>4 DEF MachineRel, Resolved
<1>5. CASE Kind[i] = "32"
  BY <1>1, <1>5 DEF MachineRel, Resolved
<1>6. CASE Kind[i] = "PC32"
  BY <1>1, <1>6 DEF MachineRel, Resolved
<1>7. QED BY <1>1, <1>2, <1>3, <1>4, <1>5, <1>6 DEF Types

LEMMA ResolvedIsInt ==
  ASSUME NEW i \in 1 .. Entries, NEW b \in Int
  PROVE  Resolved(i, b) \in Int
<1>1. /\ Value[i] \in Int /\ Offset[i] \in Int /\ Addend[i] \in Int /\ Kind[i] \in Types
  BY RelocationAssumption
<1>2. QED BY <1>1 DEF Resolved, Types

LEMMA JunkIsImage == Junk \in Image
<1>1. NoAddr \in Int /\ 0 \in Settings BY RelocationAssumption DEF NoAddr
<1>2. QED BY <1>1 DEF Junk, Image

LEMMA BssClears ==
  ASSUME NEW image \in Image
  PROVE  [image EXCEPT !.zerobss = FALSE, !.last = 0, !.firsttime = TRUE, !.setting = 0]
           \in Image
<1>1. ASSUME NEW no \in BOOLEAN, NEW yes \in BOOLEAN, NEW n \in Int, NEW set \in Settings
      PROVE  [image EXCEPT !.zerobss = no, !.last = n, !.firsttime = yes, !.setting = set]
               \in Image
  BY DEF Image
<1>2. 0 \in Settings /\ 0 \in Int /\ FALSE \in BOOLEAN /\ TRUE \in BOOLEAN
  BY RelocationAssumption
<1>3. QED BY <1>1, <1>2, Zenon

-----------------------------------------------------------------------------
LEMMA InitEstablishesIInv ==
  ASSUME Init
  PROVE  IInv
<1>1. base \in Bases /\ NoAddr \in Int /\ 0 \in Settings
  BY RelocationAssumption DEF Init, Bases, NoAddr
<1>2. Linked \in Image
  BY <1>1, JunkIsImage, RelocationAssumption DEF Linked, Junk, Image
<1>3. Running = Linked /\ mem \in [Bases -> Image]
  BY <1>1, <1>2, JunkIsImage DEF Init, Running
<1>4. TypeOK
  BY <1>1, <1>3, BasesPositive, RelocationAssumption DEF Init, TypeOK
<1>5. /\ Running.word = Addend /\ Running.dynamic = Pointers /\ Running.zerobss
      /\ Running.runAtAddr = NoAddr
  BY <1>3 DEF Linked, Junk
<1>6. WordsAdjusted
  BY <1>5 DEF Init, WordsAdjusted, AdjustedTo, LastAddr, Resolved
<1>7. PointersAdjusted
  BY <1>5, RelocationAssumption DEF PointersAdjusted, LastAddr
<1>8. Started /\ VariablesMove /\ OnItsWay /\ NeverLost
  BY <1>5 DEF Init, Started, VariablesMove, OnItsWay, NeverLost
<1>9. QED BY <1>4, <1>6, <1>7, <1>8 DEF IInv

-----------------------------------------------------------------------------
(* Each step keeps it: first those of a copy that starts ...                   *)
LEMMA StartupKeepsIInv ==
  ASSUME IInv, Startup
  PROVE  IInv'
<1> DEFINE cleared == ZeroBss(mem[base])
           image == SetVectors(cleared)
<1>1. /\ base \in Bases /\ base \in Int /\ mem \in [Bases -> Image] /\ mem[base] \in Image
      /\ 0 \in Settings
  BY BasesPositive, RelocationAssumption DEF IInv, TypeOK
<1>2. /\ image \in Image /\ ~ image.zerobss /\ image.vectors = base
      /\ image.word = Running.word /\ image.dynamic = Running.dynamic
      /\ image.last = LastAddr
      /\ image.runAtAddr = Running.runAtAddr
      /\ image.firsttime <=> (Running.zerobss \/ Running.firsttime)
      /\ image.setting = IF Running.zerobss THEN 0 ELSE Running.setting
  <2>1. /\ cleared \in Image /\ ~ cleared.zerobss
        /\ cleared.word = mem[base].word /\ cleared.dynamic = mem[base].dynamic
        /\ cleared.last = IF mem[base].zerobss THEN 0 ELSE mem[base].last
        /\ cleared.runAtAddr = mem[base].runAtAddr
        /\ cleared.firsttime <=> (mem[base].zerobss \/ mem[base].firsttime)
        /\ cleared.setting = IF mem[base].zerobss THEN 0 ELSE mem[base].setting
    <3>1. CASE mem[base].zerobss
      <4>1. cleared = [mem[base] EXCEPT !.zerobss = FALSE, !.last = 0,
                                        !.firsttime = TRUE, !.setting = 0]
        BY <3>1 DEF ZeroBss
      <4> HIDE DEF cleared
      <4>2. cleared \in Image
        BY <1>1, <4>1, BssClears
      <4>3. /\ cleared.zerobss = FALSE /\ cleared.last = 0
            /\ cleared.firsttime = TRUE /\ cleared.setting = 0
            /\ cleared.word = mem[base].word /\ cleared.dynamic = mem[base].dynamic
            /\ cleared.runAtAddr = mem[base].runAtAddr
        BY <1>1, <4>1 DEF Image
      <4>4. QED BY <3>1, <4>2, <4>3
    <3>2. CASE ~ mem[base].zerobss
      BY <1>1, <3>2 DEF ZeroBss, Image
    <3>3. QED BY <3>1, <3>2
  <2>2. image = [cleared EXCEPT !.vectors = base]
    BY DEF SetVectors
  <2> HIDE DEF cleared, image
  <2>3. /\ image \in Image /\ image.vectors = base
        /\ image.zerobss = cleared.zerobss
        /\ image.word = cleared.word /\ image.dynamic = cleared.dynamic
        /\ image.last = cleared.last /\ image.runAtAddr = cleared.runAtAddr
        /\ image.firsttime = cleared.firsttime /\ image.setting = cleared.setting
    BY <1>1, <2>1, <2>2 DEF Image
  <2>4. QED BY <2>1, <2>3 DEF Running, LastAddr
<1>3. /\ mem' = [mem EXCEPT ![base] = image] /\ base' = base /\ idtr' = base
      /\ pc' = "dl_start" /\ pc = "startup"
      /\ UNCHANGED <<entry, llAddr, moves, variables, target>>
  BY DEF Startup
<1>4. mem' \in [Bases -> Image] /\ Running' = image
  BY <1>1, <1>2, <1>3 DEF Running
<1>5. TypeOK'
  BY <1>1, <1>3, <1>4 DEF IInv, TypeOK
<1>6. LastAddr' = LastAddr
  BY <1>2, <1>4 DEF LastAddr
<1>7. WordsAdjusted'
  BY <1>2, <1>3, <1>4, <1>6 DEF IInv, WordsAdjusted, AdjustedTo
<1>8. PointersAdjusted'
  BY <1>2, <1>4, <1>6 DEF IInv, PointersAdjusted
<1>9. Started' /\ VariablesMove' /\ NeverLost'
  BY <1>2, <1>3, <1>4 DEF IInv, Started, VariablesMove, NeverLost
<1>10. OnItsWay'
  BY <1>2, <1>3, <1>4 DEF IInv, OnItsWay
<1>11. QED BY <1>5, <1>7, <1>8, <1>9, <1>10 DEF IInv

LEMMA DlStartKeepsIInv ==
  ASSUME IInv, DlStart
  PROVE  IInv'
<1> DEFINE image == [mem[base] EXCEPT !.last = base,
                       !.dynamic = GetDynamicInfo(mem[base].dynamic, base - mem[base].last)]
<1>1. /\ base \in Bases /\ base \in Int /\ mem \in [Bases -> Image] /\ mem[base] \in Image
      /\ pc = "dl_start" /\ ~ mem[base].zerobss /\ LastAddr = mem[base].last
      /\ mem[base].last \in Int
  BY BasesPositive DEF IInv, TypeOK, DlStart, Started, Running, LastAddr, Image
<1>2. \A d \in DOMAIN Pointers :
        /\ mem[base].dynamic[d] = Pointers[d] + LastAddr
        /\ Pointers[d] \in Int
  BY RelocationAssumption DEF IInv, PointersAdjusted, Running
<1>3. /\ GetDynamicInfo(mem[base].dynamic, base - mem[base].last)
           \in [DOMAIN Pointers -> Int]
      /\ \A d \in DOMAIN Pointers :
           GetDynamicInfo(mem[base].dynamic, base - mem[base].last)[d] = Pointers[d] + base
  BY <1>1, <1>2 DEF GetDynamicInfo
<1>4. /\ image \in Image /\ image.last = base
      /\ image.dynamic = GetDynamicInfo(mem[base].dynamic, base - mem[base].last)
      /\ image.word = mem[base].word /\ image.zerobss = mem[base].zerobss
      /\ image.vectors = mem[base].vectors /\ image.setting = mem[base].setting
      /\ image.runAtAddr = mem[base].runAtAddr /\ image.firsttime = mem[base].firsttime
  BY <1>1, <1>3 DEF Image
<1>5. /\ mem' = [mem EXCEPT ![base] = image] /\ base' = base /\ idtr' = idtr
      /\ pc' = "relocate" /\ entry' = 1 /\ llAddr' = mem[base].last
      /\ UNCHANGED <<moves, variables, target>>
  <2>1. mem' = [mem EXCEPT ![base] = image]
    BY <1>1 DEF DlStart, Running
  <2>2. QED BY <2>1 DEF DlStart, Running
<1>6. mem' \in [Bases -> Image] /\ Running' = image
  BY <1>1, <1>4, <1>5 DEF Running
<1>7. TypeOK'
  BY <1>1, <1>5, <1>6, RelocationAssumption DEF IInv, TypeOK
<1>8. \A i \in 1 .. Entries : AdjustedTo(i) = LastAddr /\ AdjustedTo(i)' = LastAddr
  BY <1>1, <1>5 DEF AdjustedTo
<1>9. WordsAdjusted'
  BY <1>4, <1>6, <1>8 DEF IInv, WordsAdjusted, Running
<1>10. PointersAdjusted'
  BY <1>1, <1>3, <1>4, <1>6 DEF PointersAdjusted, LastAddr
<1>11. Started' /\ VariablesMove' /\ NeverLost' /\ OnItsWay'
  BY <1>1, <1>4, <1>5, <1>6 DEF IInv, Started, VariablesMove, NeverLost, OnItsWay, Running
<1>12. QED BY <1>7, <1>9, <1>10, <1>11 DEF IInv

LEMMA DoRelKeepsIInv ==
  ASSUME IInv, DoRel
  PROVE  IInv'
<1> DEFINE word == [mem[base].word EXCEPT
                      ![entry] = MachineRel(entry, mem[base].word[entry], llAddr, base)]
           image == [mem[base] EXCEPT !.word = word]
<1>1. /\ base \in Bases /\ base \in Int /\ mem \in [Bases -> Image] /\ mem[base] \in Image
      /\ entry \in 1 .. Entries /\ llAddr \in Int /\ pc = "relocate" /\ Entries \in Nat
      /\ mem[base].word \in [1 .. Entries -> Int]
  <2>1. /\ base \in Bases /\ base \in Int /\ mem \in [Bases -> Image]
        /\ entry \in 1 .. Entries + 1 /\ llAddr \in Int /\ pc = "relocate" /\ Entries \in Nat
        /\ entry <= Entries
    BY BasesPositive, RelocationAssumption DEF IInv, TypeOK, DoRel
  <2>2. mem[base] \in Image /\ entry \in 1 .. Entries
    BY <2>1
  <2>3. QED BY <2>1, <2>2 DEF Image
<1>2. mem[base].word[entry] = Resolved(entry, llAddr)
  BY <1>1 DEF IInv, WordsAdjusted, AdjustedTo, Running
<1>3. MachineRel(entry, mem[base].word[entry], llAddr, base) = Resolved(entry, base)
  BY <1>1, <1>2, MachineRelMoves
<1>4. Resolved(entry, base) \in Int
  BY <1>1, ResolvedIsInt
<1>5. word \in [1 .. Entries -> Int] /\ word[entry] = Resolved(entry, base)
      /\ \A i \in 1 .. Entries : i # entry => word[i] = mem[base].word[i]
  BY <1>1, <1>3, <1>4
<1>6. /\ image \in Image /\ image.last = mem[base].last
      /\ image.dynamic = mem[base].dynamic
      /\ image.word = word /\ image.zerobss = mem[base].zerobss
      /\ image.vectors = mem[base].vectors /\ image.setting = mem[base].setting
      /\ image.runAtAddr = mem[base].runAtAddr /\ image.firsttime = mem[base].firsttime
  BY <1>1, <1>5 DEF Image
<1>7. /\ mem' = [mem EXCEPT ![base] = image] /\ entry' = entry + 1
      /\ UNCHANGED <<pc, base, llAddr, idtr, moves, variables, target>>
  BY DEF DoRel
<1>8. mem' \in [Bases -> Image] /\ Running' = image
  BY <1>1, <1>6, <1>7 DEF Running
<1>9. TypeOK'
  BY <1>1, <1>7, <1>8 DEF IInv, TypeOK
<1>10. WordsAdjusted'
  <2> SUFFICES ASSUME NEW i \in 1 .. Entries
               PROVE  Running'.word[i] = Resolved(i, AdjustedTo(i)')
    BY DEF WordsAdjusted
  <2>1. AdjustedTo(i) = (IF i < entry THEN base ELSE llAddr)
        /\ AdjustedTo(i)' = (IF i < entry + 1 THEN base ELSE llAddr)
    BY <1>1, <1>7 DEF AdjustedTo
  <2>2. mem[base].word[i] = Resolved(i, AdjustedTo(i))
    BY DEF IInv, WordsAdjusted, Running
  <2>3. CASE i = entry
    BY <1>1, <1>5, <1>6, <1>8, <2>1, <2>3
  <2>4. CASE i # entry
    <3>1. AdjustedTo(i)' = AdjustedTo(i)
      BY <1>1, <2>1, <2>4
    <3>2. Running'.word[i] = mem[base].word[i]
      BY <1>5, <1>6, <1>8, <2>4
    <3>3. QED BY <2>2, <3>1, <3>2
  <2>5. QED BY <2>3, <2>4
<1>11. PointersAdjusted'
  BY <1>6, <1>8 DEF IInv, PointersAdjusted, LastAddr, Running
<1>12. Started' /\ VariablesMove' /\ NeverLost' /\ OnItsWay'
  BY <1>6, <1>7, <1>8 DEF IInv, Started, VariablesMove, NeverLost, OnItsWay, Running
<1>13. QED BY <1>9, <1>10, <1>11, <1>12 DEF IInv

LEMMA DlDoneKeepsIInv ==
  ASSUME IInv, DlDone
  PROVE  IInv'
<1>1. /\ pc = "relocate" /\ pc' = "do_test" /\ entry > Entries /\ Running' = Running
      /\ UNCHANGED <<base, mem, entry, llAddr, idtr, moves, variables, target>>
  BY DEF DlDone, Running
<1>2. TypeOK' BY <1>1 DEF IInv, TypeOK
<1>3. LastAddr = base /\ LastAddr' = base
  BY <1>1 DEF IInv, Started, LastAddr
<1>4. \A i \in 1 .. Entries : AdjustedTo(i) = base /\ AdjustedTo(i)' = base
  BY <1>1, <1>3, RelocationAssumption DEF AdjustedTo, IInv, TypeOK
<1>5. WordsAdjusted' BY <1>1, <1>4 DEF IInv, WordsAdjusted
<1>6. PointersAdjusted' BY <1>1, <1>3 DEF IInv, PointersAdjusted
<1>7. Started' /\ VariablesMove' /\ NeverLost' /\ OnItsWay'
  BY <1>1 DEF IInv, Started, VariablesMove, NeverLost, OnItsWay
<1>8. QED BY <1>2, <1>5, <1>6, <1>7 DEF IInv

-----------------------------------------------------------------------------
(* ... then the copies.  One that goes clear of the running image arrives as   *)
(* it left, relocated for where it came from.                                  *)
LEMMA CopyArrives ==
  ASSUME IInv, pc \in {"do_test", "run"},
         NEW addr \in Bases, NEW image \in Image,
         image.word = Running.word, image.dynamic = Running.dynamic,
         image.zerobss = Running.zerobss, image.last = Running.last,
         ~ Overlap(base, addr), CopyAndRun(addr, image)
  PROVE  /\ mem' \in [Bases -> Image] /\ Running' = image
         /\ base' = addr /\ pc' = "startup"
         /\ UNCHANGED <<entry, llAddr, idtr>>
         /\ WordsAdjusted' /\ PointersAdjusted' /\ Started' /\ NeverLost'
<1>1. base \in Bases /\ mem \in [Bases -> Image]
  BY DEF IInv, TypeOK
<1>2. /\ base' = addr /\ pc' = "startup" /\ UNCHANGED <<entry, llAddr, idtr>>
  BY DEF CopyAndRun
<1>3. mem' \in [Bases -> Image] /\ mem'[addr] = image
  BY <1>1, JunkIsImage DEF CopyAndRun
<1>4. Running' = image
  BY <1>2, <1>3 DEF Running
<1>5. LastAddr' = LastAddr
  BY <1>4 DEF LastAddr
<1>6. \A i \in 1 .. Entries : AdjustedTo(i) = LastAddr /\ AdjustedTo(i)' = LastAddr'
  BY <1>2 DEF AdjustedTo
<1>7. WordsAdjusted'
  BY <1>4, <1>5, <1>6 DEF IInv, WordsAdjusted
<1>8. PointersAdjusted'
  BY <1>4, <1>5 DEF IInv, PointersAdjusted
<1>9. Started' /\ NeverLost'
  BY <1>2 DEF Started, NeverLost
<1>10. QED BY <1>2, <1>3, <1>4, <1>7, <1>8, <1>9

(* run_at() never copies onto the running image, and leaves for its target or  *)
(* for high_test_adr.                                                          *)
LEMMA RunAtArrives ==
  ASSUME IInv, pc \in {"do_test", "run"},
         NEW addr \in {Low, High}, NEW image \in Image,
         image.word = Running.word, image.dynamic = Running.dynamic,
         image.zerobss = Running.zerobss, image.last = Running.last,
         RunAt(addr, image)
  PROVE  /\ mem' \in [Bases -> Image]
         /\ Running' = [image EXCEPT !.runAtAddr = addr]
         /\ base' \in {addr, High} /\ base' \in Bases /\ pc' = "startup"
         /\ UNCHANGED <<entry, llAddr, idtr>>
         /\ WordsAdjusted' /\ PointersAdjusted' /\ Started' /\ NeverLost'
<1> DEFINE hop == IF Overlap(base, addr) /\ addr + Size < High THEN High ELSE addr
           sent == [image EXCEPT !.runAtAddr = addr]
<1>1. base \in Bases /\ addr \in Bases /\ addr \in Int /\ High \in Bases
  BY BasesPositive DEF IInv, TypeOK
<1>2. /\ sent \in Image /\ sent.word = image.word /\ sent.dynamic = image.dynamic
      /\ sent.zerobss = image.zerobss /\ sent.last = image.last
  BY <1>1 DEF Image
<1>3. hop \in Bases /\ hop \in {addr, High} /\ ~ Overlap(base, hop)
  <2>1. CASE hop = High
    BY <1>1, <2>1, HighIsClear
  <2>2. CASE hop # High
    <3>1. hop = addr /\ ~ (Overlap(base, addr) /\ addr + Size < High)
      BY <2>2
    <3>2. addr = Low
      BY <2>2, <3>1
    <3>3. Low + Size < High
      BY RelocationAssumption
    <3>4. QED BY <1>1, <3>1, <3>2, <3>3
  <2>3. QED BY <2>1, <2>2
<1>4. CopyAndRun(hop, sent)
  BY DEF RunAt
<1> HIDE DEF hop, sent
<1>5. /\ mem' \in [Bases -> Image] /\ Running' = sent
      /\ base' = hop /\ pc' = "startup"
      /\ UNCHANGED <<entry, llAddr, idtr>>
      /\ WordsAdjusted' /\ PointersAdjusted' /\ Started' /\ NeverLost'
  BY <1>2, <1>3, <1>4, CopyArrives
<1>6. QED BY <1>3, <1>5 DEF sent

(* An image that runs was set up.                                              *)
LEMMA RunningImage ==
  ASSUME IInv, pc \in {"do_test", "run"}
  PROVE  /\ base \in Bases /\ mem \in [Bases -> Image] /\ Running \in Image
         /\ ~ Running.zerobss /\ Running.last = base
         /\ idtr = base /\ Running.vectors = base
         /\ Running.setting = variables
  BY DEF IInv, TypeOK, Running, Started, VariablesMove

LEMMA RestartKeepsIInv ==
  ASSUME IInv, pc \in {"do_test", "run"}, Restart, moves' \in Nat
  PROVE  IInv'
<1> DEFINE image == [Running EXCEPT !.firsttime = TRUE, !.setting = 0]
<1>1. Running \in Image /\ ~ Running.zerobss
  BY RunningImage
<1>2. ASSUME NEW yes \in BOOLEAN, NEW set \in Settings
      PROVE  [Running EXCEPT !.firsttime = yes, !.setting = set] \in Image
  BY <1>1 DEF Image
<1>3. 0 \in Settings /\ TRUE \in BOOLEAN BY RelocationAssumption
<1>4. image \in Image BY <1>2, <1>3, Zenon
<1>5. /\ image.word = Running.word /\ image.dynamic = Running.dynamic
      /\ image.zerobss = Running.zerobss /\ image.last = Running.last
      /\ image.firsttime = TRUE /\ image.setting = 0
  BY <1>1 DEF Image
<1>6. RunAt(Low, image) /\ variables' = 0 /\ target' = Low
  BY DEF Restart
<1> HIDE DEF image
<1>7. /\ mem' \in [Bases -> Image]
      /\ Running' = [image EXCEPT !.runAtAddr = Low]
      /\ base' \in {Low, High} /\ base' \in Bases /\ pc' = "startup"
      /\ UNCHANGED <<entry, llAddr, idtr>>
      /\ WordsAdjusted' /\ PointersAdjusted' /\ Started' /\ NeverLost'
  BY <1>4, <1>5, <1>6, RunAtArrives
<1>8. /\ Running'.zerobss = image.zerobss /\ Running'.setting = 0
      /\ Running'.runAtAddr = Low
  BY <1>4, <1>5, <1>7 DEF Image
<1>9. TypeOK'
  BY <1>3, <1>6, <1>7 DEF IInv, TypeOK
<1>10. VariablesMove'
  BY <1>1, <1>5, <1>6, <1>8 DEF VariablesMove
<1>11. OnItsWay'
  BY <1>6, <1>7, <1>8 DEF OnItsWay
<1>12. QED BY <1>7, <1>9, <1>10, <1>11 DEF IInv

LEMMA FinishMoveKeepsIInv ==
  ASSUME IInv, FinishMove
  PROVE  IInv'
<1>1. /\ pc = "do_test" /\ Running.runAtAddr \notin {NoAddr, base}
      /\ CopyAndRun(Running.runAtAddr, Running)
      /\ UNCHANGED <<moves, variables, target>>
  BY DEF FinishMove
<1>2. Running.runAtAddr = target /\ base = High /\ target = Low
  BY <1>1 DEF IInv, OnItsWay, TypeOK
<1>3. Running \in Image /\ ~ Running.zerobss
  BY <1>1, RunningImage
<1>4. /\ mem' \in [Bases -> Image] /\ Running' = Running
      /\ base' = Low /\ pc' = "startup"
      /\ UNCHANGED <<entry, llAddr, idtr>>
      /\ WordsAdjusted' /\ PointersAdjusted' /\ Started' /\ NeverLost'
  BY <1>1, <1>2, <1>3, BasesPositive, HighIsClear, CopyArrives
<1>5. TypeOK'
  BY <1>1, <1>4, BasesPositive DEF IInv, TypeOK
<1>6. VariablesMove' /\ OnItsWay'
  BY <1>1, <1>2, <1>4 DEF IInv, VariablesMove, OnItsWay
<1>7. QED BY <1>4, <1>5, <1>6 DEF IInv

LEMMA GoHomeKeepsIInv ==
  ASSUME IInv, GoHome
  PROVE  IInv'
BY RestartKeepsIInv DEF GoHome, IInv, TypeOK

LEMMA GoOnKeepsIInv ==
  ASSUME IInv, GoOn
  PROVE  IInv'
<1> DEFINE image == [mem[base] EXCEPT !.runAtAddr = NoAddr, !.firsttime = FALSE]
<1>1. /\ pc = "do_test" /\ pc' = "run" /\ Running.runAtAddr \in {NoAddr, base}
      /\ ~ (Running.firsttime /\ base # Low)
      /\ mem' = [mem EXCEPT ![base] = image]
      /\ UNCHANGED <<base, entry, llAddr, idtr, moves, variables, target>>
  BY DEF GoOn
<1>2. /\ base \in Bases /\ mem \in [Bases -> Image] /\ mem[base] \in Image
      /\ Running = mem[base] /\ ~ Running.zerobss
  BY <1>1, RunningImage DEF Running
<1>3. ASSUME NEW no \in BOOLEAN, NEW a \in Int
      PROVE  [mem[base] EXCEPT !.runAtAddr = a, !.firsttime = no] \in Image
  BY <1>2 DEF Image
<1>4. NoAddr \in Int /\ FALSE \in BOOLEAN BY DEF NoAddr
<1>5. image \in Image BY <1>3, <1>4, Zenon
<1>6. /\ image.word = Running.word /\ image.dynamic = Running.dynamic
      /\ image.zerobss = Running.zerobss /\ image.last = Running.last
      /\ image.vectors = Running.vectors /\ image.setting = Running.setting
      /\ image.runAtAddr = NoAddr /\ image.firsttime = FALSE
  BY <1>2 DEF Image
<1> HIDE DEF image
<1>7. mem' \in [Bases -> Image] /\ Running' = image
  BY <1>1, <1>2, <1>5 DEF Running
<1>8. TypeOK'
  BY <1>1, <1>7 DEF IInv, TypeOK
<1>9. LastAddr' = LastAddr
  BY <1>6, <1>7 DEF LastAddr
<1>10. WordsAdjusted' /\ PointersAdjusted'
  BY <1>1, <1>6, <1>7, <1>9 DEF IInv, WordsAdjusted, PointersAdjusted, AdjustedTo
<1>11. Started' /\ VariablesMove' /\ NeverLost'
  BY <1>1, <1>2, <1>6, <1>7 DEF IInv, Started, VariablesMove, NeverLost
<1>12. base = target
  BY <1>1, <1>2, BasesPositive DEF IInv, OnItsWay, TypeOK
<1>13. OnItsWay'
  BY <1>1, <1>2, <1>6, <1>7, <1>12 DEF OnItsWay
<1>14. QED BY <1>8, <1>10, <1>11, <1>13 DEF IInv

(* The program at work, whatever becomes of the rest of memory.                *)
LEMMA WorkKeepsIInv ==
  ASSUME IInv, Work
  PROVE  IInv'
<1>1. /\ pc = "run"
      /\ UNCHANGED <<pc, base, entry, llAddr, idtr, moves, target>>
  BY DEF Work
<1>2. PICK s \in Settings :
        /\ mem' = [b \in Bases |-> IF b = base THEN [mem[b] EXCEPT !.setting = s]
                                   ELSE Junk]
        /\ variables' = s
  BY DEF Work
<1> DEFINE image == [mem[base] EXCEPT !.setting = s]
<1>3. /\ base \in Bases /\ mem \in [Bases -> Image] /\ mem[base] \in Image
      /\ Running = mem[base] /\ ~ Running.zerobss
  BY <1>1, RunningImage DEF Running
<1>4. /\ image \in Image
      /\ image.word = Running.word /\ image.dynamic = Running.dynamic
      /\ image.zerobss = Running.zerobss /\ image.last = Running.last
      /\ image.vectors = Running.vectors /\ image.setting = s
      /\ image.runAtAddr = Running.runAtAddr /\ image.firsttime = Running.firsttime
  BY <1>3 DEF Image
<1>5. mem' \in [Bases -> Image] /\ Running' = image
  BY <1>1, <1>2, <1>3, <1>4, JunkIsImage DEF Running
<1> HIDE DEF image
<1>6. TypeOK'
  BY <1>1, <1>2, <1>5 DEF IInv, TypeOK
<1>7. LastAddr' = LastAddr
  BY <1>4, <1>5 DEF LastAddr
<1>8. WordsAdjusted' /\ PointersAdjusted'
  BY <1>1, <1>4, <1>5, <1>7 DEF IInv, WordsAdjusted, PointersAdjusted, AdjustedTo
<1>9. Started' /\ VariablesMove' /\ NeverLost' /\ OnItsWay'
  BY <1>1, <1>2, <1>3, <1>4, <1>5
     DEF IInv, Started, VariablesMove, NeverLost, OnItsWay
<1>10. QED BY <1>6, <1>8, <1>9 DEF IInv

LEMMA MoveKeepsIInv ==
  ASSUME IInv, Move
  PROVE  IInv'
<1>1. pc = "run" /\ moves' = moves + 1 /\ moves' \in Nat
  BY DEF Move, IInv, TypeOK
<1>2. CASE Restart
  BY <1>1, <1>2, RestartKeepsIInv
<1>3. ASSUME NEW addr \in {Low, High}, RunAt(addr, Running), target' = addr,
             UNCHANGED variables
      PROVE  IInv'
  <2>1. /\ Running \in Image /\ ~ Running.zerobss /\ ~ Running.firsttime
        /\ Running.setting = variables
    BY <1>1, RunningImage DEF IInv, OnItsWay
  <2>2. /\ mem' \in [Bases -> Image]
        /\ Running' = [Running EXCEPT !.runAtAddr = addr]
        /\ base' \in {addr, High} /\ base' \in Bases /\ pc' = "startup"
        /\ UNCHANGED <<entry, llAddr, idtr>>
        /\ WordsAdjusted' /\ PointersAdjusted' /\ Started' /\ NeverLost'
    BY <1>1, <1>3, <2>1, RunAtArrives
  <2>3. /\ Running'.zerobss = Running.zerobss /\ Running'.setting = Running.setting
        /\ Running'.firsttime = Running.firsttime /\ Running'.runAtAddr = addr
    BY <2>1, <2>2 DEF Image
  <2>4. TypeOK'
    BY <1>1, <1>3, <2>2 DEF IInv, TypeOK
  <2>5. VariablesMove'
    BY <1>3, <2>1, <2>3 DEF VariablesMove
  <2>6. OnItsWay'
    BY <1>3, <2>1, <2>2, <2>3 DEF OnItsWay
  <2>7. QED BY <2>2, <2>4, <2>5, <2>6 DEF IInv
<1>4. QED BY <1>2, <1>3 DEF Move

-----------------------------------------------------------------------------
LEMMA NextKeepsIInv == IInv /\ [Next]_vars => IInv'
<1> SUFFICES ASSUME IInv, [Next]_vars
             PROVE  IInv'
  OBVIOUS
<1>1. CASE Startup BY <1>1, StartupKeepsIInv
<1>2. CASE DlStart BY <1>2, DlStartKeepsIInv
<1>3. CASE DoRel BY <1>3, DoRelKeepsIInv
<1>4. CASE DlDone BY <1>4, DlDoneKeepsIInv
<1>5. CASE FinishMove BY <1>5, FinishMoveKeepsIInv
<1>6. CASE GoHome BY <1>6, GoHomeKeepsIInv
<1>7. CASE GoOn BY <1>7, GoOnKeepsIInv
<1>8. CASE Work BY <1>8, WorkKeepsIInv
<1>9. CASE Move BY <1>9, MoveKeepsIInv
<1>10. CASE UNCHANGED vars
  BY <1>10 DEF vars, IInv, TypeOK, NeverLost, WordsAdjusted, PointersAdjusted, Started,
               VariablesMove, OnItsWay, LastAddr, AdjustedTo, Running
<1>11. QED
  BY <1>1, <1>2, <1>3, <1>4, <1>5, <1>6, <1>7, <1>8, <1>9, <1>10 DEF Next, Program

(* The invariant holds in every reachable state: what a copy of the program    *)
(* has been relocated for, where it is going and what it carries always agree. *)
THEOREM InductiveInvariant == Spec => []IInv
<1>1. Init => IInv BY InitEstablishesIInv
<1>2. IInv /\ [Next]_vars => IInv' BY NextKeepsIInv
<1>3. QED BY <1>1, <1>2, PTL DEF Spec

(* Every variable keeps its type; in particular the program only ever runs at  *)
(* LOW_TEST_ADR, high_test_adr or where it was loaded.                         *)
THEOREM TypeCorrect == Spec => []TypeOK
<1>1. IInv => TypeOK BY DEF IInv
<1>2. QED BY <1>1, InductiveInvariant, PTL

(* However often a copy is copied, each of its relocated words is what the     *)
(* linker's entry asks for at the address where it runs (reloc.c:65-120).      *)
THEOREM WordsAlwaysResolved == Spec => []WordsResolved
<1>1. IInv => WordsResolved
  <2> SUFFICES ASSUME IInv, pc \in {"do_test", "run"}, NEW i \in 1 .. Entries
               PROVE  Running.word[i] = Resolved(i, base)
    BY DEF WordsResolved
  <2>1. AdjustedTo(i) = base
    BY DEF IInv, Started, AdjustedTo, LastAddr
  <2>2. QED BY <2>1 DEF IInv, WordsAdjusted
<1>2. QED BY <1>1, InductiveInvariant, PTL

(* So are the pointers of the dynamic section, from before the entries are     *)
(* read through them (reloc.c:124-179).                                        *)
THEOREM PointersAlwaysResolved == Spec => []PointersResolved
<1>1. IInv => PointersResolved
  <2> SUFFICES ASSUME IInv, pc \in {"relocate", "do_test", "run"}, NEW d \in DOMAIN Pointers
               PROVE  Running.dynamic[d] = Pointers[d] + base
    BY DEF PointersResolved
  <2>1. LastAddr = base
    BY DEF IInv, Started, LastAddr
  <2>2. QED BY <2>1 DEF IInv, PointersAdjusted
<1>2. QED BY <1>1, InductiveInvariant, PTL

(* The variables travel with the image (head.S:90-101).                        *)
THEOREM VariablesTravel == Spec => []VariablesKept
<1>1. IInv => VariablesKept BY DEF IInv, Started, VariablesMove, VariablesKept
<1>2. QED BY <1>1, InductiveInvariant, PTL

(* No copy overwrites the code that copies (main.c:119-139).                   *)
THEOREM ProgramNeverLost == Spec => []NeverLost
<1>1. IInv => NeverLost BY DEF IInv
<1>2. QED BY <1>1, InductiveInvariant, PTL

(* A program that runs is where it was sent, a detour by way of high_test_adr  *)
(* included (main.c:189-200).                                                  *)
THEOREM ArrivesAtTarget == Spec => []AtTarget
<1>1. IInv => AtTarget BY DEF IInv, OnItsWay, AtTarget
<1>2. QED BY <1>1, InductiveInvariant, PTL

(* Exceptions are handled by the running copy (head.S:119-287).                *)
THEOREM VectorsFollow == Spec => []VectorsRight
<1>1. IInv => VectorsRight BY DEF IInv, Started, VectorsRight
<1>2. QED BY <1>1, InductiveInvariant, PTL
=============================================================================
