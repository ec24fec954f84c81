------------------------------ MODULE BadRam ------------------------------
(***************************************************************************)
(* The BadRAM patterns of patn.c.  Each faulty address that the error log  *)
(* reports is put into one of a few adr/mask pairs; a pair stands for the  *)
(* addresses that equal adr on the bits of mask (README:193-198).          *)
(*                                                                         *)
(* An address is the set of the bits that are 1 in it.  The tail call of   *)
(* relocateiffree() is a loop: each turn of it is a step at pc "relocate", *)
(* and nothing else happens until it ends.                                 *)
(*                                                                         *)
(* An operator named Bad... is a plausible mistake in the definition that  *)
(* follows it; nothing refers to it.                                       *)
(***************************************************************************)
EXTENDS Integers, FiniteSets

CONSTANTS
  Width,      \* bits of an unsigned long
  Pow2,       \* the powers of two up to 2^Width
  MaxPatns,   \* BADRAM_MAXPATNS
  Faulty      \* addresses of longwords that may be reported

ASSUME WidthAssumption ==
  /\ Width \in Nat /\ Width >= 2
  /\ Pow2 \in [0 .. Width -> Nat \ {0}]
  /\ \A i \in 1 .. Width : Pow2[i] = Pow2[i - 1] + Pow2[i - 1]
  /\ \A i, j \in 0 .. Width : i < j => Pow2[i] < Pow2[j]

ASSUME InputAssumption ==
  /\ MaxPatns \in Nat \ {0}
  /\ Faulty \subseteq SUBSET (2 .. Width - 1)

VARIABLES
  patn,       \* v->patn
  numpatn,    \* v->numpatn
  pc,         \* "ready", or "relocate": in relocateiffree(idx)
  idx,        \* the argument of relocateiffree()
  \* History, read by properties only:
  faults,     \* addresses that insertaddress() was called with
  slipped     \* a pattern was merged with itself or with the last one

vars == <<patn, numpatn, pc, idx, faults, slipped>>

Bits == 0 .. Width - 1
Words == SUBSET Bits
DefaultMask == Bits \ {0, 1}     \* DEFAULT_MASK: a longword
Longwords == SUBSET DefaultMask  \* addresses of longwords
Indices == 0 .. MaxPatns - 1
Pair == [adr : Words, mask : Words]

(* The addresses a pair stands for. *)
Captures(p, a) == a \cap p.mask = p.adr \cap p.mask
Captured(pats, n) == {a \in Longwords : \E i \in 0 .. n - 1 : Captures(pats[i], a)}

-----------------------------------------------------------------------------
(* combine(): keep the bits that both masks keep and the addresses share. *)
CombineMask(adr1, mask1, adr2, mask2) ==
  {b \in mask1 \cap mask2 : b \in adr1 <=> b \in adr2}

Combine(p, q) ==
  LET mask == CombineMask(p.adr, p.mask, q.adr, q.mask)
  IN  [adr |-> (p.adr \cup q.adr) \cap mask, mask |-> mask]

(* addresses(): how many addresses a mask covers, modulo the word. *)
Addresses(mask) ==
  IF mask = {} THEN 0 ELSE Pow2[Cardinality(Bits \ mask)]

(* combicost(): how many more addresses p covers when combined with q. *)
CombiCost(p, q) ==
  LET before == Addresses(p.mask)
      after == Addresses(Combine(p, q).mask)
  IN  IF after >= before THEN after - before ELSE after - before + Pow2[Width]

(* cheapindex(): the cheapest of the first n patterns to extend by p, if it   *)
(* costs less than mincost; of equally cheap ones the last.                   *)
CheapIndex(pats, n, p, mincost) ==
  LET Cost(i) == CombiCost(pats[i], p)
      cheap == {i \in 0 .. n - 1 : Cost(i) < mincost}
  IN  IF cheap = {} THEN -1
      ELSE CHOOSE i \in cheap : \A j \in cheap :
             Cost(i) < Cost(j) \/ (Cost(i) = Cost(j) /\ i >= j)

(* relocateidx(): look for a pattern that takes in pattern i at no cost.      *)
(* Pattern i itself is disguised as its complement.                           *)
RelocateIdx(i) ==
  CheapIndex([patn EXCEPT ![i].adr = Bits \ @], numpatn, patn[i],
             1 + Addresses(patn[i].mask))

NewPair(adr) == [adr |-> adr, mask |-> DefaultMask]

-----------------------------------------------------------------------------
(* init() empties the array; what is beyond numpatn stays in it. *)
Init ==
  /\ patn = [i \in Indices |-> [adr |-> {}, mask |-> {}]]
  /\ numpatn = 0
  /\ pc = "ready" /\ idx = 0
  /\ faults = {} /\ slipped = FALSE

Clear ==
  /\ pc = "ready"
  /\ numpatn' = 0
  /\ faults' = {} /\ slipped' = FALSE
  /\ UNCHANGED <<patn, pc, idx>>

(* insertaddress() of an address that is covered already *)
InsertKnown(adr) ==
  /\ pc = "ready"
  /\ CheapIndex(patn, numpatn, NewPair(adr), 1) # -1
  /\ faults' = faults \cup {adr}
  /\ UNCHANGED <<patn, numpatn, pc, idx, slipped>>

(* ... while there is room for a pattern of its own *)
InsertNew(adr) ==
  /\ pc = "ready"
  /\ CheapIndex(patn, numpatn, NewPair(adr), 1) = -1
  /\ numpatn < MaxPatns
  /\ patn' = [patn EXCEPT ![numpatn] = NewPair(adr)]
  /\ numpatn' = numpatn + 1
  /\ pc' = "relocate" /\ idx' = numpatn
  /\ faults' = faults \cup {adr}
  /\ UNCHANGED slipped

(* ... when the array is full: the cheapest pattern is extended *)
Cheapest(adr) == CheapIndex(patn, numpatn, NewPair(adr), Pow2[Width] - 1)

BadInsertFull(adr) ==   \* the address takes the place of the pattern
  /\ pc = "ready"
  /\ CheapIndex(patn, numpatn, NewPair(adr), 1) = -1
  /\ numpatn >= MaxPatns
  /\ patn' = [patn EXCEPT ![Cheapest(adr)] = NewPair(adr)]
  /\ pc' = "relocate" /\ idx' = Cheapest(adr)
  /\ faults' = faults \cup {adr}
  /\ UNCHANGED <<numpatn, slipped>>

InsertFull(adr) ==
  /\ pc = "ready"
  /\ CheapIndex(patn, numpatn, NewPair(adr), 1) = -1
  /\ numpatn >= MaxPatns
  /\ patn' = [patn EXCEPT ![Cheapest(adr)] = Combine(@, NewPair(adr))]
  /\ pc' = "relocate" /\ idx' = Cheapest(adr)
  /\ faults' = faults \cup {adr}
  /\ UNCHANGED <<numpatn, slipped>>

(* relocateiffree(): merge pattern idx into another one, move the last        *)
(* pattern into its place and go on with the other one, wherever that is now. *)
BadRelocate ==   \* the last pattern is not moved
  /\ pc = "relocate"
  /\ RelocateIdx(idx) >= 0
  /\ patn' = [patn EXCEPT ![RelocateIdx(idx)] = Combine(@, patn[idx])]
  /\ numpatn' = numpatn - 1
  /\ idx' = RelocateIdx(idx)
  /\ slipped' = (slipped \/ idx' \in {idx, numpatn'})
  /\ UNCHANGED <<pc, faults>>

BadRelocateKeeps ==   \* the merged pattern stays in the array
  /\ pc = "relocate"
  /\ RelocateIdx(idx) >= 0
  /\ patn' = [patn EXCEPT ![RelocateIdx(idx)] = Combine(@, patn[idx])]
  /\ idx' = RelocateIdx(idx)
  /\ slipped' = (slipped \/ idx' = idx)
  /\ UNCHANGED <<numpatn, pc, faults>>

Relocate ==
  LET new == RelocateIdx(idx)
      last == numpatn - 1
      merged == [patn EXCEPT ![new] = Combine(@, patn[idx])]
  IN  /\ pc = "relocate"
      /\ new >= 0
      /\ patn' = IF idx < last THEN [merged EXCEPT ![idx] = merged[last]]
                               ELSE merged
      /\ numpatn' = last
      /\ idx' = new
      /\ slipped' = (slipped \/ new \in {idx, last})
      /\ UNCHANGED <<pc, faults>>

Settle ==
  /\ pc = "relocate"
  /\ RelocateIdx(idx) < 0
  /\ pc' = "ready"
  /\ UNCHANGED <<patn, numpatn, idx, faults, slipped>>

Insert(adr) == InsertKnown(adr) \/ InsertNew(adr) \/ InsertFull(adr)

Next == Clear \/ (\E adr \in Faulty : Insert(adr)) \/ Relocate \/ Settle

Spec == Init /\ [][Next]_vars
FairSpec == Spec /\ WF_vars(Relocate \/ Settle)

-----------------------------------------------------------------------------
(* Every variable has its type, and the index of relocateiffree() is one of  *)
(* the array, though not always one below numpatn.                           *)
TypeOK ==
  /\ patn \in [Indices -> Pair]
  /\ numpatn \in 0 .. MaxPatns
  /\ pc \in {"ready", "relocate"}
  /\ idx \in Indices
  /\ faults \subseteq Longwords
  /\ slipped \in BOOLEAN

(* Every fault is captured by a pattern, as long as no pattern was merged    *)
(* with itself or with the last one: combining, extending and moving         *)
(* patterns lose nothing (patn.c:39-46, 114-117).                            *)
CapturedUnlessSlipped == ~slipped => faults \subseteq Captured(patn, numpatn)

(* ... and no step uncovers an address that was covered, except when the     *)
(* patterns are cleared (init.c:239).                                        *)
NothingUncovered ==
  [][numpatn' # 0 /\ ~slipped' =>
       Captured(patn, numpatn) \subseteq Captured(patn, numpatn)']_vars

(* Relocation ends: each turn takes one pattern away (patn.c:105-120). *)
RelocationEnds == pc = "relocate" ~> pc = "ready"
=============================================================================
