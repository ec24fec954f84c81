---------------------------- MODULE FaultyMemory ----------------------------
(***************************************************************************)
(* The memory under test: words that hold what was stored into them, but   *)
(* for at most one fault.  This is the hardware that the algorithms of     *)
(* test.c are written against; the faults are the classes that they are    *)
(* known for.                                                              *)
(*                                                                         *)
(* A word is the set of its 1 bits.  A fault is a record:                  *)
(*   none                                                                  *)
(*   stuck   bit `bit' of `word' is always `value'                         *)
(*   couple  when bit `bit' of `other' rises (or falls, if ~value), the    *)
(*           same bit of `word' flips                                      *)
(*   alias   `word' and `other' are the same cell                          *)
(*   line    the address line `word' is stuck at 0                         *)
(*   fade    bit `bit' of `word' becomes `value' if left alone for long    *)
(***************************************************************************)
EXTENDS Integers

NoFault == [kind |-> "none"]

(* The cell that the address lines select *)
Cell(fault, a) ==
  CASE fault.kind = "alias" /\ a = fault.word -> fault.other
    [] fault.kind = "line" /\ (a \div fault.word) % 2 = 1 -> a - fault.word
    [] OTHER -> a

Forced(w, fault) == IF fault.value THEN w \cup {fault.bit} ELSE w \ {fault.bit}

(* What a cell holds when w is written into it *)
Held(fault, cell, w) ==
  IF fault.kind = "stuck" /\ cell = fault.word THEN Forced(w, fault) ELSE w

Flips(fault, cell, old, new) ==
  /\ fault.kind = "couple" /\ cell = fault.other
  /\ (fault.bit \in old) # (fault.bit \in new)
  /\ (fault.bit \in new) = fault.value

Load(mem, fault, a) == mem[Cell(fault, a)]

Store(mem, fault, a, w) ==
  LET cell == Cell(fault, a)
      new  == [mem EXCEPT ![cell] = Held(fault, cell, w)]
  IN  IF Flips(fault, cell, mem[cell], w)
      THEN [new EXCEPT ![fault.word] =
              IF fault.bit \in @ THEN @ \ {fault.bit} ELSE @ \cup {fault.bit}]
      ELSE new

(* A long time without an access *)
Faded(mem, fault) ==
  IF fault.kind = "fade" THEN [mem EXCEPT ![fault.word] = Forced(@, fault)] ELSE mem
=============================================================================
