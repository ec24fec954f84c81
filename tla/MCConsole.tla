----------------------------- MODULE MCConsole -----------------------------
(* The operator types on a keyboard, which is what parameters that are not    *)
(* understood leave, or on a serial line.                                     *)
EXTENDS Console

Given(n, baud, parity, bits) ==
  [ttyS |-> TRUE, tty |-> n, baud |-> baud, parity |-> parity, bits |-> bits]
MCCommandLines ==
  {<<Given(0, 38400, "x", 0), Given(0, 7, "", 0)>>,
   <<Given(1, 19200, "e", 7), Given(2, 57600, "", 0), Given(3, -1, "", 0),
     Given(0, 38400, "n", 9)>>}

(* Patterns, individual errors and the scroll lock; numbers; the other keys *)
MCSessions ==
  [serial \in BOOLEAN |->
    {[keys |-> {"c", "3", "4", IF serial THEN "^S" ELSE "SP"}, max |-> 7],
     [keys |-> {"c", "2", "4", "SP", IF serial THEN "^Q" ELSE "CR"}, max |-> 5],
     [keys |-> {"c", "1", "2", "3", "x", "k", IF serial THEN "DEL" ELSE "BS"},
      max |-> 6],
     [keys |-> {IF serial THEN "^C" ELSE "c", "5", "7", "8", "L", "ESC"}, max |-> 4]}]
=============================================================================
