----------------------------- MODULE MCBadRam -----------------------------
(***************************************************************************)
(* Small words for BadRam: four bits tell longwords apart.        *)
(***************************************************************************)
EXTENDS BadRam

MCPow2 == [i \in 0 .. Width |-> 2 ^ i]

(* A square of neighbours and some that lie apart from them. *)
SomeLongwords == {{}, {2}, {3}, {2, 3}, {4}, {2, 4, 5}, {3, 5}}
=============================================================================
