---------------------------- MODULE MCRelocation ----------------------------
(* An entry of each type, with symbols in the image and undefined ones.  The  *)
(* image of 4 units is loaded at LOW_TEST_ADR, overlapping it from either side *)
(* or clear of it.                                                             *)
EXTENDS Relocation

MCLoadBases == {2, 5, 8, 12}
MCKind == <<"RELATIVE", "32", "32", "PC32", "PC32", "NONE", "GLOB_DAT", "JMP_SLOT">>
MCValue == <<0, 3, 40, 2, 50, 1, 6, 60>>
MCDefined == {1, 2, 4, 7}
MCOffset == <<0, 1, 2, 3, 4, 5, 6, 7>>
MCAddend == <<9, 1, 0, -4, -4, 13, 0, 0>>
MCPointers == [PLTGOT |-> 1, STRTAB |-> 2, SYMTAB |-> 3, REL |-> 4, JMPREL |-> 5]
=============================================================================
