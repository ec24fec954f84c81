----------------------------- MODULE MCEccPoll ------------------------------
(* All memory controllers, with a few errors each.                           *)
EXTENDS EccPoll
=============================================================================
