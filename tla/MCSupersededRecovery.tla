------------------------ MODULE MCSupersededRecovery ------------------------
(***************************************************************************)
(* SupersededRecovery for TLC: an update that a crash interrupts, another  *)
(* one after it, and recover() of the first.                               *)
(***************************************************************************)
EXTENDS SupersededRecovery

NoFaults == {}
=============================================================================
