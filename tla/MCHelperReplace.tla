--------------------------- MODULE MCHelperReplace ---------------------------
(***************************************************************************)
(* HelperReplace for TLC: two helper runs, the second on what the first    *)
(* has left.                                                               *)
(***************************************************************************)
EXTENDS HelperReplace

ErrorFaults == {"io"}
NoFaults    == {}
=============================================================================
