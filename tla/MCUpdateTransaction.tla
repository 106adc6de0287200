------------------------ MODULE MCUpdateTransaction ------------------------
(***************************************************************************)
(* UpdateTransaction for TLC: two updates of one installation, the second  *)
(* finding whatever the first has left.                                    *)
(***************************************************************************)
EXTENDS UpdateTransaction

AllFaults      == {"artifact", "roots", "io"}
ArtifactFaults == {"artifact"}
RootFaults     == {"roots"}
NoFaults       == {}
=============================================================================
