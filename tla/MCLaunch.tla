------------------------------- MODULE MCLaunch -------------------------------
(***************************************************************************)
(* Launch for TLC: an application that prints more than the pipe holds,    *)
(* the marker at any place of its output.                                  *)
(***************************************************************************)
EXTENDS Launch
=============================================================================
