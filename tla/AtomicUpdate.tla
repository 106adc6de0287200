---------------------------- MODULE AtomicUpdate ----------------------------
(***************************************************************************)
(* What an update of an installation promises its users, whoever carries   *)
(* it out and whatever dies or raises on the way: update u leaves the      *)
(* whole of release u, or the installation exactly as it found it, or says *)
(* that it promises nothing.  What it has said stays true until the next   *)
(* update begins, and that one begins with the installation the last one   *)
(* has promised.                                                           *)
(***************************************************************************)
EXTENDS InstallTree

CONSTANT MaxUpdates  \* number of updates

VARIABLES
  update,  \* the latest update, 0 before the first
  phase,   \* how far it has come
  saved,   \* the installation it has found
  visible  \* the installation while it is promised, and Unknown otherwise

vars == <<update, phase, saved, visible>>

Releases == 0 .. MaxUpdates
Phase    == {"none", "running", "committed", "kept", "abandoned"}
Decided  == {"committed", "kept"}

Init ==
  /\ update = 0
  /\ phase = "none"
  /\ saved \in Tree(Releases)
  /\ visible = Unknown

Begin ==
  /\ update < MaxUpdates
  /\ update' = update + 1
  /\ phase' = "running"
  /\ saved' \in IF phase \in Decided THEN {visible} ELSE Tree(Releases)
  /\ visible' = Unknown

Commit ==
  /\ phase = "running"
  /\ phase' = "committed"
  /\ visible' = Whole(update)
  /\ UNCHANGED <<update, saved>>

Keep ==
  /\ phase = "running"
  /\ phase' = "kept"
  /\ visible' = saved
  /\ UNCHANGED <<update, saved>>

Abandon ==
  /\ phase = "running"
  /\ phase' = "abandoned"
  /\ UNCHANGED <<update, saved, visible>>

Next == Begin \/ Commit \/ Keep \/ Abandon

Spec == Init /\ [][Next]_vars
=============================================================================
