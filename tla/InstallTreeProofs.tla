-------------------------- MODULE InstallTreeProofs --------------------------
(***************************************************************************)
(* What the steps of rmtree and copytree make of a tree.                   *)
(***************************************************************************)
EXTENDS InstallTree, TLAPS

(* One step of rmtree makes a tree of a tree. *)
LEMMA ShrinkTree ==
  ASSUME NEW R, NEW tree \in Tree(R)
  PROVE  Shrink(tree) \in Tree(R)
  BY DEF Tree, Shrink, Absent, Partial

(* So does one step of copytree. *)
LEMMA GrowTree ==
  ASSUME NEW R, NEW tree \in Tree(R), NEW source \in Tree(R)
  PROVE  Grow(tree, source) \in Tree(R)
<1>1. CASE source = Absent
  BY <1>1 DEF Tree, Grow, Absent, Partial
<1>2. CASE source \in [release : R, whole : BOOLEAN]
  BY <1>2 DEF Tree, Grow, Partial
<1> QED BY <1>1, <1>2 DEF Tree

(* A complete release is a tree. *)
LEMMA WholeTree ==
  ASSUME NEW R, NEW r \in R
  PROVE  Whole(r) \in Tree(R)
  BY DEF Tree, Whole

(* A removal is over after a second step at the latest, since a tree that  *)
(* remains is partial; so is a copy, since it has begun, and ends at once  *)
(* where there is something already.                                       *)
LEMMA TreeSteps ==
  ASSUME NEW R, NoRelease \notin R, NEW tree \in Tree(R), NEW source \in Tree(R)
  PROVE  /\ Shrink(tree) # Absent => tree.whole /\ ~Shrink(tree).whole
         /\ tree # Absent => Grow(tree, source) = source
         /\ tree = Absent /\ Grow(tree, source) # source => Grow(tree, source) # Absent
<1>1. CASE tree = Absent
  <2>1. source = Absent => Partial(source.release) = source
    BY DEF Absent, Partial
  <2>2. source.release # NoRelease => Partial(source.release) # Absent
    BY DEF Absent, Partial
  <2>3. source \in [release : R, whole : BOOLEAN] => source.release # NoRelease
    OBVIOUS
  <2> QED BY <1>1, <2>1, <2>2, <2>3 DEF Tree, Shrink, Grow, Absent
<1>2. CASE tree # Absent
  BY <1>2 DEF Tree, Shrink, Grow, Partial, Absent
<1> QED BY <1>1, <1>2

(* The step that a removal or a copy may need beyond the one it needs.     *)
More(condition) == IF condition THEN 1 ELSE 0
==============================================================================
