----------------------------- MODULE InstallTree -----------------------------
(***************************************************************************)
(* A directory tree of an application as the updater sees it: absent, or   *)
(* holding the files of one release, all of them or only some.  The        *)
(* updater handles trees with shutil.rmtree and shutil.copytree alone.     *)
(* Neither is atomic, so each is two steps here, and whatever stops the    *)
(* program between them (a crash, an OSError) leaves the partial tree.     *)
(***************************************************************************)
EXTENDS Integers

NoRelease == -1

Absent     == [release |-> NoRelease, whole |-> FALSE]
Whole(r)   == [release |-> r, whole |-> TRUE]
Partial(r) == [release |-> r, whole |-> FALSE]

\* No tree at all: what an observer sees while nothing is promised.
Unknown == [release |-> NoRelease, whole |-> TRUE]

\* No tree either: files of several releases in one directory.
Mixture == Unknown

Tree(Releases) == {Absent} \cup [release : Releases, whole : BOOLEAN]

(* shutil.rmtree under way: some files gone, then all of them. *)
Shrink(tree) == IF tree.whole THEN Partial(tree.release) ELSE Absent

(* shutil.copytree(source, tree) under way: some files there, then all the *)
(* source has; the copy of a partial tree is as partial as its source.     *)
Grow(tree, source) == IF tree = Absent THEN Partial(source.release) ELSE source
=============================================================================
