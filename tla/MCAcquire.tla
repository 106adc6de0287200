------------------------------ MODULE MCAcquire ------------------------------
(***************************************************************************)
(* Acquire for TLC: two callers with policies of two releases, three       *)
(* calls, and archives of the older one that each fail one of the checks.  *)
(* The newer one is spelled in upper case, and can only be staged when its *)
(* artifact was there before.                                              *)
(***************************************************************************)
EXTENDS Acquire, TLC

CONSTANTS a, b, old, new

M(name, path, above, kind, safe, size) ==
  [name |-> name, path |-> path, above |-> above, kind |-> kind, safe |-> safe, size |-> size]

App  == M("App.exe", "app.exe", {Root}, "file", TRUE, 1)
Lib  == M("lib/x", "lib/x", {Root, "lib"}, "file", TRUE, 1)
Dir  == M("lib", "lib", {Root}, "dir", TRUE, 0)

TheReleases   == {old, new}
TheCallers    == {a, b}
ReleaseOf     == (a :> old) @@ (b :> new)
WithLowercase == {a}
GoodArchive   == <<Lib, Dir, App>>
AllArchives   ==
  { GoodArchive,
    <<Lib>>,                                                          \* no executable
    <<App, M("app.exe", "app.exe", {Root}, "file", TRUE, 1)>>,        \* one path, two names
    <<App, M("App.exe/x", "app.exe/x", {Root, "app.exe"}, "file", TRUE, 1)>>,
    <<M("App.exe/x", "app.exe/x", {Root, "app.exe"}, "file", TRUE, 1), App>>,
    <<App, M(".", Root, {}, "file", TRUE, 0)>>,                       \* the tree itself
    <<App, M("up", "up", {Root}, "file", FALSE, 1)>>,                 \* escapes the root
    <<App, M("link", "link", {Root}, "link", TRUE, 1)>>,
    <<App, M("big", "big", {Root}, "file", TRUE, 2)>>,
    <<App, Lib, M("empty", "empty", {Root}, "file", TRUE, 0)>> }      \* too many files
TheFound      == {File(old, 1, FALSE), File(new, 1, TRUE)}
TheArchives   == (old :> AllArchives) @@ (new :> {GoodArchive})
=============================================================================
