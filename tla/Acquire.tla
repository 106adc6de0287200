------------------------------- MODULE Acquire -------------------------------
(***************************************************************************)
(* download_verified (downloader.py) and stage_verified_zip (staging.py):  *)
(* how a release comes from a server to a staged application tree.         *)
(*                                                                         *)
(* Several callers work on one artifact path and one staged destination,   *)
(* each with the policy of a release of its own and a temporary file or    *)
(* directory of its own beside them.  Nothing locks the two paths: what    *)
(* orders the callers is that a rename is atomic.  A caller may die, and   *)
(* any step may raise.                                                     *)
(***************************************************************************)
EXTENDS Integers, Sequences, FiniteSetsExt

CONSTANTS
  Callers,      \* processes that download and stage
  Releases,     \* releases they do it for
  Release,      \* the release each caller has a policy for
  Lowercase,    \* callers whose policy spells the digest in lower case
  Size,         \* artifact_size, in chunks of a read
  Found,        \* files that may be at the artifact path before
  Archives,     \* the archives each release may be published as
  Executable,   \* executable_relative
  MaxFiles, MaxExpanded,
  MaxCalls, MaxCrashes, MaxFaults

(* A member of an archive.  name: its canonical path; path: where it lies  *)
(* on disk, which names that differ in case may share; above: the          *)
(* directories it lies in; safe: _safe_member accepts it and it resolves   *)
(* to a place under the temporary tree.                                    *)
Member == [name : STRING, path : STRING, above : SUBSET STRING,
           kind : {"file", "dir", "link"}, safe : BOOLEAN, size : Nat]

Root == "."  \* the temporary tree itself, which a member called . names

ASSUME ArchivesAssumption == \A r \in Releases : Archives[r] \subseteq Seq(Member)

ASSUME ConstantsAssumption ==
  /\ Release \in [Callers -> Releases] /\ Lowercase \subseteq Callers
  /\ Found \subseteq [kind : {"file"}, release : Releases, bytes : 0 .. Size, genuine : BOOLEAN]
  /\ Size \in Nat /\ MaxFiles \in Nat /\ MaxExpanded \in Nat
  /\ MaxCalls \in Nat /\ MaxCrashes \in Nat /\ MaxFaults \in Nat

VARIABLES
  archive,   \* what each release is published as; never changes
  windows,   \* the callers run on Windows; never changes
  artifact,  \* the file at the artifact path
  staged,    \* the tree at the staged destination
  temp,      \* temp[c]: what the temporary path of c's latest call holds
  stream,    \* stream[c]: what the server sends c, and whether it matches
  pc,        \* pc[c]: the next step of c's call, "idle" when none runs
  intact,    \* history: callers whose verified artifact nobody has replaced
  calls, crashes, faults

vars == <<archive, windows, artifact, staged, temp, stream, pc, intact, calls, crashes, faults>>

(* A file is a prefix of a stream, a tree the first members of an archive. *)
Nothing       == [kind |-> "none"]
File(r, n, g) == [kind |-> "file", release |-> r, bytes |-> n, genuine |-> g]
Tree(f, n)    == [kind |-> "tree", source |-> f, members |-> n]
Genuine(r)    == File(r, Size, TRUE)
Files         == [kind : {"file"}, release : Releases, bytes : 0 .. Size, genuine : BOOLEAN]
Trees         == [kind : {"tree"}, source : Files \cup {Nothing}, members : Nat]
Streams       == {s \in [bytes : 0 .. Size + 1, genuine : BOOLEAN] : s.genuine => s.bytes = Size}

Downloading == {"mkstemp", "unlink", "open", "read", "compare", "rename", "discard"}
Staging     == {"verify", "check", "mkdtemp", "unzip", "member", "copy", "exe", "publish", "clean"}

-----------------------------------------------------------------------------
\* Of the first n members of archive a.
IsFile(m)      == m.kind = "file"
FilesOf(a, n)  == {i \in 1 .. n : IsFile(a[i])}
SizeOf(a, I)   == MapThenSumSet(LAMBDA i : a[i].size, I)
Count(a, n)    == Cardinality(FilesOf(a, n))
Expanded(a, n) == SizeOf(a, FilesOf(a, n))

\* Mutant: as many files as there may be are too many.
AdmissibleBelowLimit(a, i) ==
  /\ a[i].safe /\ a[i].kind # "link"
  /\ \A j \in 1 .. i - 1 : a[j].name # a[i].name
  /\ IsFile(a[i]) => Count(a, i) < MaxFiles /\ Expanded(a, i) <= MaxExpanded

\* The checks of the loop on member i, all but the last made before it is written.
Admissible(a, i) ==
  /\ a[i].safe /\ a[i].kind # "link"
  /\ \A j \in 1 .. i - 1 : a[j].name # a[i].name
  /\ IsFile(a[i]) => Count(a, i) <= MaxFiles /\ Expanded(a, i) <= MaxExpanded

(* Two members that no directory can hold together: one is a file, and the *)
(* other has the same place on disk or one below it.                       *)
Clash(m, n) ==
  \/ IsFile(m) /\ m.path \in {n.path} \cup n.above
  \/ IsFile(n) /\ n.path \in {m.path} \cup m.above

(* mkdir(parents=True, exist_ok=True) raises when a file is in the way,    *)
(* open("xb") also when a directory is.                                    *)
Creatable(a, i) ==
  /\ IsFile(a[i]) => a[i].path # Root
  /\ \A j \in 1 .. i - 1 : ~Clash(a[j], a[i])

Publications == {f \in [Releases -> UNION {Archives[r] : r \in Releases}] :
                   \A r \in Releases : f[r] \in Archives[r]}

HasExecutable(a) == \E i \in DOMAIN a : IsFile(a[i]) /\ a[i].path = Executable

-----------------------------------------------------------------------------
Init ==
  /\ archive \in Publications /\ windows \in BOOLEAN
  /\ artifact \in {Nothing} \cup Found
  /\ staged = Nothing
  /\ temp = [c \in Callers |-> Nothing]
  /\ stream = [c \in Callers |-> [bytes |-> 0, genuine |-> FALSE]]
  /\ pc = [c \in Callers |-> "idle"]
  /\ intact = {}
  /\ calls = 0 /\ crashes = 0 /\ faults = 0

Goto(c, step) == pc' = [pc EXCEPT ![c] = step]
Put(c, x)     == temp' = [temp EXCEPT ![c] = x]

(* Where an exception goes that the next step of c raises. *)
Handler(c) ==
  IF pc[c] \in {"open", "read", "compare", "rename"} THEN "discard"
  ELSE IF pc[c] \in {"unzip", "member", "copy", "exe", "publish"} THEN "clean"
  ELSE "idle"

\* What a call leaves alone.
Context == <<archive, windows, calls, crashes, faults>>
Paths   == <<artifact, staged, intact>>

Start(c, step) ==
  /\ pc[c] = "idle" /\ calls < MaxCalls
  /\ calls' = calls + 1
  /\ Goto(c, step)
  /\ Put(c, Nothing)
  /\ UNCHANGED <<archive, windows, Paths, crashes, faults>>

StartDownload(c) ==
  /\ Start(c, "mkstemp")
  /\ \E s \in Streams : stream' = [stream EXCEPT ![c] = s]

StartStaging(c) == Start(c, "verify") /\ UNCHANGED stream

(* mkstemp creates the file and leaves it open, and unlink gives its name  *)
(* up again: on Windows it cannot, and raises before the try block.        *)
TempName(c) ==
  /\ \/ pc[c] = "mkstemp" /\ Put(c, File(Release[c], 0, FALSE)) /\ Goto(c, "unlink")
     \/ pc[c] = "unlink" /\ ~windows /\ Put(c, Nothing) /\ Goto(c, "open")
     \/ pc[c] = "unlink" /\ windows /\ UNCHANGED temp /\ Goto(c, "idle")
  /\ UNCHANGED <<Paths, stream, Context>>

OpenStream(c) ==
  /\ pc[c] = "open"
  /\ Put(c, File(Release[c], 0, stream[c].genuine)) /\ Goto(c, "read")
  /\ UNCHANGED <<Paths, stream, Context>>

\* Mutant: the size is only compared at the end.
ReadWithoutLimit(c) ==
  /\ pc[c] = "read"
  /\ IF temp[c].bytes = stream[c].bytes THEN Goto(c, "compare") /\ UNCHANGED temp
     ELSE Goto(c, "read") /\ Put(c, [temp[c] EXCEPT !.bytes = @ + 1])
  /\ UNCHANGED <<Paths, stream, Context>>

(* A chunk is counted before it is written. *)
ReadChunk(c) ==
  /\ pc[c] = "read"
  /\ IF temp[c].bytes = stream[c].bytes THEN Goto(c, "compare") /\ UNCHANGED temp
     ELSE IF temp[c].bytes + 1 > Size THEN Goto(c, Handler(c)) /\ UNCHANGED temp
     ELSE Goto(c, "read") /\ Put(c, [temp[c] EXCEPT !.bytes = @ + 1])
  /\ UNCHANGED <<Paths, stream, Context>>

\* Mutant: a download that does not match is tried again, without an end.
CompareAndRetry(c) ==
  /\ pc[c] = "compare"
  /\ Goto(c, IF temp[c] = Genuine(Release[c]) /\ c \in Lowercase THEN "rename" ELSE "open")
  /\ UNCHANGED <<temp, Paths, stream, Context>>

(* The digest is compared as it is spelled. *)
Compare(c) ==
  /\ pc[c] = "compare"
  /\ Goto(c, IF temp[c] = Genuine(Release[c]) /\ c \in Lowercase THEN "rename" ELSE Handler(c))
  /\ UNCHANGED <<temp, Paths, stream, Context>>

Rename(c) ==
  /\ pc[c] = "rename"
  /\ artifact' = temp[c]
  /\ intact' = {}
  /\ Put(c, Nothing) /\ Goto(c, "idle")
  /\ UNCHANGED <<staged, stream, Context>>

\* Mutant: only a DownloadError is cleaned up after.
DiscardKeepsPart(c) ==
  /\ pc[c] \in {"discard", "clean"}
  /\ Goto(c, "idle")
  /\ IF pc[c] = "clean" THEN Put(c, Nothing) ELSE UNCHANGED temp
  /\ UNCHANGED <<Paths, stream, Context>>

(* except Exception: the temporary file or tree is removed, and the        *)
(* exception raised again.                                                 *)
Discard(c) ==
  /\ pc[c] \in {"discard", "clean"}
  /\ Put(c, Nothing) /\ Goto(c, "idle")
  /\ UNCHANGED <<Paths, stream, Context>>

-----------------------------------------------------------------------------
\* Mutant: an artifact of the right size passes.
VerifySize(c) ==
  /\ pc[c] = "verify"
  /\ IF artifact # Nothing
       THEN Goto(c, "check") /\ intact' = intact \cup {c}
       ELSE Goto(c, Handler(c)) /\ UNCHANGED intact
  /\ UNCHANGED <<artifact, staged, temp, stream, Context>>

(* verify_artifact; the digest is compared in any spelling. *)
VerifyArtifact(c) ==
  /\ pc[c] = "verify"
  /\ IF artifact = Genuine(Release[c])
       THEN Goto(c, "check") /\ intact' = intact \cup {c}
       ELSE Goto(c, Handler(c)) /\ UNCHANGED intact
  /\ UNCHANGED <<artifact, staged, temp, stream, Context>>

CheckDestination(c) ==
  /\ pc[c] = "check"
  /\ Goto(c, IF staged = Nothing THEN "mkdtemp" ELSE Handler(c))
  /\ UNCHANGED <<temp, Paths, stream, Context>>

(* The temporary tree is made, and the file that is the artifact by then   *)
(* is opened: a later rename does not change what is read.                 *)
MakeTemp(c) ==
  /\ \/ pc[c] = "mkdtemp" /\ Put(c, Tree(Nothing, 0)) /\ Goto(c, "unzip")
     \/ pc[c] = "unzip"   /\ Put(c, Tree(artifact, 0)) /\ Goto(c, "member")
  /\ UNCHANGED <<Paths, stream, Context>>

\* The archive c expands, and the member it is at.
Zip(c) == archive[temp[c].source.release]
At(c)  == temp[c].members + 1

(* Mutants: a file counts once it has been written; links pass.             *)
CheckMemberLate(c) ==
  /\ pc[c] = "member"
  /\ Goto(c, IF temp[c].members = Len(Zip(c)) THEN "exe"
             ELSE IF temp[c].members > 0 /\ ~Admissible(Zip(c), temp[c].members) THEN Handler(c)
             ELSE "copy")
  /\ UNCHANGED <<temp, Paths, stream, Context>>

CheckMemberLinks(c) ==
  /\ pc[c] = "member"
  /\ Goto(c, IF temp[c].members = Len(Zip(c)) THEN "exe"
             ELSE IF Admissible(Zip(c), At(c)) \/ Zip(c)[At(c)].kind = "link" THEN "copy"
             ELSE Handler(c))
  /\ UNCHANGED <<temp, Paths, stream, Context>>

CheckMember(c) ==
  /\ pc[c] = "member"
  /\ Goto(c, IF temp[c].members = Len(Zip(c)) THEN "exe"
             ELSE IF Admissible(Zip(c), At(c)) THEN "copy"
             ELSE Handler(c))
  /\ UNCHANGED <<temp, Paths, stream, Context>>

WriteMember(c) ==
  /\ pc[c] = "copy"
  /\ IF Creatable(Zip(c), At(c))
       THEN Goto(c, "member") /\ Put(c, [temp[c] EXCEPT !.members = @ + 1])
       ELSE Goto(c, Handler(c)) /\ UNCHANGED temp
  /\ UNCHANGED <<Paths, stream, Context>>

FindExecutable(c) ==
  /\ pc[c] = "exe"
  /\ Goto(c, IF HasExecutable(Zip(c)) THEN "publish" ELSE Handler(c))
  /\ UNCHANGED <<temp, Paths, stream, Context>>

\* Mutant: a destination that has come into being is removed first.
PublishOverwrites(c) ==
  /\ pc[c] = "publish"
  /\ staged' = temp[c] /\ Put(c, Nothing) /\ Goto(c, "idle")
  /\ UNCHANGED <<artifact, intact, stream, Context>>

(* os.replace onto a directory with files in it raises. *)
Publish(c) ==
  /\ pc[c] = "publish"
  /\ IF staged = Nothing
       THEN staged' = temp[c] /\ Put(c, Nothing) /\ Goto(c, "idle")
       ELSE Goto(c, Handler(c)) /\ UNCHANGED <<staged, temp>>
  /\ UNCHANGED <<artifact, intact, stream, Context>>

-----------------------------------------------------------------------------
(* An OSError, a broken connection or a damaged archive.  The handlers do  *)
(* not try again: rmtree ignores its errors, unlink raises them.           *)
RaiseError(c) ==
  /\ pc[c] # "idle" /\ faults < MaxFaults
  /\ faults' = faults + 1
  /\ Goto(c, Handler(c))
  /\ UNCHANGED <<archive, windows, temp, Paths, stream, calls, crashes>>

Crash(c) ==
  /\ pc[c] # "idle" /\ crashes < MaxCrashes
  /\ crashes' = crashes + 1
  /\ Goto(c, "idle")
  /\ UNCHANGED <<archive, windows, temp, Paths, stream, calls, faults>>

Progress(c) ==
  \/ TempName(c) \/ OpenStream(c) \/ ReadChunk(c) \/ Compare(c) \/ Rename(c) \/ Discard(c)
  \/ VerifyArtifact(c) \/ CheckDestination(c) \/ MakeTemp(c)
  \/ CheckMember(c) \/ WriteMember(c) \/ FindExecutable(c) \/ Publish(c)

Next ==
  \E c \in Callers :
    StartDownload(c) \/ StartStaging(c) \/ Progress(c) \/ RaiseError(c) \/ Crash(c)

Spec == Init /\ [][Next]_vars

(* A caller keeps running: every read has a timeout, at most artifact_size *)
(* bytes are read, and an archive has finitely many members.               *)
FairSpec == Spec /\ \A c \in Callers : WF_vars(Progress(c))

-----------------------------------------------------------------------------
(* Every variable keeps its type. *)
TypeOK ==
  /\ archive \in Publications /\ windows \in BOOLEAN
  /\ artifact \in {Nothing} \cup Files
  /\ staged \in {Nothing} \cup Trees
  /\ temp \in [Callers -> {Nothing} \cup Files \cup Trees]
  /\ stream \in [Callers -> [bytes : 0 .. Size + 1, genuine : BOOLEAN]]
  /\ pc \in [Callers -> Downloading \cup Staging \cup {"idle"}]
  /\ intact \subseteq Callers
  /\ calls \in 0 .. MaxCalls /\ crashes \in 0 .. MaxCrashes /\ faults \in 0 .. MaxFaults

(* What the docstring of stage_verified_zip does not reject and a directory *)
(* can hold, said of the archive as a whole and not of the loop over it.   *)
Acceptable(a) ==
  /\ \A i \in DOMAIN a : a[i].safe /\ a[i].kind # "link" /\ (IsFile(a[i]) => a[i].path # Root)
  /\ \A i, j \in DOMAIN a : i # j => a[i].name # a[j].name /\ ~Clash(a[i], a[j])
  /\ Count(a, Len(a)) <= MaxFiles /\ Expanded(a, Len(a)) <= MaxExpanded
  /\ HasExecutable(a)

(* A tree at the staged destination is every member of an acceptable       *)
(* archive of a genuine artifact, whoever else works there, dies or raises. *)
StagedIsComplete ==
  staged # Nothing =>
    LET r == staged.source.release
    IN  /\ staged.source = Genuine(r)
        /\ Acceptable(archive[r])
        /\ staged.members = Len(archive[r])

(* A call that fails while nothing raises had a reason: the stream or the  *)
(* archive is bad, another caller was first, or the policy spells the      *)
(* digest in upper case, as PolicyVerifier allows.                         *)
RefusalIsJustified ==
  faults = 0 => \A c \in Callers :
    /\ pc[c] = "discard" => ~stream[c].genuine \/ c \notin Lowercase
    /\ pc[c] = "clean" => ~Acceptable(Zip(c)) \/ staged # Nothing

(* No temporary file or tree ever grows beyond what the policy and the     *)
(* limits allow, also while a bad one is being found out.                  *)
WithinLimits ==
  \A c \in Callers :
    /\ temp[c].kind = "file" => temp[c].bytes <= Size
    /\ pc[c] \in {"member", "copy", "exe", "publish"} =>
         Count(Zip(c), temp[c].members) <= MaxFiles /\ Expanded(Zip(c), temp[c].members) <= MaxExpanded

(* A staged tree is never replaced, though its absence is checked long     *)
(* before it is renamed into place.                                        *)
StagedOnce == [][staged # Nothing => staged' = staged]_vars

(* A caller stages the release of its own policy unless a download has     *)
(* replaced the artifact since the caller verified it.                     *)
StagedIsVerified ==
  [][\A c \in intact : pc[c] = "publish" /\ staged' # staged /\ pc'[c] = "idle"
       => staged'.source.release = Release[c]]_vars

(* A call that ends by itself leaves no temporary file or tree behind,     *)
(* except the empty file of every download on Windows.                     *)
CallsCleanUp ==
  [][\A c \in Callers :
       pc[c] # "idle" /\ pc'[c] = "idle" /\ UNCHANGED <<crashes, faults>>
         => temp'[c] = Nothing \/ (windows /\ pc[c] = "unlink")]_vars

(* Every call returns, raises or dies. *)
CallsEnd == \A c \in Callers : pc[c] # "idle" ~> pc[c] = "idle"
=============================================================================
