---------------------------- MODULE AcquireProofs ----------------------------
(***************************************************************************)
(* Proofs about Acquire, for any callers, releases, archives and limits:   *)
(* what reaches the staged destination is complete and was acceptable, and *)
(* it stays there; limits are kept; a refusal has a reason; a call stages  *)
(* what it has verified, cleans up and comes to an end.                    *)
(*                                                                         *)
(* stage_verified_zip checks an archive member by member while it writes   *)
(* it.  The invariant says what that adds up to: the first n members are   *)
(* acceptable as far as they go (Prefix), in a tree that was read from a   *)
(* genuine artifact, whatever the artifact path holds by then.  What a     *)
(* refusal means takes more: how a temporary file follows its stream       *)
(* (DownloadHeld), whose release an intact artifact is (IntactHeld), and   *)
(* that a call starts with nothing at its temporary path (Fresh).          *)
(***************************************************************************)
EXTENDS ArchiveProofs

Expanding == {"member", "copy", "exe", "publish"}

(* A verified artifact may be replaced, but only by another genuine one. *)
ArtifactHeld ==
  \A c \in Callers : pc[c] \in {"check", "mkdtemp", "unzip"} =>
    \E r \in Releases : artifact = Genuine(r)

(* How far c has come with the archive of release r. *)
Expands(c, r) ==
  /\ temp[c].source = Genuine(r)
  /\ temp[c].members \in 0 .. Len(archive[r])
  /\ Prefix(archive[r], temp[c].members)
  /\ pc[c] = "copy" => /\ temp[c].members < Len(archive[r])
                       /\ Admissible(archive[r], temp[c].members + 1)
  /\ pc[c] \in {"exe", "publish"} => temp[c].members = Len(archive[r])
  /\ pc[c] = "publish" => HasExecutable(archive[r])

TempHeld ==
  \A c \in Callers :
    /\ pc[c] \in {"read", "compare", "rename"} => temp[c] \in Files
    /\ pc[c] = "rename" => temp[c] = Genuine(Release[c])
    /\ pc[c] \in Expanding => temp[c] \in Trees /\ \E r \in Releases : Expands(c, r)

Inv == ArtifactHeld /\ TempHeld /\ StagedIsComplete

-----------------------------------------------------------------------------
(* What a genuine artifact is, and what it is not. *)
LEMMA GenuineFile ==
  ASSUME NEW r \in Releases
  PROVE  Genuine(r) \in Files /\ Genuine(r) # Nothing /\ Genuine(r).release = r
  BY ConstantsAssumption DEF Genuine, File, Files, Nothing, ConstantsAssumption

LEMMA ArchiveIsSequence ==
  ASSUME TypeOK, NEW r \in Releases
  PROVE  archive[r] \in Seq(Member) /\ Len(archive[r]) \in Nat
                    /\ DOMAIN archive[r] = 1 .. Len(archive[r])
<1>1. archive[r] \in Archives[r]
  BY DEF TypeOK, Publications
<1>2. archive[r] \in Seq(Member)
  BY <1>1, ArchivesAssumption DEF ArchivesAssumption
<1> QED BY <1>2

(* Where an exception goes. *)
LEMMA HandlerStep == \A c : Handler(c) \in {"discard", "clean", "idle"}
  BY DEF Handler

-----------------------------------------------------------------------------
LEMMA InitOK == Init => TypeOK /\ Inv
<1> SUFFICES ASSUME Init PROVE TypeOK /\ Inv
  OBVIOUS
<1> USE ConstantsAssumption DEF ConstantsAssumption, Init
<1>1. TypeOK
  BY DEF TypeOK, Files
<1>2. Inv
  BY DEF Inv, ArtifactHeld, TempHeld, StagedIsComplete, Expanding
<1> QED BY <1>1, <1>2

(* Every step of a caller keeps the types. *)
LEMMA NextTypeOK == TypeOK /\ Inv /\ [Next]_vars => TypeOK'
<1> SUFFICES ASSUME TypeOK, Inv, [Next]_vars PROVE TypeOK'
  OBVIOUS
<1> USE ConstantsAssumption, HandlerStep
      DEF TypeOK, Context, Paths, Goto, Put, Downloading, Staging, ConstantsAssumption
<1>1. CASE UNCHANGED vars
  BY <1>1 DEF vars
<1>2. ASSUME NEW c \in Callers, StartDownload(c) PROVE TypeOK'
  BY <1>2 DEF StartDownload, Start, Streams
<1>3. ASSUME NEW c \in Callers, StartStaging(c) PROVE TypeOK'
  BY <1>3 DEF StartStaging, Start
<1>4. ASSUME NEW c \in Callers, TempName(c) PROVE TypeOK'
  <2>1. File(Release[c], 0, FALSE) \in Files
    BY DEF File, Files
  <2>2. temp' \in [Callers -> {Nothing} \cup Files \cup Trees]
    BY <1>4, <2>1 DEF TempName
  <2>3. pc' \in [Callers -> Downloading \cup Staging \cup {"idle"}]
    BY <1>4 DEF TempName
  <2> QED BY <1>4, <2>2, <2>3 DEF TempName
<1>5. ASSUME NEW c \in Callers, OpenStream(c) PROVE TypeOK'
  <2>1. File(Release[c], 0, stream[c].genuine) \in Files
    BY DEF File, Files
  <2>2. temp' \in [Callers -> {Nothing} \cup Files \cup Trees]
    BY <1>5, <2>1 DEF OpenStream
  <2>3. pc' \in [Callers -> Downloading \cup Staging \cup {"idle"}]
    BY <1>5 DEF OpenStream
  <2> QED BY <1>5, <2>2, <2>3 DEF OpenStream
<1>6. ASSUME NEW c \in Callers, ReadChunk(c) PROVE TypeOK'
  <2>1. temp[c] \in Files
    BY <1>6 DEF ReadChunk, Inv, TempHeld
  <2>2. temp[c].bytes + 1 <= Size => [temp[c] EXCEPT !.bytes = @ + 1] \in Files
    BY <2>1 DEF Files
  <2>3. temp[c].bytes \in Int
    BY <2>1 DEF Files
  <2>4. temp' \in [Callers -> {Nothing} \cup Files \cup Trees]
    BY <1>6, <2>2, <2>3 DEF ReadChunk
  <2> QED BY <1>6, <2>4 DEF ReadChunk
<1>7. ASSUME NEW c \in Callers, Compare(c) PROVE TypeOK'
  BY <1>7 DEF Compare
<1>8. ASSUME NEW c \in Callers, Rename(c) PROVE TypeOK'
  <2>1. temp[c] \in Files
    BY <1>8 DEF Rename, Inv, TempHeld
  <2> QED BY <1>8, <2>1 DEF Rename
<1>9. ASSUME NEW c \in Callers, Discard(c) PROVE TypeOK'
  BY <1>9 DEF Discard
<1>10. ASSUME NEW c \in Callers, VerifyArtifact(c) PROVE TypeOK'
  BY <1>10 DEF VerifyArtifact
<1>11. ASSUME NEW c \in Callers, CheckDestination(c) PROVE TypeOK'
  BY <1>11 DEF CheckDestination
<1>12. ASSUME NEW c \in Callers, MakeTemp(c) PROVE TypeOK'
  <2>1. Tree(Nothing, 0) \in Trees /\ Tree(artifact, 0) \in Trees
    BY DEF Tree, Trees
  <2>2. temp' \in [Callers -> {Nothing} \cup Files \cup Trees]
    BY <1>12, <2>1 DEF MakeTemp
  <2>3. pc' \in [Callers -> Downloading \cup Staging \cup {"idle"}]
    BY <1>12 DEF MakeTemp
  <2> QED BY <1>12, <2>2, <2>3 DEF MakeTemp
<1>13. ASSUME NEW c \in Callers, CheckMember(c) PROVE TypeOK'
  BY <1>13 DEF CheckMember
<1>14. ASSUME NEW c \in Callers, WriteMember(c) PROVE TypeOK'
  <2>1. temp[c] \in Trees
    BY <1>14 DEF WriteMember, Inv, TempHeld, Expanding
  <2>2. [temp[c] EXCEPT !.members = @ + 1] \in Trees
    BY <2>1 DEF Trees
  <2>3. temp' \in [Callers -> {Nothing} \cup Files \cup Trees]
    BY <1>14, <2>2 DEF WriteMember
  <2>4. pc' \in [Callers -> Downloading \cup Staging \cup {"idle"}]
    BY <1>14 DEF WriteMember
  <2> QED BY <1>14, <2>3, <2>4 DEF WriteMember
<1>15. ASSUME NEW c \in Callers, FindExecutable(c) PROVE TypeOK'
  BY <1>15 DEF FindExecutable
<1>16. ASSUME NEW c \in Callers, Publish(c) PROVE TypeOK'
  <2>1. temp[c] \in Trees
    BY <1>16 DEF Publish, Inv, TempHeld, Expanding
  <2> QED BY <1>16, <2>1 DEF Publish
<1>17. ASSUME NEW c \in Callers, RaiseError(c) \/ Crash(c) PROVE TypeOK'
  BY <1>17 DEF RaiseError, Crash
<1> QED BY <1>1, <1>2, <1>3, <1>4, <1>5, <1>6, <1>7, <1>8, <1>9, <1>10, <1>11, <1>12, <1>13,
           <1>14, <1>15, <1>16, <1>17 DEF Next, Progress

-----------------------------------------------------------------------------
(* A caller whose pc and temp a step leaves alone keeps what held of it.   *)
LEMMA OthersHold ==
  ASSUME TypeOK, Inv, NEW d \in Callers, archive' = archive, pc'[d] = pc[d], temp'[d] = temp[d]
  PROVE  /\ pc'[d] \in {"read", "compare", "rename"} => temp'[d] \in Files
         /\ pc'[d] = "rename" => temp'[d] = Genuine(Release[d])
         /\ pc'[d] \in Expanding => temp'[d] \in Trees /\ \E r \in Releases : Expands(d, r)'
<1>1. \A r : Expands(d, r)' <=> Expands(d, r)
  BY DEF Expands
<1> QED BY <1>1 DEF Inv, TempHeld

(* A step of caller c keeps the invariant if it keeps c's part of it.      *)
LEMMA CallerStep ==
  ASSUME TypeOK, Inv, NEW c \in Callers, archive' = archive,
         NEW p, pc' = [pc EXCEPT ![c] = p],
         NEW t, temp' = [temp EXCEPT ![c] = t],
         p \in {"read", "compare", "rename"} => t \in Files,
         p = "rename" => t = Genuine(Release[c]),
         p \in Expanding => t \in Trees /\ \E r \in Releases : Expands(c, r)'
  PROVE  TempHeld'
<1>1. pc'[c] = p /\ temp'[c] = t
  BY DEF TypeOK
<1>2. \A d \in Callers : d # c => pc'[d] = pc[d] /\ temp'[d] = temp[d]
  BY DEF TypeOK
<1>3. ASSUME NEW d \in Callers
      PROVE  /\ pc'[d] \in {"read", "compare", "rename"} => temp'[d] \in Files
             /\ pc'[d] = "rename" => temp'[d] = Genuine(Release[d])
             /\ pc'[d] \in Expanding => temp'[d] \in Trees /\ \E r \in Releases : Expands(d, r)'
  <2>1. CASE d = c
    BY <1>1, <2>1
  <2>2. CASE d # c
    BY <1>2, <2>2, OthersHold
  <2> QED BY <2>1, <2>2
<1> QED BY <1>3 DEF TempHeld

(* So it does when it leaves c's temporary path as it is and goes to no    *)
(* step that relies on it.                                                 *)
LEMMA PlainStep ==
  ASSUME TypeOK, Inv, NEW c \in Callers, archive' = archive,
         NEW p, p \notin Expanding \cup {"read", "compare", "rename"}, pc' = [pc EXCEPT ![c] = p],
         NEW t, temp' = [temp EXCEPT ![c] = t]
  PROVE  TempHeld'
  BY CallerStep

(* The same for a step of a download, and for one of an extraction.        *)
LEMMA ReadStep ==
  ASSUME TypeOK, Inv, NEW c \in Callers, archive' = archive,
         NEW p \in {"read", "compare", "rename"}, pc' = [pc EXCEPT ![c] = p],
         NEW t \in Files, temp' = [temp EXCEPT ![c] = t],
         p = "rename" => t = Genuine(Release[c])
  PROVE  TempHeld'
<1>1. p \notin Expanding
  BY DEF Expanding
<1> QED BY <1>1, CallerStep

LEMMA ExpandStep ==
  ASSUME TypeOK, Inv, NEW c \in Callers, archive' = archive,
         NEW p \in Expanding, pc' = [pc EXCEPT ![c] = p],
         NEW t \in Trees, temp' = [temp EXCEPT ![c] = t],
         NEW r \in Releases, Expands(c, r)'
  PROVE  TempHeld'
<1>1. p \notin {"read", "compare", "rename"} /\ p # "rename"
  BY DEF Expanding
<1>2. \E q \in Releases : Expands(c, q)'
  OBVIOUS
<1> QED BY <1>1, <1>2, CallerStep

(* The artifact stays genuine for those who have verified one.             *)
LEMMA ArtifactStep ==
  ASSUME TypeOK, Inv, NEW c \in Callers,
         NEW p, pc' = [pc EXCEPT ![c] = p], artifact' = artifact,
         p \in {"check", "mkdtemp", "unzip"} =>
           pc[c] \in {"check", "mkdtemp", "unzip"} \/ \E r \in Releases : artifact = Genuine(r)
  PROVE  ArtifactHeld'
  BY DEF TypeOK, Inv, ArtifactHeld

LEMMA StagedStep ==
  ASSUME Inv, staged' = staged, archive' = archive
  PROVE  StagedIsComplete'
  BY DEF Inv, StagedIsComplete

(* Every step of a caller keeps what is known of the temporary paths.      *)
LEMMA NextTempHeld == TypeOK /\ Inv /\ [Next]_vars => TempHeld'
<1> SUFFICES ASSUME TypeOK, Inv, [Next]_vars PROVE TempHeld'
  OBVIOUS
<1> USE HandlerStep DEF Context, Paths, Goto, Put
<1>0. \A c \in Callers : temp = [temp EXCEPT ![c] = temp[c]]
  BY DEF TypeOK
<1>1. CASE UNCHANGED vars
  BY <1>1, OthersHold DEF vars, TempHeld
<1>2. ASSUME NEW c \in Callers, StartDownload(c) \/ StartStaging(c) PROVE TempHeld'
  BY <1>2, PlainStep DEF StartDownload, StartStaging, Start, Expanding
<1>3. ASSUME NEW c \in Callers, TempName(c) PROVE TempHeld'
  <2>1. CASE pc[c] = "mkstemp"
    BY <1>3, <2>1, PlainStep DEF TempName, Expanding
  <2>2. CASE pc[c] = "unlink" /\ ~windows
    BY <1>3, <2>2, PlainStep DEF TempName, Expanding
  <2>3. CASE pc[c] = "unlink" /\ windows
    BY <1>0, <1>3, <2>3, PlainStep DEF TempName, Expanding
  <2> QED BY <1>3, <2>1, <2>2, <2>3 DEF TempName
<1>4. ASSUME NEW c \in Callers, OpenStream(c) PROVE TempHeld'
  <2>1. File(Release[c], 0, stream[c].genuine) \in Files
    BY ConstantsAssumption DEF File, Files, TypeOK, ConstantsAssumption
  <2> QED BY <1>4, <2>1, ReadStep DEF OpenStream
<1>5. ASSUME NEW c \in Callers, ReadChunk(c) PROVE TempHeld'
  <2>1. temp[c] \in Files
    BY <1>5 DEF ReadChunk, Inv, TempHeld
  <2>2. CASE temp[c].bytes = stream[c].bytes
    BY <1>0, <1>5, <2>1, <2>2, ReadStep DEF ReadChunk
  <2>3. CASE temp[c].bytes # stream[c].bytes /\ temp[c].bytes + 1 > Size
    BY <1>0, <1>5, <2>3, PlainStep DEF ReadChunk, Expanding
  <2>4. CASE temp[c].bytes # stream[c].bytes /\ ~(temp[c].bytes + 1 > Size)
    <3>1. [temp[c] EXCEPT !.bytes = @ + 1] \in Files
      BY <2>1, <2>4, ConstantsAssumption DEF Files, ConstantsAssumption
    <3>2. /\ pc' = [pc EXCEPT ![c] = "read"]
          /\ temp' = [temp EXCEPT ![c] = [temp[c] EXCEPT !.bytes = @ + 1]]
          /\ archive' = archive
      BY <1>5, <2>4 DEF ReadChunk
    <3> QED BY <3>1, <3>2, ReadStep
  <2> QED BY <2>2, <2>3, <2>4
<1>6. ASSUME NEW c \in Callers, Compare(c) PROVE TempHeld'
  <2>1. temp[c] \in Files
    BY <1>6 DEF Compare, Inv, TempHeld
  <2>2. CASE temp[c] = Genuine(Release[c]) /\ c \in Lowercase
    BY <1>0, <1>6, <2>1, <2>2, ReadStep DEF Compare
  <2>3. CASE ~(temp[c] = Genuine(Release[c]) /\ c \in Lowercase)
    BY <1>0, <1>6, <2>3, PlainStep DEF Compare, Expanding
  <2> QED BY <2>2, <2>3
<1>7. ASSUME NEW c \in Callers, Rename(c) \/ Discard(c) PROVE TempHeld'
  BY <1>7, PlainStep DEF Rename, Discard, Expanding
<1>8. ASSUME NEW c \in Callers, VerifyArtifact(c) PROVE TempHeld'
  BY <1>0, <1>8, PlainStep DEF VerifyArtifact, Expanding
<1>9. ASSUME NEW c \in Callers, CheckDestination(c) PROVE TempHeld'
  BY <1>0, <1>9, PlainStep DEF CheckDestination, Expanding
<1>10. ASSUME NEW c \in Callers, MakeTemp(c) PROVE TempHeld'
  <2>1. CASE pc[c] = "mkdtemp"
    BY <1>10, <2>1, PlainStep DEF MakeTemp, Expanding
  <2>2. CASE pc[c] = "unzip"
    <3>1. PICK r \in Releases : artifact = Genuine(r)
      BY <2>2 DEF Inv, ArtifactHeld
    <3>2. /\ pc' = [pc EXCEPT ![c] = "member"] /\ temp' = [temp EXCEPT ![c] = Tree(artifact, 0)]
          /\ archive' = archive
      BY <1>10, <2>2 DEF MakeTemp
    <3>3. Tree(artifact, 0) \in Trees
      BY DEF Tree, Trees, TypeOK
    <3>4. Expands(c, r)'
      <4>1. temp'[c] = Tree(Genuine(r), 0) /\ pc'[c] = "member"
        BY <3>1, <3>2 DEF TypeOK
      <4>2. temp'[c].source = Genuine(r) /\ temp'[c].members = 0
        BY <4>1 DEF Tree
      <4> QED BY <3>2, <4>1, <4>2, EmptyPrefix, ArchiveIsSequence DEF Expands
    <3>5. "member" \in Expanding
      BY DEF Expanding
    <3> QED BY <3>2, <3>3, <3>4, <3>5, ExpandStep
  <2> QED BY <1>10, <2>1, <2>2 DEF MakeTemp
<1>11. ASSUME NEW c \in Callers, CheckMember(c) \/ FindExecutable(c) PROVE TempHeld'
  <2>1. temp[c] \in Trees
    BY <1>11 DEF CheckMember, FindExecutable, Expanding, Inv, TempHeld
  <2>2. PICK r \in Releases : Expands(c, r)
    BY <1>11 DEF CheckMember, FindExecutable, Expanding, Inv, TempHeld
  <2>3. Zip(c) = archive[r] /\ At(c) = temp[c].members + 1
    BY <2>2, GenuineFile DEF Expands, Zip, At
  <2>4. PICK p : pc' = [pc EXCEPT ![c] = p] /\ temp' = temp /\ archive' = archive
                   /\ (CheckMember(c) \/ FindExecutable(c))
    BY <1>11 DEF CheckMember, FindExecutable
  <2>5. pc'[c] = p /\ temp'[c] = temp[c]
    BY <2>4 DEF TypeOK
  <2>6. CASE p \in Expanding
    <3>2. Expands(c, r)'
      <4>1. temp[c].members \in 0 .. Len(archive[r]) /\ Len(archive[r]) \in Nat
        BY <2>2, ArchiveIsSequence DEF Expands
      <4>2. CASE CheckMember(c)
        <5>1. p = IF temp[c].members = Len(archive[r]) THEN "exe"
                  ELSE IF Admissible(archive[r], temp[c].members + 1) THEN "copy"
                  ELSE Handler(c)
          BY <2>3, <2>4, <2>5, <4>2 DEF CheckMember, TypeOK
        <5>2. p = "exe" => temp[c].members = Len(archive[r])
          BY <5>1
        <5>3. p = "copy" => /\ temp[c].members < Len(archive[r])
                            /\ Admissible(archive[r], temp[c].members + 1)
          BY <4>1, <5>1
        <5>4. p # "publish"
          BY <5>1
        <5> QED BY <2>2, <2>4, <2>5, <5>2, <5>3, <5>4 DEF Expands
      <4>3. CASE FindExecutable(c)
        BY <2>2, <2>3, <2>4, <2>5, <2>6, <4>1, <4>3 DEF Expands, FindExecutable, Expanding, TypeOK
      <4> QED BY <2>4, <4>2, <4>3
    <3> QED BY <1>0, <2>1, <2>4, <2>6, <3>2, ExpandStep
  <2>7. CASE p \notin Expanding
    <3>1. p \in {"discard", "clean", "idle"}
      BY <2>4, <2>5, <2>7 DEF CheckMember, FindExecutable, Expanding, TypeOK
    <3> QED BY <1>0, <2>4, <3>1, PlainStep DEF Expanding
  <2> QED BY <2>6, <2>7
<1>12. ASSUME NEW c \in Callers, WriteMember(c) PROVE TempHeld'
  <2>1. temp[c] \in Trees /\ pc[c] = "copy"
    BY <1>12 DEF WriteMember, Expanding, Inv, TempHeld
  <2>2. PICK r \in Releases : Expands(c, r)
    BY <2>1 DEF Expanding, Inv, TempHeld
  <2>3. Zip(c) = archive[r] /\ At(c) = temp[c].members + 1
    BY <2>2, GenuineFile DEF Expands, Zip, At
  <2>4. CASE ~Creatable(Zip(c), At(c))
    BY <1>0, <1>12, <2>4, PlainStep DEF WriteMember, Expanding
  <2>5. CASE Creatable(Zip(c), At(c))
    <3> DEFINE t == [temp[c] EXCEPT !.members = @ + 1]
    <3>1. /\ pc' = [pc EXCEPT ![c] = "member"] /\ temp' = [temp EXCEPT ![c] = t]
          /\ archive' = archive
      BY <1>12, <2>5 DEF WriteMember
    <3>2. t \in Trees /\ t.source = temp[c].source /\ t.members = temp[c].members + 1
      BY <2>1 DEF Trees
    <3>3. Expands(c, r)'
      <4>1. temp[c].members \in Nat /\ temp[c].members < Len(archive[r])
              /\ archive[r] \in Seq(Member) /\ Len(archive[r]) \in Nat
        BY <2>1, <2>2, ArchiveIsSequence DEF Expands
      <4>2. Prefix(archive[r], temp[c].members + 1)
        BY <2>1, <2>2, <2>3, <2>5, <4>1, PrefixGrows DEF Expands
      <4>3. temp'[c] = t /\ pc'[c] = "member"
        BY <3>1 DEF TypeOK
      <4> HIDE DEF t
      <4> QED BY <2>2, <3>1, <3>2, <4>1, <4>2, <4>3 DEF Expands
    <3> HIDE DEF t
    <3>4. "member" \in Expanding
      BY DEF Expanding
    <3> QED BY <3>1, <3>2, <3>3, <3>4, ExpandStep
  <2> QED BY <2>4, <2>5
<1>13. ASSUME NEW c \in Callers, Publish(c) PROVE TempHeld'
  <2>1. CASE staged = Nothing
    BY <1>13, <2>1, PlainStep DEF Publish, Expanding
  <2>2. CASE staged # Nothing
    BY <1>0, <1>13, <2>2, PlainStep DEF Publish, Expanding
  <2> QED BY <2>1, <2>2
<1>14. ASSUME NEW c \in Callers, RaiseError(c) \/ Crash(c) PROVE TempHeld'
  BY <1>0, <1>14, PlainStep DEF RaiseError, Crash, Expanding
<1> QED BY <1>1, <1>2, <1>3, <1>4, <1>5, <1>6, <1>7, <1>8, <1>9, <1>10, <1>11, <1>12, <1>13,
           <1>14 DEF Next, Progress

(* Every step keeps the artifact genuine for those who have verified one.  *)
LEMMA NextArtifactHeld == TypeOK /\ Inv /\ [Next]_vars => ArtifactHeld'
<1> SUFFICES ASSUME TypeOK, Inv, [Next]_vars PROVE ArtifactHeld'
  OBVIOUS
<1> USE HandlerStep DEF Context, Paths, Goto, Put
<1>1. CASE UNCHANGED vars
  BY <1>1 DEF vars, Inv, ArtifactHeld
<1>2. ASSUME NEW c \in Callers, Rename(c) PROVE ArtifactHeld'
  <2>1. Release[c] \in Releases /\ artifact' = Genuine(Release[c])
    BY <1>2, ConstantsAssumption DEF Rename, Inv, TempHeld, ConstantsAssumption
  <2> QED BY <2>1 DEF ArtifactHeld
<1>3. ASSUME NEW c \in Callers, VerifyArtifact(c) PROVE ArtifactHeld'
  <2>1. Release[c] \in Releases
    BY ConstantsAssumption DEF ConstantsAssumption
  <2> QED BY <1>3, <2>1, ArtifactStep DEF VerifyArtifact
<1>4. ASSUME NEW c \in Callers,
             \/ CheckDestination(c) \/ MakeTemp(c) \/ StartDownload(c) \/ StartStaging(c)
             \/ TempName(c) \/ OpenStream(c) \/ Discard(c) \/ RaiseError(c) \/ Crash(c)
      PROVE  ArtifactHeld'
  BY <1>4, ArtifactStep DEF CheckDestination, MakeTemp, StartDownload, StartStaging, Start,
                            TempName, OpenStream, Discard, RaiseError, Crash
<1>5. ASSUME NEW c \in Callers,
             ReadChunk(c) \/ Compare(c) \/ CheckMember(c) \/ WriteMember(c) \/ FindExecutable(c)
      PROVE  ArtifactHeld'
  BY <1>5, ArtifactStep DEF ReadChunk, Compare, CheckMember, WriteMember, FindExecutable
<1>6. ASSUME NEW c \in Callers, Publish(c) PROVE ArtifactHeld'
  BY <1>6, ArtifactStep DEF Publish
<1> QED BY <1>1, <1>2, <1>3, <1>4, <1>5, <1>6 DEF Next, Progress

(* Every step keeps the staged tree complete. *)
LEMMA NextStaged == TypeOK /\ Inv /\ [Next]_vars => StagedIsComplete'
<1> SUFFICES ASSUME TypeOK, Inv, [Next]_vars PROVE StagedIsComplete'
  OBVIOUS
<1>1. CASE UNCHANGED <<staged, archive>>
  BY <1>1, StagedStep
<1>2. ASSUME NEW c \in Callers, Publish(c), staged' # staged PROVE StagedIsComplete'
  <2>1. pc[c] = "publish" /\ staged' = temp[c] /\ archive' = archive
    BY <1>2 DEF Publish, Context
  <2>2. PICK r \in Releases : Expands(c, r)
    BY <2>1 DEF Inv, TempHeld, Expanding
  <2>3. Prefix(archive[r], Len(archive[r])) /\ HasExecutable(archive[r])
    BY <2>1, <2>2 DEF Expands
  <2>4. Acceptable(archive[r])
    BY <2>3, ArchiveIsSequence, PrefixIsAcceptable
  <2>5. staged'.source = Genuine(r) /\ staged'.members = Len(archive[r])
          /\ staged'.source.release = r
    BY <2>1, <2>2, GenuineFile DEF Expands
  <2> QED BY <2>1, <2>4, <2>5 DEF StagedIsComplete
<1>3. UNCHANGED <<staged, archive>> \/ \E c \in Callers : Publish(c) /\ staged' # staged
  BY DEF Next, Progress, vars, Context, Paths, StartDownload, StartStaging, Start, TempName,
         OpenStream, ReadChunk, Compare, Rename, Discard, VerifyArtifact, CheckDestination,
         MakeTemp, CheckMember, WriteMember, FindExecutable, Publish, RaiseError, Crash
<1> QED BY <1>1, <1>2, <1>3

(* In every reachable state the variables have their types and Inv holds. *)
THEOREM Invariance == Spec => [](TypeOK /\ Inv)
<1>1. TypeOK /\ Inv /\ [Next]_vars => TypeOK' /\ Inv'
  BY NextTypeOK, NextTempHeld, NextArtifactHeld, NextStaged DEF Inv
<1> QED BY <1>1, InitOK, PTL DEF Spec

-----------------------------------------------------------------------------
(* The variables of download_verified and stage_verified_zip keep their    *)
(* types; that of a temporary file bounds what a download writes.          *)
THEOREM TypeCorrectness == Spec => []TypeOK
  BY Invariance, PTL

(* What stage_verified_zip leaves at the destination is every member of an *)
(* acceptable archive of a genuine artifact.                               *)
THEOREM StagingIsSound == Spec => []StagedIsComplete
<1>1. Inv => StagedIsComplete
  BY DEF Inv
<1> QED BY <1>1, Invariance, PTL

(* No call replaces a staged tree. *)
THEOREM StagedTreesStay == Spec => StagedOnce
<1>1. [Next]_vars => [staged # Nothing => staged' = staged]_vars
  <2> SUFFICES ASSUME [Next]_vars, staged # Nothing PROVE staged' = staged
    OBVIOUS
  <2> QED
    BY DEF Next, Progress, vars, Context, Paths, StartDownload, StartStaging, Start, TempName,
         OpenStream, ReadChunk, Compare, Rename, Discard, VerifyArtifact, CheckDestination,
         MakeTemp, CheckMember, WriteMember, FindExecutable, Publish, RaiseError, Crash
<1> QED BY <1>1, PTL DEF Spec, StagedOnce

-----------------------------------------------------------------------------
(* The limits hold of every prefix that has passed, and so of every tree   *)
(* that is being written, while no download grows past its policy's size.  *)
THEOREM LimitsAreKept == Spec => []WithinLimits
<1>1. TypeOK /\ Inv => WithinLimits
  <2> SUFFICES ASSUME TypeOK, Inv, NEW c \in Callers
               PROVE  /\ temp[c].kind = "file" => temp[c].bytes <= Size
                      /\ pc[c] \in Expanding =>
                           /\ Count(Zip(c), temp[c].members) <= MaxFiles
                           /\ Expanded(Zip(c), temp[c].members) <= MaxExpanded
    BY DEF WithinLimits, Expanding
  <2>1. temp[c].kind = "file" => temp[c].bytes <= Size
    <3>1. temp[c] \in {Nothing} \cup Files \cup Trees
      BY DEF TypeOK
    <3>2. CASE temp[c] = Nothing
      BY <3>2 DEF Nothing
    <3>3. CASE temp[c] \in Files
      BY <3>3, ConstantsAssumption DEF Files, ConstantsAssumption
    <3>4. CASE temp[c] \in Trees
      BY <3>4 DEF Trees
    <3> QED BY <3>1, <3>2, <3>3, <3>4
  <2>2. CASE pc[c] \in Expanding
    <3>1. PICK r \in Releases : Expands(c, r)
      BY <2>2 DEF Inv, TempHeld
    <3>2. Zip(c) = archive[r] /\ Prefix(archive[r], temp[c].members)
      BY <3>1, GenuineFile DEF Expands, Zip
    <3> QED BY <2>1, <3>2 DEF Prefix
  <2> QED BY <2>1, <2>2
<1> QED BY <1>1, Invariance, PTL

-----------------------------------------------------------------------------
(* What a call knows of its own paths beyond Inv.  A temporary file is a   *)
(* prefix of the stream that the server sends.                             *)
Fetched(c, p, t, s) ==
  /\ s \in Streams
  /\ p \in {"read", "compare"} =>
       t.release = Release[c] /\ t.genuine = s.genuine /\ t.bytes <= s.bytes
  /\ p = "compare" => t.bytes = s.bytes

DownloadHeld == \A c \in Callers : Fetched(c, pc[c], temp[c], stream[c])

(* A step of caller c keeps that if it keeps c's part of it.               *)
LEMMA DownloadStep ==
  ASSUME TypeOK, DownloadHeld, NEW c \in Callers,
         NEW p, pc' = [pc EXCEPT ![c] = p],
         NEW t, temp' = [temp EXCEPT ![c] = t],
         NEW s, stream' = [stream EXCEPT ![c] = s],
         Fetched(c, p, t, s)
  PROVE  DownloadHeld'
<1>1. pc'[c] = p /\ temp'[c] = t /\ stream'[c] = s
  BY DEF TypeOK
<1>2. \A d \in Callers : d # c => pc'[d] = pc[d] /\ temp'[d] = temp[d] /\ stream'[d] = stream[d]
  BY DEF TypeOK
<1>3. ASSUME NEW d \in Callers PROVE Fetched(d, pc'[d], temp'[d], stream'[d])
  <2>1. CASE d = c
    BY <1>1, <2>1
  <2>2. CASE d # c
    BY <1>2, <2>2 DEF DownloadHeld
  <2> QED BY <2>1, <2>2
<1>4. \A d \in Callers : Fetched(d, pc[d], temp[d], stream[d])' <=> Fetched(d, pc'[d], temp'[d], stream'[d])
  BY DEF Fetched
<1> QED BY <1>3, <1>4 DEF DownloadHeld

(* So it does when it is not a step of the download itself.                *)
LEMMA NoDownloadStep ==
  ASSUME TypeOK, DownloadHeld, NEW c \in Callers, stream' = stream,
         NEW p, p \notin {"read", "compare"}, pc' = [pc EXCEPT ![c] = p],
         NEW t, temp' = [temp EXCEPT ![c] = t]
  PROVE  DownloadHeld'
<1>1. stream' = [stream EXCEPT ![c] = stream[c]] /\ Fetched(c, p, t, stream[c])
  BY DEF TypeOK, DownloadHeld, Fetched
<1> QED BY <1>1, DownloadStep

LEMMA NextDownload == TypeOK /\ Inv /\ DownloadHeld /\ [Next]_vars => DownloadHeld'
<1> SUFFICES ASSUME TypeOK, Inv, DownloadHeld, [Next]_vars PROVE DownloadHeld'
  OBVIOUS
<1> USE HandlerStep DEF Context, Paths, Goto, Put
<1>0. \A c \in Callers : /\ temp = [temp EXCEPT ![c] = temp[c]]
                         /\ stream = [stream EXCEPT ![c] = stream[c]]
                         /\ Fetched(c, pc[c], temp[c], stream[c])
  BY DEF TypeOK, DownloadHeld
<1>1. CASE UNCHANGED vars
  BY <1>1 DEF vars, DownloadHeld, Fetched
<1>2. ASSUME NEW c \in Callers, StartDownload(c) \/ StartStaging(c) PROVE DownloadHeld'
  <2>1. PICK s \in Streams, p \in {"mkstemp", "verify"} :
          /\ pc' = [pc EXCEPT ![c] = p] /\ temp' = [temp EXCEPT ![c] = Nothing]
          /\ stream' = [stream EXCEPT ![c] = s]
    BY <1>0, <1>2 DEF StartDownload, StartStaging, Start, Fetched
  <2>2. Fetched(c, p, Nothing, s)
    BY <2>1 DEF Fetched
  <2> QED BY <2>1, <2>2, DownloadStep
<1>3. ASSUME NEW c \in Callers, TempName(c) PROVE DownloadHeld'
  <2>1. CASE pc[c] = "mkstemp"
    BY <1>3, <2>1, NoDownloadStep DEF TempName
  <2>2. CASE pc[c] = "unlink" /\ ~windows
    BY <1>3, <2>2, NoDownloadStep DEF TempName
  <2>3. CASE pc[c] = "unlink" /\ windows
    BY <1>0, <1>3, <2>3, NoDownloadStep DEF TempName
  <2> QED BY <1>3, <2>1, <2>2, <2>3 DEF TempName
<1>4. ASSUME NEW c \in Callers, OpenStream(c) PROVE DownloadHeld'
  <2> DEFINE t == File(Release[c], 0, stream[c].genuine)
  <2>1. pc' = [pc EXCEPT ![c] = "read"] /\ temp' = [temp EXCEPT ![c] = t] /\ stream' = stream
    BY <1>4 DEF OpenStream
  <2>2. Fetched(c, "read", t, stream[c])
    BY <1>0 DEF Fetched, File, TypeOK
  <2> HIDE DEF t
  <2> QED BY <1>0, <2>1, <2>2, DownloadStep
<1>5. ASSUME NEW c \in Callers, ReadChunk(c) PROVE DownloadHeld'
  <2>1. temp[c] \in Files /\ pc[c] = "read" /\ stream' = stream
    BY <1>5 DEF ReadChunk, Inv, TempHeld
  <2>2. /\ temp[c].release = Release[c] /\ temp[c].genuine = stream[c].genuine
        /\ temp[c].bytes <= stream[c].bytes
    BY <1>0, <2>1 DEF Fetched
  <2>3. temp[c].bytes \in Int /\ stream[c].bytes \in Int
    BY <2>1 DEF Files, TypeOK
  <2>4. CASE temp[c].bytes = stream[c].bytes
    <3>1. pc' = [pc EXCEPT ![c] = "compare"] /\ temp' = temp
      BY <1>5, <2>4 DEF ReadChunk
    <3>2. Fetched(c, "compare", temp[c], stream[c])
      BY <1>0, <2>1, <2>4 DEF Fetched
    <3> QED BY <1>0, <2>1, <3>1, <3>2, DownloadStep
  <2>5. CASE temp[c].bytes # stream[c].bytes /\ temp[c].bytes + 1 > Size
    <3>1. PICK p : p \in {"discard", "clean", "idle"} /\ pc' = [pc EXCEPT ![c] = p] /\ temp' = temp
      BY <1>5, <2>5 DEF ReadChunk
    <3> QED BY <1>0, <2>1, <3>1, NoDownloadStep
  <2>6. CASE temp[c].bytes # stream[c].bytes /\ ~(temp[c].bytes + 1 > Size)
    <3> DEFINE t == [temp[c] EXCEPT !.bytes = @ + 1]
    <3>1. pc' = [pc EXCEPT ![c] = "read"] /\ temp' = [temp EXCEPT ![c] = t]
      BY <1>5, <2>6 DEF ReadChunk
    <3>2. t.release = temp[c].release /\ t.genuine = temp[c].genuine /\ t.bytes = temp[c].bytes + 1
      BY <2>1 DEF Files
    <3> HIDE DEF t
    <3>3. Fetched(c, "read", t, stream[c])
      BY <1>0, <2>2, <2>3, <2>6, <3>2 DEF Fetched
    <3> QED BY <1>0, <2>1, <3>1, <3>3, DownloadStep
  <2> QED BY <2>4, <2>5, <2>6
<1>6. ASSUME NEW c \in Callers,
             \/ Compare(c) \/ Rename(c) \/ Discard(c) \/ VerifyArtifact(c) \/ CheckDestination(c)
             \/ RaiseError(c) \/ Crash(c)
      PROVE  DownloadHeld'
  BY <1>0, <1>6, NoDownloadStep
     DEF Compare, Rename, Discard, VerifyArtifact, CheckDestination, RaiseError, Crash
<1>7. ASSUME NEW c \in Callers, MakeTemp(c) PROVE DownloadHeld'
  <2>1. CASE pc[c] = "mkdtemp"
    BY <1>7, <2>1, NoDownloadStep DEF MakeTemp
  <2>2. CASE pc[c] = "unzip"
    BY <1>7, <2>2, NoDownloadStep DEF MakeTemp
  <2> QED BY <1>7, <2>1, <2>2 DEF MakeTemp
<1>8. ASSUME NEW c \in Callers, CheckMember(c) \/ FindExecutable(c) PROVE DownloadHeld'
  BY <1>0, <1>8, NoDownloadStep DEF CheckMember, FindExecutable
<1>9. ASSUME NEW c \in Callers, WriteMember(c) PROVE DownloadHeld'
  <2>1. CASE Creatable(Zip(c), At(c))
    BY <1>9, <2>1, NoDownloadStep DEF WriteMember
  <2>2. CASE ~Creatable(Zip(c), At(c))
    BY <1>0, <1>9, <2>2, NoDownloadStep DEF WriteMember
  <2> QED BY <2>1, <2>2
<1>10. ASSUME NEW c \in Callers, Publish(c) PROVE DownloadHeld'
  <2>1. CASE staged = Nothing
    BY <1>10, <2>1, NoDownloadStep DEF Publish
  <2>2. CASE staged # Nothing
    BY <1>0, <1>10, <2>2, NoDownloadStep DEF Publish
  <2> QED BY <2>1, <2>2
<1> QED BY <1>1, <1>2, <1>3, <1>4, <1>5, <1>6, <1>7, <1>8, <1>9, <1>10 DEF Next, Progress

(* A caller whose verified artifact is intact has its own release there,   *)
(* and expands no other; a call that has not yet named its temporary path  *)
(* has left nothing at one.                                                *)
IntactHeld ==
  \A c \in intact :
    /\ artifact = Genuine(Release[c])
    /\ pc[c] \in Expanding => temp[c].source = Genuine(Release[c])

Fresh == \A c \in Callers : pc[c] \in {"mkstemp", "verify", "check", "mkdtemp"} => temp[c] = Nothing

LEMMA NextIntact == TypeOK /\ Inv /\ IntactHeld /\ [Next]_vars => IntactHeld'
<1> SUFFICES ASSUME TypeOK, Inv, IntactHeld, [Next]_vars PROVE IntactHeld'
  OBVIOUS
<1> USE HandlerStep DEF Context, Paths, Goto, Put
<1>1. CASE UNCHANGED vars
  BY <1>1 DEF vars, IntactHeld
<1>2. ASSUME NEW c \in Callers, Rename(c) PROVE IntactHeld'
  BY <1>2 DEF Rename, IntactHeld
<1>3. ASSUME NEW c \in Callers, VerifyArtifact(c) PROVE IntactHeld'
  BY <1>3 DEF VerifyArtifact, IntactHeld, Expanding, TypeOK
<1>4. ASSUME NEW c \in Callers,
             \/ StartDownload(c) \/ StartStaging(c) \/ OpenStream(c) \/ Compare(c) \/ Discard(c)
             \/ CheckDestination(c) \/ RaiseError(c) \/ Crash(c)
      PROVE  IntactHeld'
  BY <1>4 DEF StartDownload, StartStaging, Start, OpenStream, Compare, Discard, CheckDestination,
              RaiseError, Crash, IntactHeld, Expanding, TypeOK
<1>5. ASSUME NEW c \in Callers, TempName(c) PROVE IntactHeld'
  BY <1>5 DEF TempName, IntactHeld, Expanding, TypeOK
<1>6. ASSUME NEW c \in Callers, ReadChunk(c) PROVE IntactHeld'
  BY <1>6 DEF ReadChunk, IntactHeld, Expanding, TypeOK
<1>7. ASSUME NEW c \in Callers, MakeTemp(c) PROVE IntactHeld'
  <2>1. CASE pc[c] = "mkdtemp"
    BY <1>7, <2>1 DEF MakeTemp, IntactHeld, Expanding, TypeOK
  <2>2. CASE pc[c] = "unzip"
    BY <1>7, <2>2 DEF MakeTemp, Tree, IntactHeld, Expanding, TypeOK
  <2> QED BY <1>7, <2>1, <2>2 DEF MakeTemp
<1>8. ASSUME NEW c \in Callers, CheckMember(c) \/ FindExecutable(c) PROVE IntactHeld'
  BY <1>8 DEF CheckMember, FindExecutable, IntactHeld, Expanding, TypeOK
<1>9. ASSUME NEW c \in Callers, WriteMember(c) PROVE IntactHeld'
  <2>1. temp[c] \in Trees
    BY <1>9 DEF WriteMember, Inv, TempHeld, Expanding
  <2>2. [temp[c] EXCEPT !.members = @ + 1].source = temp[c].source
    BY <2>1 DEF Trees
  <2> QED BY <1>9, <2>2 DEF WriteMember, IntactHeld, Expanding, TypeOK
<1>10. ASSUME NEW c \in Callers, Publish(c) PROVE IntactHeld'
  BY <1>10 DEF Publish, IntactHeld, Expanding, TypeOK
<1> QED BY <1>1, <1>2, <1>3, <1>4, <1>5, <1>6, <1>7, <1>8, <1>9, <1>10 DEF Next, Progress

LEMMA NextFresh == TypeOK /\ Fresh /\ [Next]_vars => Fresh'
<1> SUFFICES ASSUME TypeOK, Fresh, [Next]_vars PROVE Fresh'
  OBVIOUS
<1> USE HandlerStep DEF Context, Paths, Goto, Put
<1>1. CASE UNCHANGED vars
  BY <1>1 DEF vars, Fresh
<1>2. ASSUME NEW c \in Callers,
             \/ StartDownload(c) \/ StartStaging(c) \/ TempName(c) \/ OpenStream(c) \/ ReadChunk(c)
             \/ Compare(c) \/ Rename(c) \/ Discard(c) \/ RaiseError(c) \/ Crash(c)
      PROVE  Fresh'
  BY <1>2 DEF StartDownload, StartStaging, Start, TempName, OpenStream, ReadChunk, Compare, Rename,
              Discard, RaiseError, Crash, Fresh, TypeOK
<1>3. ASSUME NEW c \in Callers,
             \/ VerifyArtifact(c) \/ CheckDestination(c) \/ MakeTemp(c) \/ CheckMember(c)
             \/ WriteMember(c) \/ FindExecutable(c) \/ Publish(c)
      PROVE  Fresh'
  BY <1>3 DEF VerifyArtifact, CheckDestination, MakeTemp, CheckMember, WriteMember,
              FindExecutable, Publish, Fresh, TypeOK
<1> QED BY <1>1, <1>2, <1>3 DEF Next, Progress

-----------------------------------------------------------------------------
(* A step of caller c without a fault keeps every refusal justified if it  *)
(* justifies c's.                                                          *)
LEMMA JustifiedStep ==
  ASSUME TypeOK, RefusalIsJustified, faults = 0, archive' = archive,
         staged # Nothing => staged' # Nothing,
         NEW c \in Callers, NEW p, pc' = [pc EXCEPT ![c] = p],
         \A d \in Callers : d # c => temp'[d] = temp[d] /\ stream'[d] = stream[d],
         p = "discard" => ~stream'[c].genuine \/ c \notin Lowercase,
         p = "clean" => ~Acceptable(Zip(c)') \/ staged' # Nothing
  PROVE  RefusalIsJustified'
<1>1. pc'[c] = p
  BY DEF TypeOK
<1>2. \A d \in Callers : d # c => pc'[d] = pc[d] /\ Zip(d)' = Zip(d)
  BY DEF TypeOK, Zip
<1>3. ASSUME NEW d \in Callers
      PROVE  /\ pc'[d] = "discard" => ~stream'[d].genuine \/ d \notin Lowercase
             /\ pc'[d] = "clean" => ~Acceptable(Zip(d)') \/ staged' # Nothing
  <2>1. CASE d = c
    BY <1>1, <2>1
  <2>2. CASE d # c
    BY <1>2, <2>2 DEF RefusalIsJustified
  <2> QED BY <2>1, <2>2
<1> QED BY <1>3 DEF RefusalIsJustified

LEMMA NextJustified ==
  TypeOK /\ Inv /\ DownloadHeld /\ RefusalIsJustified /\ [Next]_vars => RefusalIsJustified'
<1> SUFFICES ASSUME TypeOK, Inv, DownloadHeld, RefusalIsJustified, [Next]_vars, faults' = 0
             PROVE  RefusalIsJustified'
  BY DEF RefusalIsJustified
<1> USE HandlerStep DEF Context, Paths, Goto, Put
<1>0. \A c \in Callers : temp = [temp EXCEPT ![c] = temp[c]]
  BY DEF TypeOK
<1>1. CASE UNCHANGED vars
  BY <1>1 DEF vars, RefusalIsJustified, Zip
<1>2. ASSUME NEW c \in Callers, StartDownload(c) \/ StartStaging(c) PROVE RefusalIsJustified'
  BY <1>2, JustifiedStep DEF StartDownload, StartStaging, Start, TypeOK
<1>3. ASSUME NEW c \in Callers, TempName(c) \/ OpenStream(c) \/ MakeTemp(c)
      PROVE  RefusalIsJustified'
  <2>1. PICK p : p \notin {"discard", "clean"} /\ pc' = [pc EXCEPT ![c] = p]
    BY <1>3 DEF TempName, OpenStream, MakeTemp
  <2>2. \A d \in Callers : d # c => temp'[d] = temp[d] /\ stream'[d] = stream[d]
    BY <1>3 DEF TempName, OpenStream, MakeTemp, TypeOK
  <2>3. faults = 0 /\ archive' = archive /\ staged' = staged
    BY <1>3 DEF TempName, OpenStream, MakeTemp
  <2> QED BY <2>1, <2>2, <2>3, JustifiedStep
<1>4. ASSUME NEW c \in Callers, ReadChunk(c) PROVE RefusalIsJustified'
  <2>1. temp[c] \in Files /\ pc[c] = "read" /\ stream' = stream
    BY <1>4 DEF ReadChunk, Inv, TempHeld
  <2>2. /\ temp[c].bytes <= stream[c].bytes
        /\ stream[c].genuine => stream[c].bytes = Size
    BY <2>1 DEF DownloadHeld, Fetched, Streams
  <2>3. temp[c].bytes \in Int /\ stream[c].bytes \in Int
    BY <2>1 DEF Files, TypeOK
  <2>4. PICK p : /\ pc' = [pc EXCEPT ![c] = p]
                 /\ p \in {"discard", "clean"} =>
                      temp[c].bytes # stream[c].bytes /\ temp[c].bytes + 1 > Size /\ p = "discard"
    BY <1>4 DEF ReadChunk, Handler
  <2>5. p = "discard" => ~stream[c].genuine
    BY <2>2, <2>3, <2>4, ConstantsAssumption DEF ConstantsAssumption
  <2>6. \A d \in Callers : d # c => temp'[d] = temp[d]
    BY <1>4 DEF ReadChunk, TypeOK
  <2>7. faults = 0 /\ archive' = archive /\ staged' = staged
    BY <1>4 DEF ReadChunk
  <2> QED BY <2>1, <2>4, <2>5, <2>6, <2>7, JustifiedStep
<1>5. ASSUME NEW c \in Callers, Compare(c) PROVE RefusalIsJustified'
  <2>1. /\ temp[c] \in Files /\ pc[c] = "compare" /\ stream' = stream /\ temp' = temp
        /\ faults = 0 /\ archive' = archive /\ staged' = staged
    BY <1>5 DEF Compare, Inv, TempHeld
  <2>2. PICK p : /\ pc' = [pc EXCEPT ![c] = p]
                 /\ p = IF temp[c] = Genuine(Release[c]) /\ c \in Lowercase
                          THEN "rename" ELSE "discard"
    BY <1>5 DEF Compare, Handler
  <2>3. stream[c].genuine => temp[c] = Genuine(Release[c])
    <3>1. /\ temp[c].release = Release[c] /\ temp[c].genuine = stream[c].genuine
          /\ temp[c].bytes = stream[c].bytes
          /\ stream[c].genuine => stream[c].bytes = Size
      BY <2>1 DEF DownloadHeld, Fetched, Streams
    <3>2. temp[c] = File(temp[c].release, temp[c].bytes, temp[c].genuine)
      BY <2>1 DEF Files, File
    <3>3. stream[c].genuine \in BOOLEAN
      BY DEF TypeOK
    <3>4. stream[c].genuine => temp[c].bytes = Size /\ temp[c].genuine = TRUE
      BY <3>1, <3>3
    <3> QED BY <3>1, <3>2, <3>4 DEF Genuine
  <2> QED BY <2>1, <2>2, <2>3, JustifiedStep
<1>6. ASSUME NEW c \in Callers, Rename(c) \/ Discard(c) PROVE RefusalIsJustified'
  BY <1>6, JustifiedStep DEF Rename, Discard, TypeOK
<1>7. ASSUME NEW c \in Callers, VerifyArtifact(c) \/ CheckDestination(c) PROVE RefusalIsJustified'
  BY <1>7, JustifiedStep DEF VerifyArtifact, CheckDestination, Handler
<1>8. ASSUME NEW c \in Callers, CheckMember(c) \/ WriteMember(c) \/ FindExecutable(c)
      PROVE  RefusalIsJustified'
  <2>1. pc[c] \in Expanding /\ faults = 0 /\ archive' = archive /\ staged' = staged
          /\ stream' = stream
    BY <1>8 DEF CheckMember, WriteMember, FindExecutable, Expanding
  <2>2. PICK r \in Releases : Expands(c, r)
    BY <2>1 DEF Inv, TempHeld
  <2>3. /\ Zip(c) = archive[r] /\ archive[r] \in Seq(Member)
        /\ At(c) = temp[c].members + 1 /\ temp[c].members \in 0 .. Len(archive[r])
    BY <2>2, GenuineFile, ArchiveIsSequence DEF Expands, Zip, At
  <2>4. \A d \in Callers : d # c => temp'[d] = temp[d]
    BY <1>8 DEF CheckMember, WriteMember, FindExecutable, TypeOK
  <2>5. CASE CheckMember(c)
    <3>1. PICK p : /\ pc' = [pc EXCEPT ![c] = p] /\ temp' = temp
                   /\ p = "clean" => /\ temp[c].members # Len(Zip(c))
                                     /\ ~Admissible(Zip(c), At(c))
                   /\ p # "discard"
      BY <2>5 DEF CheckMember, Handler
    <3>2. p = "clean" => ~Acceptable(Zip(c))
      <4>1. temp[c].members # Len(Zip(c)) => At(c) \in 1 .. Len(Zip(c))
        BY <2>3
      <4> QED BY <2>3, <3>1, <4>1, AcceptableIsAdmissible
    <3>3. Zip(c)' = Zip(c)
      BY <2>1, <3>1 DEF Zip
    <3> QED BY <2>1, <2>4, <3>1, <3>2, <3>3, JustifiedStep
  <2>6. CASE WriteMember(c)
    <3>1. PICK p : /\ pc' = [pc EXCEPT ![c] = p]
                   /\ p = "clean" => ~Creatable(Zip(c), At(c)) /\ temp' = temp
                   /\ p # "discard"
      BY <2>6 DEF WriteMember, Handler
    <3>2. p = "clean" => ~Acceptable(Zip(c))
      <4>1. temp[c].members < Len(archive[r]) /\ Len(archive[r]) \in Nat
        BY <2>2, <2>3, <2>6 DEF Expands, WriteMember
      <4>2. At(c) \in 1 .. Len(Zip(c))
        BY <2>3, <4>1
      <4> QED BY <2>3, <3>1, <4>2, AcceptableIsAdmissible
    <3>3. p = "clean" => Zip(c)' = Zip(c)
      BY <2>1, <3>1 DEF Zip
    <3> QED BY <2>1, <2>4, <3>1, <3>2, <3>3, JustifiedStep
  <2>7. CASE FindExecutable(c)
    <3>1. PICK p : /\ pc' = [pc EXCEPT ![c] = p] /\ temp' = temp
                   /\ p = "clean" => ~HasExecutable(Zip(c))
                   /\ p # "discard"
      BY <2>7 DEF FindExecutable, Handler
    <3>2. p = "clean" => ~Acceptable(Zip(c))
      BY <3>1 DEF Acceptable
    <3>3. Zip(c)' = Zip(c)
      BY <2>1, <3>1 DEF Zip
    <3> QED BY <2>1, <2>4, <3>1, <3>2, <3>3, JustifiedStep
  <2> QED BY <1>8, <2>5, <2>6, <2>7
<1>9. ASSUME NEW c \in Callers, Publish(c) PROVE RefusalIsJustified'
  <2>1. temp[c] \in Trees
    BY <1>9 DEF Publish, Inv, TempHeld, Expanding
  <2>2. temp[c] # Nothing
    BY <2>1 DEF Trees, Nothing
  <2>3. CASE staged = Nothing
    BY <1>9, <2>2, <2>3, JustifiedStep DEF Publish, TypeOK
  <2>4. CASE staged # Nothing
    BY <1>9, <2>4, JustifiedStep DEF Publish, Handler
  <2> QED BY <2>3, <2>4
<1>10. ASSUME NEW c \in Callers, RaiseError(c) PROVE RefusalIsJustified'
  BY <1>10 DEF RaiseError, TypeOK
<1>11. ASSUME NEW c \in Callers, Crash(c) PROVE RefusalIsJustified'
  BY <1>11, JustifiedStep DEF Crash
<1> QED BY <1>1, <1>2, <1>3, <1>4, <1>5, <1>6, <1>7, <1>8, <1>9, <1>10, <1>11 DEF Next, Progress

(* In every reachable state a call knows that of its own paths.            *)
THEOREM CallsKnow == Spec => [](DownloadHeld /\ IntactHeld /\ Fresh /\ RefusalIsJustified)
<1>1. Init => DownloadHeld /\ IntactHeld /\ Fresh /\ RefusalIsJustified
  BY ConstantsAssumption
     DEF Init, DownloadHeld, Fetched, Streams, IntactHeld, Fresh, RefusalIsJustified,
         ConstantsAssumption
<1>2. TypeOK /\ Inv /\ DownloadHeld /\ IntactHeld /\ Fresh /\ RefusalIsJustified /\ [Next]_vars
        => DownloadHeld' /\ IntactHeld' /\ Fresh' /\ RefusalIsJustified'
  BY NextDownload, NextIntact, NextFresh, NextJustified
<1> QED BY <1>1, <1>2, Invariance, PTL DEF Spec

(* While nothing raises, a download is discarded only for a stream that    *)
(* does not match or a digest in upper case, and a temporary tree only for *)
(* an archive that is not acceptable or a destination that is taken.       *)
THEOREM RefusalsAreJustified == Spec => []RefusalIsJustified
  BY CallsKnow, PTL

(* A caller stages the release it has verified, unless a download has come *)
(* between.                                                                *)
THEOREM StagesWhatItVerified == Spec => StagedIsVerified
<1> DEFINE A == \A c \in intact : pc[c] = "publish" /\ staged' # staged /\ pc'[c] = "idle"
                                  => staged'.source.release = Release[c]
<1>1. ASSUME TypeOK, IntactHeld, [Next]_vars,
             NEW c \in intact, pc[c] = "publish", staged' # staged, pc'[c] = "idle"
      PROVE  staged'.source.release = Release[c]
  <2>1. PICK d \in Callers : Publish(d)
    BY <1>1 DEF Next, Progress, vars, Context, Paths, StartDownload, StartStaging, Start, TempName,
         OpenStream, ReadChunk, Compare, Rename, Discard, VerifyArtifact, CheckDestination,
         MakeTemp, CheckMember, WriteMember, FindExecutable, RaiseError, Crash
  <2>2. c \in Callers /\ Release[c] \in Releases
    BY <1>1, ConstantsAssumption DEF TypeOK, ConstantsAssumption
  <2>3. d = c
    BY <1>1, <2>1, <2>2, HandlerStep DEF Publish, Goto, TypeOK
  <2>4. staged' = temp[c]
    BY <1>1, <2>1, <2>3 DEF Publish
  <2>5. temp[c].source = Genuine(Release[c])
    BY <1>1 DEF IntactHeld, Expanding
  <2> QED BY <2>2, <2>4, <2>5, GenuineFile
<1>2. TypeOK /\ IntactHeld /\ [Next]_vars => [A]_vars
  BY <1>1
<1> QED BY <1>2, Invariance, CallsKnow, PTL DEF Spec, StagedIsVerified

(* No call that ends, by returning or by raising, leaves its temporary     *)
(* file or tree: only a crash does, an error of the handler itself, or the *)
(* unlink of downloader.py:7 that Windows refuses.                         *)
THEOREM CallsLeaveNothing == Spec => CallsCleanUp
<1> DEFINE A == \A c \in Callers :
                  pc[c] # "idle" /\ pc'[c] = "idle" /\ UNCHANGED <<crashes, faults>>
                    => temp'[c] = Nothing \/ (windows /\ pc[c] = "unlink")
<1>1. ASSUME TypeOK, Fresh, [Next]_vars, UNCHANGED <<crashes, faults>>,
             NEW c \in Callers, pc[c] # "idle", pc'[c] = "idle",
             ~(windows /\ pc[c] = "unlink")
      PROVE  temp'[c] = Nothing
  <2> USE DEF Goto, Put, Context, Paths
  <2>1. CASE UNCHANGED vars
    BY <1>1, <2>1 DEF vars
  <2>2. ASSUME NEW d \in Callers, RaiseError(d) \/ Crash(d) PROVE FALSE
    BY <1>1, <2>2 DEF RaiseError, Crash, TypeOK
  <2>3. ASSUME NEW d \in Callers, StartDownload(d) \/ StartStaging(d) \/ Progress(d)
        PROVE  d = c
    BY <1>1, <2>3 DEF Progress, StartDownload, StartStaging, Start, TempName, OpenStream, ReadChunk,
         Compare, Rename, Discard, VerifyArtifact, CheckDestination, MakeTemp, CheckMember,
         WriteMember, FindExecutable, Publish, TypeOK
  <2>4. CASE StartDownload(c) \/ StartStaging(c) \/ TempName(c) \/ OpenStream(c) \/ MakeTemp(c)
    BY <1>1, <2>4 DEF StartDownload, StartStaging, Start, TempName, OpenStream, MakeTemp, TypeOK
  <2>5. CASE ReadChunk(c) \/ Compare(c) \/ CheckMember(c) \/ WriteMember(c) \/ FindExecutable(c)
    BY <1>1, <2>5 DEF ReadChunk, Compare, CheckMember, WriteMember, FindExecutable, Handler, TypeOK
  <2>6. CASE Rename(c) \/ Discard(c) \/ Publish(c)
    BY <1>1, <2>6 DEF Rename, Discard, Publish, Handler, TypeOK
  <2>7. CASE VerifyArtifact(c) \/ CheckDestination(c)
    BY <1>1, <2>7 DEF VerifyArtifact, CheckDestination, Fresh
  <2> QED BY <1>1, <2>1, <2>2, <2>3, <2>4, <2>5, <2>6, <2>7 DEF Next, Progress
<1>2. TypeOK /\ Fresh /\ [Next]_vars => [A]_vars
  BY <1>1
<1> QED BY <1>2, Invariance, CallsKnow, PTL DEF Spec, CallsCleanUp

-----------------------------------------------------------------------------
(* How far a call is from its end: by the step it is at, and at the steps  *)
(* of a loop by what is left to read or to expand.                         *)
Rank ==
  [s \in Downloading \cup Staging \cup {"idle"} |->
     CASE s = "idle"                        -> 0
       [] s \in {"discard", "clean"}        -> 1
       [] s \in {"rename", "publish"}       -> 2
       [] s \in {"compare", "exe"}          -> 3
       [] s \in {"read", "member", "copy"}  -> 4
       [] s \in {"open", "unzip"}           -> 5
       [] s \in {"unlink", "mkdtemp"}       -> 6
       [] s \in {"mkstemp", "check"}        -> 7
       [] OTHER                             -> 8]

Remaining(c) ==
  CASE pc[c] = "read"   -> Size - temp[c].bytes
    [] pc[c] = "member" -> 2 * (Len(Zip(c)) - temp[c].members)
    [] pc[c] = "copy"   -> 2 * (Len(Zip(c)) - temp[c].members) - 1
    [] OTHER            -> 0

Nearer(c) ==
  \/ Rank[pc'[c]] < Rank[pc[c]]
  \/ Rank[pc'[c]] = Rank[pc[c]] /\ Remaining(c)' < Remaining(c)

Apart(c) == pc'[c] = pc[c] /\ Remaining(c)' = Remaining(c)

LEMMA RemainingType == TypeOK /\ Inv => \A c \in Callers : Remaining(c) \in Nat
<1> SUFFICES ASSUME TypeOK, Inv, NEW c \in Callers PROVE Remaining(c) \in Nat
  OBVIOUS
<1>1. CASE pc[c] = "read"
  <2>1. temp[c] \in Files
    BY <1>1 DEF Inv, TempHeld
  <2>2. temp[c].bytes \in 0 .. Size
    BY <2>1 DEF Files
  <2> QED BY <1>1, <2>2, ConstantsAssumption DEF Remaining, ConstantsAssumption
<1>2. CASE pc[c] \in {"member", "copy"}
  <2>1. PICK r \in Releases : Expands(c, r)
    BY <1>2 DEF Inv, TempHeld, Expanding
  <2>2. Zip(c) = archive[r] /\ Len(archive[r]) \in Nat /\ temp[c].members \in 0 .. Len(archive[r])
    BY <2>1, GenuineFile, ArchiveIsSequence DEF Expands, Zip
  <2>3. pc[c] = "copy" => temp[c].members < Len(archive[r])
    BY <2>1 DEF Expands
  <2> QED BY <1>2, <2>2, <2>3 DEF Remaining
<1>3. CASE pc[c] \notin {"read", "member", "copy"}
  BY <1>3 DEF Remaining
<1> QED BY <1>1, <1>2, <1>3

(* Whoever takes no step keeps what is left of its call. *)
LEMMA OthersWait ==
  ASSUME archive' = archive, NEW d \in Callers, pc'[d] = pc[d], temp'[d] = temp[d]
  PROVE  Apart(d)
  BY DEF Apart, Remaining, Zip

(* Every step of a running call brings it nearer to its end. *)
LEMMA StepsComeNearer ==
  ASSUME TypeOK, Inv, NEW c \in Callers, pc[c] # "idle",
         Progress(c) \/ RaiseError(c) \/ Crash(c)
  PROVE  Nearer(c)
<1> USE DEF Goto, Put, Context, Paths
<1>0. /\ Rank["idle"] = 0 /\ Rank["discard"] = 1 /\ Rank["clean"] = 1
      /\ Rank["rename"] = 2 /\ Rank["publish"] = 2 /\ Rank["compare"] = 3 /\ Rank["exe"] = 3
      /\ Rank["read"] = 4 /\ Rank["member"] = 4 /\ Rank["copy"] = 4
      /\ Rank["open"] = 5 /\ Rank["unzip"] = 5 /\ Rank["unlink"] = 6 /\ Rank["mkdtemp"] = 6
      /\ Rank["mkstemp"] = 7 /\ Rank["check"] = 7 /\ Rank["verify"] = 8
  BY DEF Rank, Downloading, Staging
<1>1. /\ Rank[pc[c]] \in Nat
      /\ IF pc[c] \in {"discard", "clean"} THEN Rank[pc[c]] = 1 ELSE Rank[pc[c]] > 1
  <2>1. pc[c] \in Downloading \cup Staging
    BY DEF TypeOK
  <2> QED BY <1>0, <2>1 DEF Downloading, Staging
<1>2. /\ Handler(c) \in {"discard", "clean", "idle"}
      /\ pc[c] \in {"discard", "clean"} => Handler(c) = "idle"
  BY HandlerStep DEF Handler
<1> HIDE DEF Rank
<1>3. CASE TempName(c) \/ OpenStream(c) \/ MakeTemp(c)
  <2>1. <<pc[c], pc'[c]>> \in {<<"mkstemp", "unlink">>, <<"unlink", "open">>, <<"unlink", "idle">>,
                              <<"open", "read">>, <<"mkdtemp", "unzip">>, <<"unzip", "member">>}
    BY <1>3 DEF TempName, OpenStream, MakeTemp, TypeOK
  <2> QED BY <1>0, <2>1 DEF Nearer
<1>4. CASE Compare(c) \/ VerifyArtifact(c) \/ CheckDestination(c) \/ FindExecutable(c)
  <2>1. \/ <<pc[c], pc'[c]>> \in {<<"compare", "rename">>, <<"verify", "check">>,
                                 <<"check", "mkdtemp">>, <<"exe", "publish">>}
        \/ pc[c] \in {"compare", "verify", "check", "exe"} /\ pc'[c] = Handler(c)
    BY <1>4 DEF Compare, VerifyArtifact, CheckDestination, FindExecutable, TypeOK
  <2> QED BY <1>0, <1>2, <2>1 DEF Nearer
<1>5. CASE Rename(c) \/ Discard(c) \/ Publish(c) \/ Crash(c)
  <2>1. pc'[c] = "idle" \/ (pc[c] = "publish" /\ pc'[c] = Handler(c))
    <3>1. CASE Publish(c)
      BY <3>1 DEF Publish, TypeOK
    <3>2. CASE Rename(c) \/ Discard(c) \/ Crash(c)
      BY <3>2 DEF Rename, Discard, Crash, TypeOK
    <3> QED BY <1>5, <3>1, <3>2
  <2> QED BY <1>0, <1>1, <1>2, <2>1 DEF Nearer
<1>6. CASE RaiseError(c)
  <2>1. pc'[c] = Handler(c)
    BY <1>6 DEF RaiseError, TypeOK
  <2> QED BY <1>0, <1>1, <1>2, <2>1 DEF Nearer
<1>7. CASE ReadChunk(c)
  <2>1. temp[c] \in Files /\ pc[c] = "read"
    BY <1>7 DEF ReadChunk, Inv, TempHeld
  <2>2. CASE temp[c].bytes = stream[c].bytes \/ temp[c].bytes + 1 > Size
    <3>1. pc'[c] = "compare" \/ pc'[c] = Handler(c)
      BY <1>7, <2>2 DEF ReadChunk, TypeOK
    <3> QED BY <1>0, <1>2, <2>1, <3>1 DEF Nearer
  <2>3. CASE ~(temp[c].bytes = stream[c].bytes \/ temp[c].bytes + 1 > Size)
    <3> DEFINE t == [temp[c] EXCEPT !.bytes = @ + 1]
    <3>1. pc' = [pc EXCEPT ![c] = "read"] /\ temp' = [temp EXCEPT ![c] = t]
      BY <1>7, <2>3 DEF ReadChunk
    <3>2. t.bytes = temp[c].bytes + 1 /\ temp[c].bytes \in 0 .. Size
      BY <2>1 DEF Files
    <3>3. temp'[c] = t /\ pc'[c] = "read"
      BY <3>1 DEF TypeOK
    <3> HIDE DEF t
    <3>4. Remaining(c)' = Size - temp'[c].bytes /\ Remaining(c) = Size - temp[c].bytes
      BY <2>1, <3>3 DEF Remaining
    <3>5. Remaining(c)' < Remaining(c)
      BY <3>2, <3>3, <3>4, ConstantsAssumption DEF ConstantsAssumption
    <3> QED BY <2>1, <3>3, <3>5 DEF Nearer
  <2> QED BY <2>2, <2>3
<1>8. CASE CheckMember(c) \/ WriteMember(c)
  <2>1. pc[c] \in {"member", "copy"} /\ temp[c] \in Trees /\ archive' = archive
    BY <1>8 DEF CheckMember, WriteMember, Inv, TempHeld, Expanding
  <2>2. PICK r \in Releases : Expands(c, r)
    BY <2>1 DEF Inv, TempHeld, Expanding
  <2>3. /\ Zip(c) = archive[r] /\ Len(archive[r]) \in Nat
        /\ temp[c].members \in 0 .. Len(archive[r])
    BY <2>2, GenuineFile, ArchiveIsSequence DEF Expands, Zip
  <2>4. CASE CheckMember(c)
    <3>1. pc[c] = "member" /\ temp' = temp
      BY <2>4 DEF CheckMember
    <3>2. CASE pc'[c] = "copy"
      <4>1. Zip(c)' = Zip(c)
        BY <2>1, <3>1 DEF Zip
      <4>2. /\ Remaining(c)' = 2 * (Len(archive[r]) - temp[c].members) - 1
            /\ Remaining(c) = 2 * (Len(archive[r]) - temp[c].members)
        BY <2>3, <3>1, <3>2, <4>1 DEF Remaining
      <4>3. Remaining(c)' < Remaining(c)
        BY <2>3, <4>2
      <4> QED BY <1>0, <3>1, <3>2, <4>3 DEF Nearer
    <3>3. CASE pc'[c] # "copy"
      <4>1. pc'[c] = "exe" \/ pc'[c] = Handler(c)
        BY <2>4, <3>3 DEF CheckMember, TypeOK
      <4> QED BY <1>0, <1>2, <3>1, <4>1 DEF Nearer
    <3> QED BY <3>2, <3>3
  <2>5. CASE WriteMember(c)
    <3>1. pc[c] = "copy"
      BY <2>5 DEF WriteMember
    <3>2. CASE ~Creatable(Zip(c), At(c))
      <4>1. pc'[c] = Handler(c)
        BY <2>5, <3>2 DEF WriteMember, TypeOK
      <4> QED BY <1>0, <1>2, <3>1, <4>1 DEF Nearer
    <3>3. CASE Creatable(Zip(c), At(c))
      <4> DEFINE t == [temp[c] EXCEPT !.members = @ + 1]
      <4>1. pc' = [pc EXCEPT ![c] = "member"] /\ temp' = [temp EXCEPT ![c] = t]
        BY <2>5, <3>3 DEF WriteMember
      <4>2. t.members = temp[c].members + 1 /\ t.source = temp[c].source
        BY <2>1 DEF Trees
      <4>3. temp'[c] = t /\ pc'[c] = "member"
        BY <4>1 DEF TypeOK
      <4> HIDE DEF t
      <4>4. Zip(c)' = Zip(c)
        BY <2>1, <4>2, <4>3 DEF Zip
      <4>5. /\ Remaining(c)' = 2 * (Len(archive[r]) - (temp[c].members + 1))
            /\ Remaining(c) = 2 * (Len(archive[r]) - temp[c].members) - 1
        BY <2>3, <3>1, <4>2, <4>3, <4>4 DEF Remaining
      <4>6. Remaining(c)' < Remaining(c)
        BY <2>3, <4>5
      <4> QED BY <1>0, <3>1, <4>3, <4>6 DEF Nearer
    <3> QED BY <3>2, <3>3
  <2> QED BY <1>8, <2>4, <2>5
<1> QED BY <1>3, <1>4, <1>5, <1>6, <1>7, <1>8 DEF Progress

(* download_verified and stage_verified_zip come to an end by themselves:  *)
(* what is left of a call is a natural number at each of finitely many     *)
(* ranks, every step of the call goes to a lower rank or leaves less, and  *)
(* no step of another caller adds to it.  (That a running call has a step  *)
(* to take, and takes it, is the fairness under which TLC checks CallsEnd.)*)
THEOREM CallsRunOut ==
  Spec =>
    /\ [](\A c \in Callers : Rank[pc[c]] \in Nat /\ Remaining(c) \in Nat)
    /\ [][\A c \in Callers : pc[c] # "idle" =>
            /\ Nearer(c) \/ Apart(c)
            /\ Progress(c) \/ RaiseError(c) \/ Crash(c) => Nearer(c)]_vars
<1> DEFINE A == \A c \in Callers : pc[c] # "idle" =>
                  /\ Nearer(c) \/ Apart(c)
                  /\ Progress(c) \/ RaiseError(c) \/ Crash(c) => Nearer(c)
           I == \A c \in Callers : Rank[pc[c]] \in Nat /\ Remaining(c) \in Nat
<1>1. TypeOK /\ Inv => I
  BY RemainingType DEF TypeOK, Rank
<1>2. ASSUME TypeOK, Inv, [Next]_vars, NEW c \in Callers, pc[c] # "idle"
      PROVE  /\ Nearer(c) \/ Apart(c)
             /\ Progress(c) \/ RaiseError(c) \/ Crash(c) => Nearer(c)
  <2>1. Progress(c) \/ RaiseError(c) \/ Crash(c) => Nearer(c)
    BY <1>2, StepsComeNearer
  <2>2. ASSUME NEW d \in Callers, d # c,
               \/ StartDownload(d) \/ StartStaging(d) \/ Progress(d)
               \/ RaiseError(d) \/ Crash(d)
        PROVE  Apart(c)
    <3>1. archive' = archive /\ pc'[c] = pc[c] /\ temp'[c] = temp[c]
      BY <1>2, <2>2 DEF Goto, Put, Context, Paths, Progress, StartDownload, StartStaging, Start,
           TempName, OpenStream, ReadChunk, Compare, Rename, Discard, VerifyArtifact,
           CheckDestination, MakeTemp, CheckMember, WriteMember, FindExecutable, Publish,
           RaiseError, Crash, TypeOK
    <3> QED BY <3>1, OthersWait
  <2>3. ~StartDownload(c) /\ ~StartStaging(c)
    BY <1>2 DEF StartDownload, StartStaging, Start
  <2>4. CASE UNCHANGED vars
    BY <1>2, <2>1, <2>4, OthersWait DEF vars
  <2>5. CASE Next
    <3>1. PICK d \in Callers :
            StartDownload(d) \/ StartStaging(d) \/ Progress(d) \/ RaiseError(d) \/ Crash(d)
      BY <2>5 DEF Next
    <3>2. CASE d = c
      BY <2>1, <2>3, <3>1, <3>2
    <3>3. CASE d # c
      BY <2>1, <2>2, <3>1, <3>3
    <3> QED BY <3>2, <3>3
  <2> QED BY <1>2, <2>1, <2>4, <2>5
<1>3. TypeOK /\ Inv /\ [Next]_vars => [A]_vars
  BY <1>2
<1> HIDE DEF A, I
<1>4. Spec => []I /\ [][A]_vars
  BY <1>1, <1>3, Invariance, PTL DEF Spec
<1> QED BY <1>4 DEF A, I
=============================================================================
