------------------------- MODULE HelperReplaceProofs -------------------------
(***************************************************************************)
(* Proofs about HelperReplace, for any number of helper runs, crashes and  *)
(* errors: a run never loses the installation it found, and its outcome    *)
(* and its record mean what they say.                                      *)
(***************************************************************************)
EXTENDS HelperReplace, InstallTreeProofs

(* While a run lasts, neither outcome nor record is there yet.             *)
UndecidedWhileRunning == pc # "idle" => outcome = "none" /\ record = "NONE"

(* The installation is untouched until its backup is complete, ...         *)
BackupFirst ==
  /\ pc \in Preparing => install = base
  /\ pc \notin Preparing \cup {"idle"} => backup = base
  /\ BaseSurvives

(* ... the staged tree is complete when it is launched, ...                *)
CandidateInPlace ==
  /\ pc \in {"launch", "await", "COMMITTED"} => install = Whole(attempt)
  /\ pc = "COMMITTED" /\ plan.launch /\ plan.marker => marked
  /\ ReturnedMeansReplaced

(* ... and so is the backup when it is launched again.                     *)
BaseRestored ==
  /\ pc \in {"relaunch", "reawait", "ROLLED_BACK", "FAILED"} => install = base
  /\ pc = "ROLLED_BACK" /\ plan.launch /\ plan.marker => marked
  /\ FailureRecordMeansRestored

(* The process waited for is older than the run, so that none the run      *)
(* launches takes its place.                                               *)
TargetIsOlder ==
  /\ \A p \in running : p[1] <= attempt
  /\ pc # "idle" => attempt > 0 /\ plan.target[1] < attempt
  /\ TargetHasExited

Inv ==
  /\ UndecidedWhileRunning /\ BackupFirst /\ CandidateInPlace /\ BaseRestored
  /\ TargetIsOlder /\ VerifiedCandidateIsStopped

-----------------------------------------------------------------------------
(* The initial state is well typed and satisfies the invariant. *)
LEMMA InitOK == Init => TypeOK /\ Inv
<1> SUFFICES ASSUME Init PROVE TypeOK /\ Inv
  OBVIOUS
<1> USE ConstantsAssumption DEF ConstantsAssumption, Init
<1>1. install \in Tree(Releases) /\ backup \in Tree(Releases)
  <2>1. Whole(0) \in Tree(Releases)
    BY WholeTree DEF Releases
  <2> QED BY <2>1 DEF Tree
<1>2. running \subseteq Process /\ plan \in Plan
  BY DEF Process, Plan
<1>3. TypeOK
  <2>1. base \in Tree(Releases) /\ good \in Tree(Releases) /\ pc \in Steps
    BY <1>1 DEF Steps
  <2>2. attempt \in 0 .. MaxAttempts /\ crashes \in 0 .. MaxCrashes /\ faults \in 0 .. MaxFaults
    OBVIOUS
  <2>3. launched \in BOOLEAN /\ marked \in BOOLEAN
    OBVIOUS
  <2>4. record = "NONE" /\ outcome = "none"
    OBVIOUS
  <2> HIDE DEF Init
  <2> QED BY <1>1, <1>2, <2>1, <2>2, <2>3, <2>4 DEF TypeOK
<1>4. UndecidedWhileRunning /\ BackupFirst /\ CandidateInPlace /\ BaseRestored
  BY DEF UndecidedWhileRunning, BackupFirst, CandidateInPlace, BaseRestored, BaseSurvives,
         Preparing, ReturnedMeansReplaced, FailureRecordMeansRestored
<1>5. TargetIsOlder /\ VerifiedCandidateIsStopped
  BY DEF TargetIsOlder, TargetHasExited, VerifiedCandidateIsStopped
<1> QED BY <1>3, <1>4, <1>5 DEF Inv

(* Where an exception goes: the first handler takes those of the try block, *)
(* the second those of the second launch.                                  *)
LEMMA HandlerStep ==
  /\ Handler \in {"stop", "FAILED", "idle"}
  /\ Handler = "stop" => pc \in Trying
  /\ Handler = "FAILED" => pc \in Restarting
  BY DEF Handler, Trying, Restarting

(* Every step of the helper and of its environment keeps the types. *)
LEMMA NextTypeOK == TypeOK /\ Inv /\ [Next]_vars => TypeOK'
<1> SUFFICES ASSUME TypeOK, Inv, [Next]_vars PROVE TypeOK'
  OBVIOUS
<1> USE ConstantsAssumption, HandlerStep
      DEF TypeOK, Context, ConstantsAssumption, Raised, Proceed,
          Steps, Preparing, Trying, Restoring, Restarting
<1>1. CASE Begin
  <2>1. plan' \in Plan /\ pc' \in Steps /\ attempt' \in 0 .. MaxAttempts
    BY <1>1 DEF Begin
  <2>2. base' \in Tree(Releases) /\ good' \in Tree(Releases)
    BY <1>1 DEF Begin
  <2>3. launched' = FALSE /\ marked' = FALSE /\ record' = "NONE" /\ outcome' = "none"
    BY <1>1 DEF Begin
  <2> QED BY <1>1, <2>1, <2>2, <2>3 DEF Begin
<1>2. CASE ValidatePlan
  BY <1>2 DEF ValidatePlan
<1>3. CASE TargetExited
  BY <1>3 DEF TargetExited
<1>4. CASE WaitTimeout
  BY <1>4 DEF WaitTimeout
<1>5. CASE RemoveOldBackup
  BY <1>5, ShrinkTree DEF RemoveOldBackup
<1>6. CASE MakeBackup
  BY <1>6, GrowTree DEF MakeBackup
<1>7. CASE RemoveRoot
  BY <1>7, ShrinkTree DEF RemoveRoot
<1>8. CASE CopyStaged
  <2>1. Whole(attempt) \in Tree(Releases)
    BY WholeTree DEF Releases
  <2> QED BY <1>8, <2>1, GrowTree DEF CopyStaged
<1>9. CASE RestoreBackup
  BY <1>9, GrowTree DEF RestoreBackup
<1>10. CASE Spawn
  <2>1. Launching \in Process
    BY DEF Launching, Candidate, Restored, Process
  <2>2. plan.launch \in BOOLEAN
    BY DEF Plan
  <2> QED BY <1>10, <2>1, <2>2 DEF Spawn, Verified
<1>11. CASE Ready
  <2>1. plan.launch \in BOOLEAN
    BY DEF Plan
  <2> QED BY <1>11, <2>1 DEF Ready, Verified
<1>12. CASE Exited
  <2>1. plan.launch \in BOOLEAN
    BY DEF Plan
  <2> QED BY <1>12, <2>1 DEF Exited, Verified
<1>13. CASE StartupDeadline
  <2>1. plan.launch \in BOOLEAN
    BY DEF Plan
  <2> QED BY <1>13, <2>1 DEF StartupDeadline, Verified
<1>14. CASE Stop
  BY <1>14 DEF Stop
<1>15. CASE Terminal
  BY <1>15 DEF Terminal
<1>16. CASE TargetUnseen
  BY <1>16 DEF TargetUnseen
<1>17. CASE RaiseError
  BY <1>17 DEF RaiseError
<1>18. CASE Crash
  <2>1. crashes' \in 0 .. MaxCrashes
    BY <1>18 DEF Crash
  <2>2. launched' = FALSE /\ pc' = "idle" /\ pc' \in Steps
    BY <1>18 DEF Crash
  <2> QED BY <1>18, <2>1, <2>2 DEF Crash
<1>19. CASE PrintMarker
  BY <1>19 DEF PrintMarker
<1>20. CASE ApplicationExits
  <2>1. running' \subseteq Process
    BY <1>20 DEF ApplicationExits
  <2> QED BY <1>20, <2>1 DEF ApplicationExits
<1>21. CASE UNCHANGED vars
  BY <1>21 DEF vars
<1> QED
  BY <1>1, <1>2, <1>3, <1>4, <1>5, <1>6, <1>7, <1>8, <1>9, <1>10, <1>11, <1>12, <1>13,
     <1>14, <1>15, <1>16, <1>17, <1>18, <1>19, <1>20, <1>21 DEF Next, Progress

(* Every step of the helper and of its environment preserves the invariant. *)
LEMMA NextInv == TypeOK /\ Inv /\ [Next]_vars => Inv'
<1> SUFFICES ASSUME TypeOK, Inv, [Next]_vars PROVE Inv'
  OBVIOUS
<1> USE HandlerStep
      DEF Inv, TypeOK, Context, Raised, Proceed, Preparing, Trying, Restoring, Restarting,
          UndecidedWhileRunning, BackupFirst, CandidateInPlace, BaseRestored, TargetIsOlder,
          BaseSurvives, ReturnedMeansReplaced, FailureRecordMeansRestored, TargetHasExited,
          VerifiedCandidateIsStopped
<1>1. CASE Begin
  <2>1. UndecidedWhileRunning' BY <1>1 DEF Begin, Process
  <2>2. BackupFirst' BY <1>1 DEF Begin, Process
  <2>3. CandidateInPlace' BY <1>1 DEF Begin, Process
  <2>4. BaseRestored' BY <1>1 DEF Begin, Process
  <2>5. TargetIsOlder'
    <3>1. attempt' = attempt + 1 /\ attempt \in Nat /\ running' = running /\ pc' = "validate"
      BY <1>1, ConstantsAssumption DEF Begin, ConstantsAssumption
    <3>2. \A p \in running' : p[1] <= attempt'
      <4>1. \A p \in running : p[1] \in Nat
        BY ConstantsAssumption DEF Process, ConstantsAssumption
      <4> QED BY <3>1, <4>1
    <3>3. plan'.target \in running \/ plan'.target = NoProcess
      BY <1>1 DEF Begin
    <3>4. plan'.target[1] < attempt'
      <4>1. CASE plan'.target \in running
        <5>1. plan'.target[1] <= attempt /\ plan'.target[1] \in Nat
          BY <4>1, ConstantsAssumption DEF Process, ConstantsAssumption
        <5> QED BY <5>1, <3>1
      <4>2. CASE plan'.target = NoProcess
        BY <4>2, <3>1 DEF NoProcess
      <4> QED BY <3>3, <4>1, <4>2
    <3> QED BY <3>1, <3>2, <3>4
  <2>6. VerifiedCandidateIsStopped' BY <1>1 DEF Begin, Process, Candidate
  <2> QED BY <2>1, <2>2, <2>3, <2>4, <2>5, <2>6
<1>2. CASE ValidatePlan
  <2>1. UndecidedWhileRunning' BY <1>2 DEF ValidatePlan
  <2>2. BackupFirst' BY <1>2 DEF ValidatePlan
  <2>3. CandidateInPlace' BY <1>2 DEF ValidatePlan
  <2>4. BaseRestored' BY <1>2 DEF ValidatePlan
  <2>5. TargetIsOlder' BY <1>2 DEF ValidatePlan
  <2>6. VerifiedCandidateIsStopped' BY <1>2 DEF ValidatePlan, Candidate
  <2> QED BY <2>1, <2>2, <2>3, <2>4, <2>5, <2>6
<1>3. CASE TargetExited
  <2>1. UndecidedWhileRunning' BY <1>3 DEF TargetExited
  <2>2. BackupFirst' BY <1>3 DEF TargetExited
  <2>3. CandidateInPlace' BY <1>3 DEF TargetExited
  <2>4. BaseRestored' BY <1>3 DEF TargetExited
  <2>5. TargetIsOlder' BY <1>3 DEF TargetExited
  <2>6. VerifiedCandidateIsStopped' BY <1>3 DEF TargetExited, Candidate
  <2> QED BY <2>1, <2>2, <2>3, <2>4, <2>5, <2>6
<1>4. CASE WaitTimeout
  <2>1. UndecidedWhileRunning' BY <1>4 DEF WaitTimeout
  <2>2. BackupFirst' BY <1>4 DEF WaitTimeout
  <2>3. CandidateInPlace' BY <1>4 DEF WaitTimeout
  <2>4. BaseRestored' BY <1>4 DEF WaitTimeout
  <2>5. TargetIsOlder' BY <1>4 DEF WaitTimeout
  <2>6. VerifiedCandidateIsStopped' BY <1>4 DEF WaitTimeout, Candidate
  <2> QED BY <2>1, <2>2, <2>3, <2>4, <2>5, <2>6
<1>5. CASE RemoveOldBackup
  <2>1. UndecidedWhileRunning' BY <1>5 DEF RemoveOldBackup
  <2>2. BackupFirst' BY <1>5 DEF RemoveOldBackup
  <2>3. CandidateInPlace' BY <1>5 DEF RemoveOldBackup
  <2>4. BaseRestored' BY <1>5 DEF RemoveOldBackup
  <2>5. TargetIsOlder' BY <1>5 DEF RemoveOldBackup
  <2>6. VerifiedCandidateIsStopped' BY <1>5 DEF RemoveOldBackup, Candidate
  <2> QED BY <2>1, <2>2, <2>3, <2>4, <2>5, <2>6
<1>6. CASE MakeBackup
  <2>1. UndecidedWhileRunning' BY <1>6 DEF MakeBackup
  <2>2. BackupFirst' BY <1>6 DEF MakeBackup
  <2>3. CandidateInPlace' BY <1>6 DEF MakeBackup
  <2>4. BaseRestored' BY <1>6 DEF MakeBackup
  <2>5. TargetIsOlder' BY <1>6 DEF MakeBackup
  <2>6. VerifiedCandidateIsStopped' BY <1>6 DEF MakeBackup, Candidate
  <2> QED BY <2>1, <2>2, <2>3, <2>4, <2>5, <2>6
<1>7. CASE RemoveRoot
  <2>1. UndecidedWhileRunning' BY <1>7 DEF RemoveRoot
  <2>2. BackupFirst' BY <1>7 DEF RemoveRoot
  <2>3. CandidateInPlace' BY <1>7 DEF RemoveRoot
  <2>4. BaseRestored' BY <1>7 DEF RemoveRoot
  <2>5. TargetIsOlder' BY <1>7 DEF RemoveRoot
  <2>6. VerifiedCandidateIsStopped' BY <1>7 DEF RemoveRoot, Candidate
  <2> QED BY <2>1, <2>2, <2>3, <2>4, <2>5, <2>6
<1>8. CASE CopyStaged
  <2>1. UndecidedWhileRunning' BY <1>8 DEF CopyStaged
  <2>2. BackupFirst' BY <1>8 DEF CopyStaged
  <2>3. CandidateInPlace' BY <1>8 DEF CopyStaged
  <2>4. BaseRestored' BY <1>8 DEF CopyStaged
  <2>5. TargetIsOlder' BY <1>8 DEF CopyStaged
  <2>6. VerifiedCandidateIsStopped' BY <1>8 DEF CopyStaged, Candidate
  <2> QED BY <2>1, <2>2, <2>3, <2>4, <2>5, <2>6
<1>9. CASE RestoreBackup
  <2>1. UndecidedWhileRunning' BY <1>9 DEF RestoreBackup
  <2>2. BackupFirst' BY <1>9 DEF RestoreBackup
  <2>3. CandidateInPlace' BY <1>9 DEF RestoreBackup
  <2>4. BaseRestored' BY <1>9 DEF RestoreBackup
  <2>5. TargetIsOlder' BY <1>9 DEF RestoreBackup
  <2>6. VerifiedCandidateIsStopped' BY <1>9 DEF RestoreBackup, Candidate
  <2> QED BY <2>1, <2>2, <2>3, <2>4, <2>5, <2>6
<1>10. CASE Spawn
  <2>1. UndecidedWhileRunning' BY <1>10 DEF Spawn, Verified, Launching, Candidate, Restored
  <2>2. BackupFirst' BY <1>10 DEF Spawn, Verified, Launching, Candidate, Restored
  <2>3. CandidateInPlace' BY <1>10 DEF Spawn, Verified, Launching, Candidate, Restored
  <2>4. BaseRestored' BY <1>10 DEF Spawn, Verified, Launching, Candidate, Restored
  <2>5. TargetIsOlder' BY <1>10 DEF Spawn, Verified, Launching, Candidate, Restored
  <2>6. VerifiedCandidateIsStopped' BY <1>10 DEF Spawn, Verified, Launching, Candidate, Restored
  <2> QED BY <2>1, <2>2, <2>3, <2>4, <2>5, <2>6
<1>11. CASE Ready
  <2>1. UndecidedWhileRunning' BY <1>11 DEF Ready, Verified, Launching
  <2>2. BackupFirst' BY <1>11 DEF Ready, Verified, Launching
  <2>3. CandidateInPlace' BY <1>11 DEF Ready, Verified, Launching
  <2>4. BaseRestored' BY <1>11 DEF Ready, Verified, Launching
  <2>5. TargetIsOlder' BY <1>11 DEF Ready, Verified, Launching
  <2>6. VerifiedCandidateIsStopped' BY <1>11 DEF Ready, Verified, Launching, Candidate
  <2> QED BY <2>1, <2>2, <2>3, <2>4, <2>5, <2>6
<1>12. CASE Exited
  <2>1. UndecidedWhileRunning' BY <1>12 DEF Exited, Verified, Launching
  <2>2. BackupFirst' BY <1>12 DEF Exited, Verified, Launching
  <2>3. CandidateInPlace' BY <1>12 DEF Exited, Verified, Launching
  <2>4. BaseRestored' BY <1>12 DEF Exited, Verified, Launching
  <2>5. TargetIsOlder' BY <1>12 DEF Exited, Verified, Launching
  <2>6. VerifiedCandidateIsStopped' BY <1>12 DEF Exited, Verified, Launching, Candidate
  <2> QED BY <2>1, <2>2, <2>3, <2>4, <2>5, <2>6
<1>13. CASE StartupDeadline
  <2>1. UndecidedWhileRunning' BY <1>13 DEF StartupDeadline, Verified, Launching
  <2>2. BackupFirst' BY <1>13 DEF StartupDeadline, Verified, Launching
  <2>3. CandidateInPlace' BY <1>13 DEF StartupDeadline, Verified, Launching
  <2>4. BaseRestored' BY <1>13 DEF StartupDeadline, Verified, Launching
  <2>5. TargetIsOlder' BY <1>13 DEF StartupDeadline, Verified, Launching
  <2>6. VerifiedCandidateIsStopped' BY <1>13 DEF StartupDeadline, Verified, Launching, Candidate
  <2> QED BY <2>1, <2>2, <2>3, <2>4, <2>5, <2>6
<1>14. CASE Stop
  <2>1. UndecidedWhileRunning' BY <1>14 DEF Stop, Candidate
  <2>2. BackupFirst' BY <1>14 DEF Stop, Candidate
  <2>3. CandidateInPlace' BY <1>14 DEF Stop, Candidate
  <2>4. BaseRestored' BY <1>14 DEF Stop, Candidate
  <2>5. TargetIsOlder' BY <1>14 DEF Stop, Candidate
  <2>6. VerifiedCandidateIsStopped' BY <1>14 DEF Stop, Candidate
  <2> QED BY <2>1, <2>2, <2>3, <2>4, <2>5, <2>6
<1>15. CASE Terminal
  <2>1. UndecidedWhileRunning' BY <1>15 DEF Terminal
  <2>2. BackupFirst' BY <1>15 DEF Terminal
  <2>3. CandidateInPlace' BY <1>15 DEF Terminal
  <2>4. BaseRestored' BY <1>15 DEF Terminal
  <2>5. TargetIsOlder' BY <1>15 DEF Terminal
  <2>6. VerifiedCandidateIsStopped' BY <1>15 DEF Terminal, Candidate
  <2> QED BY <2>1, <2>2, <2>3, <2>4, <2>5, <2>6
<1>16. CASE TargetUnseen
  <2>1. UndecidedWhileRunning' BY <1>16 DEF TargetUnseen
  <2>2. BackupFirst' BY <1>16 DEF TargetUnseen
  <2>3. CandidateInPlace' BY <1>16 DEF TargetUnseen
  <2>4. BaseRestored' BY <1>16 DEF TargetUnseen
  <2>5. TargetIsOlder' BY <1>16 DEF TargetUnseen
  <2>6. VerifiedCandidateIsStopped' BY <1>16 DEF TargetUnseen, Candidate
  <2> QED BY <2>1, <2>2, <2>3, <2>4, <2>5, <2>6
<1>17. CASE RaiseError
  <2>1. UndecidedWhileRunning' BY <1>17 DEF RaiseError, Handler
  <2>2. BackupFirst' BY <1>17 DEF RaiseError, Handler
  <2>3. CandidateInPlace' BY <1>17 DEF RaiseError, Handler
  <2>4. BaseRestored' BY <1>17 DEF RaiseError, Handler
  <2>5. TargetIsOlder' BY <1>17 DEF RaiseError, Handler
  <2>6. VerifiedCandidateIsStopped' BY <1>17 DEF RaiseError, Handler, Candidate
  <2> QED BY <2>1, <2>2, <2>3, <2>4, <2>5, <2>6
<1>18. CASE Crash
  <2>1. UndecidedWhileRunning' BY <1>18 DEF Crash
  <2>2. BackupFirst' BY <1>18 DEF Crash
  <2>3. CandidateInPlace' BY <1>18 DEF Crash
  <2>4. BaseRestored' BY <1>18 DEF Crash
  <2>5. TargetIsOlder' BY <1>18 DEF Crash
  <2>6. VerifiedCandidateIsStopped' BY <1>18 DEF Crash, Candidate
  <2> QED BY <2>1, <2>2, <2>3, <2>4, <2>5, <2>6
<1>19. CASE PrintMarker
  <2>1. UndecidedWhileRunning' BY <1>19 DEF PrintMarker
  <2>2. BackupFirst' BY <1>19 DEF PrintMarker
  <2>3. CandidateInPlace' BY <1>19 DEF PrintMarker
  <2>4. BaseRestored' BY <1>19 DEF PrintMarker
  <2>5. TargetIsOlder' BY <1>19 DEF PrintMarker
  <2>6. VerifiedCandidateIsStopped' BY <1>19 DEF PrintMarker, Candidate
  <2> QED BY <2>1, <2>2, <2>3, <2>4, <2>5, <2>6
<1>20. CASE ApplicationExits
  <2>1. UndecidedWhileRunning' BY <1>20 DEF ApplicationExits
  <2>2. BackupFirst' BY <1>20 DEF ApplicationExits
  <2>3. CandidateInPlace' BY <1>20 DEF ApplicationExits
  <2>4. BaseRestored' BY <1>20 DEF ApplicationExits
  <2>5. TargetIsOlder' BY <1>20 DEF ApplicationExits
  <2>6. VerifiedCandidateIsStopped' BY <1>20 DEF ApplicationExits, Candidate
  <2> QED BY <2>1, <2>2, <2>3, <2>4, <2>5, <2>6
<1>21. CASE UNCHANGED vars
  BY <1>21 DEF vars, Candidate
<1> QED
  BY <1>1, <1>2, <1>3, <1>4, <1>5, <1>6, <1>7, <1>8, <1>9, <1>10, <1>11,
     <1>12, <1>13, <1>14, <1>15, <1>16, <1>17, <1>18, <1>19, <1>20, <1>21 DEF Next, Progress

(* In every reachable state the variables have their types and Inv holds. *)
THEOREM Invariance == Spec => [](TypeOK /\ Inv)
<1>1. TypeOK /\ Inv /\ [Next]_vars => TypeOK' /\ Inv'
  BY NextTypeOK, NextInv
<1> QED BY <1>1, InitOK, PTL DEF Spec

-----------------------------------------------------------------------------
(* The variables of replace_and_launch keep their types. *)
THEOREM TypeCorrectness == Spec => []TypeOK
  BY Invariance, PTL

(* However a run ends, by a crash too, one of the two roots holds the      *)
(* installation it found: rmtree(root) comes after the whole copy.         *)
THEOREM NothingIsLost == Spec => []BaseSurvives
<1>1. Inv => BaseSurvives
  BY DEF Inv, BackupFirst
<1> QED BY <1>1, Invariance, PTL

(* replace_and_launch returns only when it has done what it was called for. *)
THEOREM ReturnIsSound == Spec => []ReturnedMeansReplaced
<1>1. Inv => ReturnedMeansReplaced
  BY DEF Inv, CandidateInPlace
<1> QED BY <1>1, Invariance, PTL

(* The records of its handler speak of an installation that is back. *)
THEOREM FailureRecordIsSound == Spec => []FailureRecordMeansRestored
<1>1. Inv => FailureRecordMeansRestored
  BY DEF Inv, BaseRestored
<1> QED BY <1>1, Invariance, PTL

(* No tree is copied or removed before the application wait_for_exit waits *)
(* for has gone, if wait_for_exit can tell.                                *)
THEOREM NobodyIsReplacedAlive == Spec => []TargetHasExited
<1>1. Inv => TargetHasExited
  BY DEF Inv, TargetIsOlder
<1> QED BY <1>1, Invariance, PTL

(* The handler stops a verified candidate before it removes its tree. *)
THEOREM CandidateIsStopped == Spec => []VerifiedCandidateIsStopped
<1>1. Inv => VerifiedCandidateIsStopped
  BY DEF Inv
<1> QED BY <1>1, Invariance, PTL

-----------------------------------------------------------------------------
(* The trees of the abstract module are those of InstallTree.              *)
LEMMA SameTrees ==
  /\ Promise!Unknown = Unknown
  /\ \A r : Promise!Whole(r) = Whole(r)
  /\ \A R : Promise!Tree(R) = Tree(R)
  BY DEF Promise!Unknown, Unknown, Promise!NoRelease, NoRelease, Promise!Whole, Whole,
         Promise!Tree, Tree, Promise!Absent, Absent

(* While a run lasts its update is undecided.                              *)
LEMMA RunIsUndecided ==
  ASSUME TypeOK, Inv, pc # "idle"
  PROVE  Phase = "running" /\ record = "NONE" /\ outcome = "none" /\ attempt # 0
  BY DEF Inv, UndecidedWhileRunning, TargetIsOlder, Phase

(* A step that changes neither outcome nor record is seen by nobody.       *)
LEMMA HiddenStep ==
  ASSUME TypeOK, Inv,
         UNCHANGED <<record, outcome, attempt, base>>,
         install' = install \/ pc # "idle"
  PROVE  UNCHANGED Promise!vars
<1>1. Phase' = Phase
  BY DEF Phase
<1>2. CASE install' = install
  BY <1>1, <1>2 DEF Promise!vars
<1>3. CASE pc # "idle"
  BY <1>1, <1>3, RunIsUndecided DEF Promise!vars
<1> QED BY <1>2, <1>3

(* An exception that leaves the helper abandons the update.                *)
LEMMA EscapeStep ==
  ASSUME TypeOK, Inv, pc # "idle", outcome' = "raised", UNCHANGED <<record, attempt, base>>
  PROVE  Promise!Abandon
<1>1. Phase' = "abandoned"
  BY RunIsUndecided DEF Phase
<1> QED BY <1>1, RunIsUndecided DEF Promise!Abandon

(* A run begins with the installation the last one has promised.           *)
LEMMA BeginStep == ASSUME TypeOK, Inv, Begin PROVE Promise!Begin
<1>1. attempt' = attempt + 1 /\ attempt' # 0 /\ attempt < MaxAttempts
  BY ConstantsAssumption DEF Begin, TypeOK, ConstantsAssumption
<1>2. Phase' = "running"
  BY <1>1 DEF Phase, Begin
<1>3. base' \in IF Phase \in Promise!Decided THEN {install} ELSE Tree(Promise!Releases)
  BY DEF Begin, TypeOK, Releases, Promise!Releases
<1> QED BY <1>1, <1>2, <1>3, SameTrees DEF Promise!Begin, Promise!Decided

(* _terminal and what the helper does next decide the update.              *)
LEMMA TerminalStep == ASSUME TypeOK, Inv, Terminal PROVE Promise!Next
<1>1. pc # "idle" /\ UNCHANGED <<attempt, base, install>>
  BY DEF Terminal, Context
<1>2. Phase = "running" /\ record = "NONE" /\ attempt # 0
  BY <1>1, RunIsUndecided
<1>3. CASE pc = "COMMITTED"
  <2>1. install = Whole(attempt)
    BY <1>3 DEF Inv, CandidateInPlace
  <2>2. Phase' = "committed"
    BY <1>1, <1>2, <1>3 DEF Terminal, Phase
  <2> QED BY <1>1, <1>2, <2>1, <2>2, SameTrees DEF Promise!Next, Promise!Commit
<1>4. CASE pc \in {"ROLLED_BACK", "FAILED"} /\ plan.recorded
  <2>1. install = base
    BY <1>4 DEF Inv, BaseRestored
  <2>2. Phase' = "kept"
    BY <1>1, <1>2, <1>4 DEF Terminal, Phase
  <2> QED BY <1>1, <1>2, <2>1, <2>2 DEF Promise!Next, Promise!Keep
<1>5. CASE pc \in {"ROLLED_BACK", "FAILED"} /\ ~plan.recorded
  <2>1. outcome' = "raised" /\ record' = record
    BY <1>5 DEF Terminal
  <2> QED BY <1>1, <2>1, EscapeStep DEF Promise!Next
<1> QED BY <1>3, <1>4, <1>5 DEF Terminal

(* Every step of the helper and of what happens around it is a step of the *)
(* atomic update or hidden from it.                                        *)
LEMMA StepRefines == TypeOK /\ Inv /\ [Next]_vars => [Promise!Next]_Promise!vars
<1> SUFFICES ASSUME TypeOK, Inv, [Next]_vars
             PROVE  Promise!Next \/ UNCHANGED Promise!vars
  OBVIOUS
<1>1. CASE Begin
  BY <1>1, BeginStep DEF Promise!Next
<1>2. CASE Terminal
  BY <1>2, TerminalStep
<1>3. CASE UNCHANGED <<record, outcome, attempt, base>> /\ (install' = install \/ pc # "idle")
  BY <1>3, HiddenStep
<1>4. CASE outcome' = "raised" /\ UNCHANGED <<record, attempt, base>> /\ pc # "idle"
  BY <1>4, EscapeStep DEF Promise!Next
<1> DEFINE Hidden  == UNCHANGED <<record, outcome, attempt, base>>
                        /\ (install' = install \/ pc # "idle")
           Escapes == outcome' = "raised" /\ UNCHANGED <<record, attempt, base>>
                        /\ pc # "idle"
<1>5. Begin \/ Terminal \/ Hidden \/ Escapes
  <2> USE DEF Context, Raised, Proceed, Verified
  <2>1. CASE Begin \/ Terminal \/ UNCHANGED vars
    BY <2>1 DEF vars
  <2>2. CASE ValidatePlan \/ TargetExited \/ WaitTimeout \/ TargetUnseen \/ RaiseError
    BY <2>2 DEF ValidatePlan, TargetExited, WaitTimeout, TargetUnseen, RaiseError
  <2>3. CASE RemoveOldBackup \/ MakeBackup \/ RemoveRoot \/ CopyStaged \/ RestoreBackup
    BY <2>3 DEF RemoveOldBackup, MakeBackup, RemoveRoot, CopyStaged, RestoreBackup
  <2>4. CASE Spawn \/ Ready
    BY <2>4 DEF Spawn, Ready
  <2>5. CASE Exited \/ StartupDeadline
    BY <2>5 DEF Exited, StartupDeadline
  <2>6. CASE Stop \/ Crash \/ PrintMarker \/ ApplicationExits
    BY <2>6 DEF Stop, Crash, PrintMarker, ApplicationExits
  <2> QED BY <2>1, <2>2, <2>3, <2>4, <2>5, <2>6 DEF Next, Progress
<1> QED BY <1>1, <1>2, <1>3, <1>4, <1>5

(* replace_and_launch implements the atomic update, for any number of      *)
(* runs, crashes and errors.                                               *)
THEOREM Refinement == Spec => RunsAreAtomic
<1>1. Init => Promise!Init
  <2> SUFFICES ASSUME Init PROVE Promise!Init
    OBVIOUS
  <2>1. base \in Tree(Promise!Releases)
    BY InitOK DEF TypeOK, Releases, Promise!Releases
  <2>2. attempt = 0 /\ Phase = "none"
    BY DEF Init, Phase
  <2> QED BY <2>1, <2>2, SameTrees DEF Promise!Init
<1>2. TypeOK /\ Inv /\ [Next]_vars => [Promise!Next]_Promise!vars
  BY StepRefines
<1> QED BY <1>1, <1>2, Invariance, PTL DEF Spec, RunsAreAtomic, Promise!Spec

(* What a run has promised stays so until the next one begins: once it has *)
(* returned or recorded that the installation is as it was found, nothing  *)
(* that still happens in or after it changes the installation.             *)
THEOREM PromisesStand ==
  Spec => [][attempt' = attempt /\ Phase \in {"committed", "kept"}
               => install' = install /\ Phase' = Phase]_vars
<1> DEFINE A == attempt' = attempt /\ Phase \in {"committed", "kept"}
                  => install' = install /\ Phase' = Phase
<1>1. TypeOK /\ Inv /\ [Next]_vars => A
  <2> SUFFICES ASSUME TypeOK, Inv, [Next]_vars,
                      Phase \in {"committed", "kept"}, attempt' = attempt
               PROVE  install' = install /\ Phase' = Phase
    OBVIOUS
  <2>1. ~Promise!Begin
    BY ConstantsAssumption DEF Promise!Begin, TypeOK, ConstantsAssumption
  <2>2. ~(Promise!Commit \/ Promise!Keep \/ Promise!Abandon)
    BY DEF Promise!Commit, Promise!Keep, Promise!Abandon
  <2>3. UNCHANGED Promise!vars
    BY <2>1, <2>2, StepRefines DEF Promise!Next
  <2> QED BY <2>3 DEF Promise!vars
<1>2. TypeOK /\ Inv /\ [Next]_vars => [A]_vars
  BY <1>1
<1> QED BY <1>2, Invariance, PTL DEF Spec

-----------------------------------------------------------------------------
(* The steps the helper can still take in its run, at most: each removal   *)
(* and each copy is two steps, or one if the tree is partial or there      *)
(* already.                                                                *)
Left ==
  CASE pc = "idle"        -> 0
    [] pc = "FAILED"      -> 1
    [] pc = "ROLLED_BACK" -> 2
    [] pc = "reawait"     -> 3
    [] pc = "relaunch"    -> 4
    [] pc = "cpRestore"   -> 5 + More(install = Absent)
    [] pc = "rmFailed"    -> 7 + More(install.whole)
    [] pc = "stop"        -> 9
    [] pc = "COMMITTED"   -> 10
    [] pc = "await"       -> 11
    [] pc = "launch"      -> 12
    [] pc = "cpRoot"      -> 13 + More(install = Absent)
    [] pc = "rmRoot"      -> 15 + More(install.whole)
    [] pc = "cpBackup"    -> 17 + More(backup = Absent)
    [] pc = "rmBackup"    -> 19 + More(backup.whole)
    [] pc = "wait"        -> 21
    [] OTHER              -> 22

LEMMA LeftType == Left \in 0 .. 22
<1>1. \A b : More(b) \in {0, 1}
  BY DEF More
<1> QED BY <1>1 DEF Left

(* Every step of the helper leaves fewer. *)
LEMMA StepsRunDown ==
  ASSUME TypeOK, Inv, Progress \/ TargetUnseen \/ RaiseError \/ Crash
  PROVE  Left' < Left
<1> USE DEF Context, Raised, Proceed, Verified
<1>1. /\ install \in Tree(Releases) /\ backup \in Tree(Releases)
      /\ Whole(attempt) \in Tree(Releases) /\ NoRelease \notin Releases
  BY WholeTree, ConstantsAssumption DEF TypeOK, Releases, NoRelease, ConstantsAssumption
<1>2. CASE ValidatePlan \/ TargetExited \/ WaitTimeout \/ TargetUnseen
  <2>1. \/ pc = "validate" /\ pc' \in {"wait", "idle"}
        \/ pc = "wait" /\ pc' \in {"rmBackup", "idle"}
    BY <1>2 DEF ValidatePlan, TargetExited, WaitTimeout, TargetUnseen, Handler, Trying, Restarting
  <2> QED BY <2>1 DEF Left, More
<1>3. CASE RemoveOldBackup
  <2>1. Shrink(backup) # Absent => backup.whole /\ ~Shrink(backup).whole
    BY <1>1, TreeSteps
  <2> QED BY <1>3, <2>1 DEF RemoveOldBackup, Left, More
<1>4. CASE MakeBackup
  <2>1. /\ backup # Absent => Grow(backup, install) = install
        /\ backup = Absent /\ Grow(backup, install) # install => Grow(backup, install) # Absent
    BY <1>1, TreeSteps
  <2>2. /\ pc = "cpBackup"
        /\ pc' = "rmRoot" \/ (pc' = pc /\ backup = Absent /\ backup' # Absent)
    BY <1>4, <2>1 DEF MakeBackup
  <2> QED BY <2>2 DEF Left, More
<1>5. CASE RemoveRoot
  <2>1. Shrink(install) # Absent => install.whole /\ ~Shrink(install).whole
    BY <1>1, TreeSteps
  <2> QED BY <1>5, <2>1 DEF RemoveRoot, Left, More
<1>6. CASE CopyStaged
  <2>1. /\ install # Absent => Grow(install, Whole(attempt)) = Whole(attempt)
        /\ install = Absent /\ Grow(install, Whole(attempt)) # Whole(attempt)
             => Grow(install, Whole(attempt)) # Absent
    BY <1>1, TreeSteps
  <2>2. /\ pc = "cpRoot"
        /\ pc' = "launch" \/ (pc' = pc /\ install = Absent /\ install' # Absent)
    BY <1>6, <2>1 DEF CopyStaged
  <2> QED BY <2>2 DEF Left, More
<1>7. CASE RestoreBackup
  <2>1. /\ install # Absent => Grow(install, backup) = backup
        /\ install = Absent /\ Grow(install, backup) # backup => Grow(install, backup) # Absent
    BY <1>1, TreeSteps
  <2>2. /\ pc = "cpRestore"
        /\ pc' = "relaunch" \/ (pc' = pc /\ install = Absent /\ install' # Absent)
    BY <1>7, <2>1 DEF RestoreBackup
  <2> QED BY <2>2 DEF Left, More
<1>8. CASE Spawn \/ Ready \/ Exited \/ StartupDeadline
  <2>1. \/ pc = "launch" /\ pc' \in {"await", "COMMITTED"}
        \/ pc = "relaunch" /\ pc' \in {"reawait", "ROLLED_BACK"}
        \/ pc = "await" /\ pc' \in {"COMMITTED", "stop"}
        \/ pc = "reawait" /\ pc' \in {"ROLLED_BACK", "FAILED"}
    <3>1. CASE Spawn
      BY <3>1 DEF Spawn
    <3>2. CASE Ready
      BY <3>2 DEF Ready
    <3>3. CASE Exited
      BY <3>3 DEF Exited, Handler, Trying, Restarting
    <3>4. CASE StartupDeadline
      BY <3>4 DEF StartupDeadline, Handler, Trying, Restarting
    <3> QED BY <1>8, <3>1, <3>2, <3>3, <3>4
  <2> QED BY <2>1 DEF Left
<1>9. CASE Stop \/ Terminal \/ Crash
  <2>1. \/ pc = "stop" /\ pc' = "rmFailed"
        \/ pc # "idle" /\ pc' = "idle"
    BY <1>9 DEF Stop, Terminal, Crash
  <2> QED BY <2>1 DEF Left, More
<1>10. CASE RaiseError
  <2>1. \/ pc \in Trying /\ pc' = "stop"
        \/ pc \in Restarting /\ pc' = "FAILED"
        \/ pc # "idle" /\ pc' = "idle"
    BY <1>10 DEF RaiseError, Handler
  <2> QED BY <2>1 DEF Left, More, Trying, Restarting
<1> QED BY <1>2, <1>3, <1>4, <1>5, <1>6, <1>7, <1>8, <1>9, <1>10 DEF Progress

(* Every run of replace_and_launch ends after 22 steps of its own at most, *)
(* whatever raises or dies: each of them takes from what is left, and what *)
(* the applications do meanwhile adds nothing.  (That the helper takes its *)
(* steps is the fairness under which TLC checks HelperEnds.)               *)
THEOREM RunsAreShort ==
  Spec =>
    /\ [](Left \in 0 .. 22)
    /\ [][pc # "idle" =>
            \/ (Progress \/ TargetUnseen \/ RaiseError \/ Crash) /\ Left' < Left
            \/ (PrintMarker \/ ApplicationExits) /\ Left' = Left]_vars
<1> DEFINE I == Left \in 0 .. 22
           A == pc # "idle" =>
                  \/ (Progress \/ TargetUnseen \/ RaiseError \/ Crash) /\ Left' < Left
                  \/ (PrintMarker \/ ApplicationExits) /\ Left' = Left
<1>1. I
  BY LeftType
<1>2. TypeOK /\ Inv /\ [Next]_vars => [A]_vars
  <2>1. PrintMarker \/ ApplicationExits => Left' = Left
    BY DEF PrintMarker, ApplicationExits, Left
  <2> QED BY <2>1, StepsRunDown DEF Next, Begin
<1> HIDE DEF A, I
<1>3. Spec => []I /\ [][A]_vars
  BY <1>1, <1>2, Invariance, PTL DEF Spec
<1> QED BY <1>3 DEF A, I
=============================================================================
