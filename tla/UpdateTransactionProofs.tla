----------------------- MODULE UpdateTransactionProofs -----------------------
(***************************************************************************)
(* Proofs about UpdateTransaction, for any number of transactions, crashes *)
(* and exceptions and any set of failures.                                 *)
(*                                                                         *)
(* The safety properties are not inductive: they speak of records, and     *)
(* what makes a record true is where the program counter was when it was   *)
(* written.  Inv adds to them what holds at each step.                     *)
(***************************************************************************)
EXTENDS UpdateTransaction, InstallTreeProofs

UntilStaged    == {"verify", "VERIFIED", "guard", "rmBackup", "mkBackup", "STAGED"}
AfterReplacing == {"rmRoot", "cpCandidate", "VERIFYING", "probe", "COMMITTED"}
AfterVerified  == (UntilStaged \ {"verify"}) \cup {"REPLACING"} \cup AfterReplacing
AfterRollback  == RollbackSteps \ {"ROLLING_BACK"}

(* A call belongs to a transaction, the records of later ones are missing, *)
(* and a call has nothing left to do once the record is terminal, but for  *)
(* the second FAILED of a rollback without a backup.                       *)
RecordsAgree ==
  /\ pc # "idle" => tx > 0
  /\ \A t \in 1 .. MaxTx : t > tx => record[t] = "NONE"
  /\ Latest \in Terminal => pc = "idle" \/ (Latest = "FAILED" /\ pc = "FAILED")

(* The trail says how far the call has come. *)
StepsFollowTrail ==
  /\ pc \in UntilStaged => "STAGED" \notin trail
  /\ pc \in UntilStaged \cup {"REPLACING"} => trail \cap {"REPLACING", "ROLLING_BACK"} = {}
  /\ pc \in AfterReplacing => "REPLACING" \in trail
  /\ pc \in AfterRollback => "ROLLING_BACK" \in trail
  /\ RecordPrecedesReplacement

(* The backup is complete when STAGED is about to be recorded. *)
BackupHeld ==
  /\ pc = "STAGED" /\ base # Absent => backup = base
  /\ pc \in {"rmBackup", "mkBackup", "STAGED"} \/ "STAGED" \in trail => plan.roots = "safe"
  /\ StagedBackupIsKept

(* What COMMITTED promises holds before it is recorded. *)
CandidateChecked ==
  /\ pc \in AfterVerified => plan.genuine
  /\ pc \in {"VERIFYING", "probe", "COMMITTED"} => install = Whole(tx)
  /\ pc = "COMMITTED" => plan.healthy
  /\ CommittedIsHealthyCandidate

(* So does what ROLLED_BACK and recover()'s FAILED promise. *)
FailureHandled ==
  /\ pc = "ROLLED_BACK" /\ plan.roots = "safe" => install = backup
  /\ pc = "FAILED" /\ caller = "recover" => ~artifact
  /\ StagedRollbackRestoresBase
  /\ RecoverFailsClosed

Inv == RecordsAgree /\ StepsFollowTrail /\ BackupHeld /\ CandidateChecked /\ FailureHandled

-----------------------------------------------------------------------------
(* The initial state is well typed. *)
LEMMA InitTypeOK == Init => TypeOK
<1> SUFFICES ASSUME Init PROVE TypeOK
  OBVIOUS
<1> USE ConstantsAssumption DEF ConstantsAssumption, Init
<1>1. install \in Tree(Releases) /\ backup \in Tree(Releases) /\ base \in Tree(Releases)
  <2>1. Whole(0) \in Tree(Releases)
    BY WholeTree DEF Releases
  <2> QED BY <2>1 DEF Tree
<1>2. record \in [1 .. MaxTx -> TransactionState \cup {"NONE"}]
  OBVIOUS
<1>3. plan \in Plan /\ pc \in Steps
  BY DEF Plan, Steps
<1>4. tx \in 0 .. MaxTx /\ crashes \in 0 .. MaxCrashes /\ faults \in 0 .. MaxFaults
  OBVIOUS
<1>5. artifact \in BOOLEAN /\ caller \in {"replace", "recover"} /\ trail \subseteq TransactionState
  OBVIOUS
<1> HIDE DEF Init
<1> QED BY <1>1, <1>2, <1>3, <1>4, <1>5 DEF TypeOK

(* Where After and Handler lead is a step. *)
LEMMA NextSteps ==
  /\ \A s \in TransactionState : After(s) \in Steps
  /\ Handler \in Steps
<1>1. ASSUME NEW s \in TransactionState PROVE After(s) \in Steps
  BY SMT DEF After, Steps, TransactionState, BeforeReplacement, Replacing, RollbackSteps
<1>2. Handler \in Steps
  BY SMT DEF Handler, Steps, TransactionState, Terminal, RollbackSteps
<1> QED BY <1>1, <1>2

(* Every step of the program and of its environment keeps the types. *)
LEMMA NextTypeOK == TypeOK /\ RecordsAgree /\ [Next]_vars => TypeOK'
<1> SUFFICES ASSUME TypeOK, RecordsAgree, [Next]_vars PROVE TypeOK'
  OBVIOUS
<1> USE ConstantsAssumption, NextSteps DEF TypeOK, Context, Goto, ConstantsAssumption
<1>1. CASE Begin
  BY <1>1 DEF Begin, Plans, Steps
<1>2. CASE Transition
  BY <1>2 DEF Transition
<1>3. CASE VerifyArtifact
  BY <1>3 DEF VerifyArtifact, Steps, TransactionState, BeforeReplacement
<1>4. CASE GuardRoots
  BY <1>4 DEF GuardRoots, Steps, TransactionState, BeforeReplacement
<1>5. CASE RemoveOldBackup
  BY <1>5, ShrinkTree DEF RemoveOldBackup, Steps
<1>6. CASE MakeBackup
  BY <1>6, GrowTree DEF MakeBackup, Steps, TransactionState, BeforeReplacement
<1>7. CASE RemoveRoot
  BY <1>7, ShrinkTree DEF RemoveRoot, Steps
<1>8. CASE CopyCandidate
  <2>1. Whole(tx) \in Tree(Releases)
    BY WholeTree DEF Releases
  <2> QED BY <1>8, <2>1, GrowTree DEF CopyCandidate, Steps, TransactionState, Replacing
<1>9. CASE ProbeSucceeds
  BY <1>9 DEF ProbeSucceeds, Steps, TransactionState, Terminal
<1>10. CASE ProbeDeadline
  BY <1>10 DEF ProbeDeadline
<1>11. CASE CheckBackup
  BY <1>11 DEF CheckBackup, Steps, RollbackSteps
<1>12. CASE NoBackup
  BY <1>12 DEF NoBackup, TransactionState, Terminal
<1>13. CASE RemoveFailed
  BY <1>13, ShrinkTree DEF RemoveFailed, Steps, RollbackSteps
<1>14. CASE RestoreBackup
  BY <1>14, GrowTree DEF RestoreBackup, BackupTree, Steps, RollbackSteps
<1>15. CASE UnlinkArtifact
  BY <1>15 DEF UnlinkArtifact, Steps, TransactionState, Terminal
<1>16. CASE Recover
  BY <1>16 DEF Recover, Recovering, Steps, RollbackSteps
<1>17. CASE RaiseError
  BY <1>17 DEF RaiseError
<1>18. CASE Crash
  BY <1>18 DEF Crash, Steps
<1>19. CASE UNCHANGED vars
  BY <1>19 DEF vars
<1> QED
  BY <1>1, <1>2, <1>3, <1>4, <1>5, <1>6, <1>7, <1>8, <1>9, <1>10, <1>11, <1>12,
     <1>13, <1>14, <1>15, <1>16, <1>17, <1>18, <1>19 DEF Next, Progress

(* Initially no call runs, nothing is recorded and nothing is replaced. *)
LEMMA InitInv == Init => Inv
<1> SUFFICES ASSUME Init PROVE Inv
  OBVIOUS
<1>1. Latest = "NONE" /\ trail = {} /\ pc = "idle" /\ install = base /\ caller = "replace"
  BY DEF Init, Latest
<1>2. RecordsAgree
  BY <1>1 DEF Init, RecordsAgree, Terminal
<1>3. StepsFollowTrail /\ BackupHeld
  BY <1>1 DEF StepsFollowTrail, BackupHeld, UntilStaged, AfterReplacing, AfterRollback,
              RollbackSteps, RecordPrecedesReplacement, StagedBackupIsKept
<1>4. CandidateChecked /\ FailureHandled
  BY <1>1 DEF CandidateChecked, FailureHandled, AfterVerified, UntilStaged, AfterReplacing,
              CommittedIsHealthyCandidate, StagedRollbackRestoresBase, RecoverFailsClosed
<1> QED BY <1>2, <1>3, <1>4 DEF Inv

(* Every step preserves the strengthened invariant. *)
LEMMA NextInv == TypeOK /\ Inv /\ [Next]_vars => Inv'
<1> SUFFICES ASSUME TypeOK, Inv, [Next]_vars PROVE Inv'
  OBVIOUS
<1> USE DEF Inv, TypeOK, Context, Goto, Latest, Handler,
            RecordsAgree, StepsFollowTrail, BackupHeld, CandidateChecked, FailureHandled,
            CommittedIsHealthyCandidate, StagedBackupIsKept, StagedRollbackRestoresBase,
            RecordPrecedesReplacement, RecoverFailsClosed,
            UntilStaged, AfterReplacing, AfterVerified, AfterRollback, RollbackSteps, Terminal
<1>1. CASE Begin
  <2>0. tx' \in 1 .. MaxTx /\ tx' > tx /\ Latest' = "NONE"
    BY <1>1, ConstantsAssumption DEF Begin, ConstantsAssumption
  <2>1. RecordsAgree' BY <1>1, <2>0 DEF Begin
  <2>2. StepsFollowTrail' BY <1>1 DEF Begin
  <2>3. BackupHeld' BY <1>1 DEF Begin
  <2>4. CandidateChecked' BY <1>1, <2>0 DEF Begin
  <2>5. FailureHandled' BY <1>1 DEF Begin
  <2> QED BY <2>1, <2>2, <2>3, <2>4, <2>5
<1>2. CASE Transition
  <2>1. RecordsAgree' BY <1>2 DEF Transition, After, TransactionState, BeforeReplacement, Replacing
  <2>2. StepsFollowTrail' BY <1>2 DEF Transition, After, TransactionState, BeforeReplacement, Replacing
  <2>3. BackupHeld' BY <1>2 DEF Transition, After, TransactionState, BeforeReplacement, Replacing
  <2>4. CandidateChecked' BY <1>2 DEF Transition, After, TransactionState, BeforeReplacement, Replacing
  <2>5. FailureHandled' BY <1>2 DEF Transition, After, TransactionState, BeforeReplacement, Replacing
  <2> QED BY <2>1, <2>2, <2>3, <2>4, <2>5
<1>3. CASE VerifyArtifact
  <2>1. RecordsAgree' BY <1>3 DEF VerifyArtifact
  <2>2. StepsFollowTrail' BY <1>3 DEF VerifyArtifact
  <2>3. BackupHeld' BY <1>3 DEF VerifyArtifact
  <2>4. CandidateChecked' BY <1>3 DEF VerifyArtifact
  <2>5. FailureHandled' BY <1>3 DEF VerifyArtifact
  <2> QED BY <2>1, <2>2, <2>3, <2>4, <2>5
<1>4. CASE GuardRoots
  <2>1. RecordsAgree' BY <1>4 DEF GuardRoots
  <2>2. StepsFollowTrail' BY <1>4 DEF GuardRoots
  <2>3. BackupHeld'
    <3>1. Handler \in {"idle", "ROLLING_BACK"}
      BY <1>4 DEF GuardRoots
    <3>2. pc' \in {"rmBackup", "mkBackup", "STAGED"} => plan.roots = "safe"
      BY <1>4, <3>1 DEF GuardRoots
    <3>3. pc' = "STAGED" => base = Absent
      BY <1>4, <3>1 DEF GuardRoots
    <3> QED BY <1>4, <3>2, <3>3 DEF GuardRoots
  <2>4. CandidateChecked' BY <1>4 DEF GuardRoots
  <2>5. FailureHandled' BY <1>4 DEF GuardRoots
  <2> QED BY <2>1, <2>2, <2>3, <2>4, <2>5
<1>5. CASE RemoveOldBackup
  <2>1. RecordsAgree' BY <1>5 DEF RemoveOldBackup
  <2>2. StepsFollowTrail' BY <1>5 DEF RemoveOldBackup
  <2>3. BackupHeld' BY <1>5 DEF RemoveOldBackup
  <2>4. CandidateChecked' BY <1>5 DEF RemoveOldBackup
  <2>5. FailureHandled' BY <1>5 DEF RemoveOldBackup
  <2> QED BY <2>1, <2>2, <2>3, <2>4, <2>5
<1>6. CASE MakeBackup
  <2>1. RecordsAgree' BY <1>6 DEF MakeBackup
  <2>2. StepsFollowTrail' BY <1>6 DEF MakeBackup
  <2>3. BackupHeld' BY <1>6 DEF MakeBackup
  <2>4. CandidateChecked' BY <1>6 DEF MakeBackup
  <2>5. FailureHandled' BY <1>6 DEF MakeBackup
  <2> QED BY <2>1, <2>2, <2>3, <2>4, <2>5
<1>7. CASE RemoveRoot
  <2>1. RecordsAgree' BY <1>7 DEF RemoveRoot
  <2>2. StepsFollowTrail' BY <1>7 DEF RemoveRoot
  <2>3. BackupHeld' BY <1>7 DEF RemoveRoot
  <2>4. CandidateChecked' BY <1>7 DEF RemoveRoot
  <2>5. FailureHandled' BY <1>7 DEF RemoveRoot
  <2> QED BY <2>1, <2>2, <2>3, <2>4, <2>5
<1>8. CASE CopyCandidate
  <2>1. RecordsAgree' BY <1>8 DEF CopyCandidate
  <2>2. StepsFollowTrail' BY <1>8 DEF CopyCandidate
  <2>3. BackupHeld' BY <1>8 DEF CopyCandidate
  <2>4. CandidateChecked' BY <1>8 DEF CopyCandidate
  <2>5. FailureHandled' BY <1>8 DEF CopyCandidate
  <2> QED BY <2>1, <2>2, <2>3, <2>4, <2>5
<1>9. CASE ProbeSucceeds
  <2>1. RecordsAgree' BY <1>9 DEF ProbeSucceeds
  <2>2. StepsFollowTrail' BY <1>9 DEF ProbeSucceeds
  <2>3. BackupHeld' BY <1>9 DEF ProbeSucceeds
  <2>4. CandidateChecked' BY <1>9 DEF ProbeSucceeds
  <2>5. FailureHandled' BY <1>9 DEF ProbeSucceeds
  <2> QED BY <2>1, <2>2, <2>3, <2>4, <2>5
<1>10. CASE ProbeDeadline
  <2>1. RecordsAgree' BY <1>10 DEF ProbeDeadline
  <2>2. StepsFollowTrail' BY <1>10 DEF ProbeDeadline
  <2>3. BackupHeld' BY <1>10 DEF ProbeDeadline
  <2>4. CandidateChecked' BY <1>10 DEF ProbeDeadline
  <2>5. FailureHandled' BY <1>10 DEF ProbeDeadline
  <2> QED BY <2>1, <2>2, <2>3, <2>4, <2>5
<1>11. CASE CheckBackup
  <2>1. RecordsAgree' BY <1>11 DEF CheckBackup, BackupTree
  <2>2. StepsFollowTrail' BY <1>11 DEF CheckBackup, BackupTree
  <2>3. BackupHeld' BY <1>11 DEF CheckBackup, BackupTree
  <2>4. CandidateChecked' BY <1>11 DEF CheckBackup, BackupTree
  <2>5. FailureHandled' BY <1>11 DEF CheckBackup, BackupTree
  <2> QED BY <2>1, <2>2, <2>3, <2>4, <2>5
<1>12. CASE NoBackup
  <2>1. RecordsAgree' BY <1>12 DEF NoBackup
  <2>2. StepsFollowTrail' BY <1>12 DEF NoBackup
  <2>3. BackupHeld' BY <1>12 DEF NoBackup
  <2>4. CandidateChecked' BY <1>12 DEF NoBackup
  <2>0. "ROLLING_BACK" \in trail' /\ Latest' = "FAILED"
    BY <1>12 DEF NoBackup
  <2>5. FailureHandled'
    <3>1. (pc = "ROLLED_BACK" /\ plan.roots = "safe" => install = backup)'
      BY <1>12, <2>0 DEF NoBackup
    <3>2. (pc = "FAILED" /\ caller = "recover" => ~artifact)'
      BY <1>12, <2>0 DEF NoBackup
    <3>3. StagedRollbackRestoresBase'
      BY <1>12, <2>0 DEF NoBackup
    <3>4. RecoverFailsClosed'
      BY <1>12, <2>0 DEF NoBackup
    <3> QED BY <3>1, <3>2, <3>3, <3>4
  <2> QED BY <2>1, <2>2, <2>3, <2>4, <2>5
<1>13. CASE RemoveFailed
  <2>1. RecordsAgree' BY <1>13 DEF RemoveFailed
  <2>2. StepsFollowTrail' BY <1>13 DEF RemoveFailed
  <2>3. BackupHeld' BY <1>13 DEF RemoveFailed
  <2>4. CandidateChecked' BY <1>13 DEF RemoveFailed
  <2>5. FailureHandled' BY <1>13 DEF RemoveFailed
  <2> QED BY <2>1, <2>2, <2>3, <2>4, <2>5
<1>14. CASE RestoreBackup
  <2>1. RecordsAgree' BY <1>14 DEF RestoreBackup, BackupTree
  <2>2. StepsFollowTrail' BY <1>14 DEF RestoreBackup, BackupTree
  <2>3. BackupHeld' BY <1>14 DEF RestoreBackup, BackupTree
  <2>4. CandidateChecked' BY <1>14 DEF RestoreBackup, BackupTree
  <2>5. FailureHandled'
    <3>1. (pc = "ROLLED_BACK" /\ plan.roots = "safe" => install = backup)'
      BY <1>14 DEF RestoreBackup, BackupTree
    <3>2. (pc = "FAILED" /\ caller = "recover" => ~artifact)'
      BY <1>14 DEF RestoreBackup, BackupTree
    <3>3. StagedRollbackRestoresBase'
      BY <1>14 DEF RestoreBackup, BackupTree
    <3>4. RecoverFailsClosed'
      BY <1>14 DEF RestoreBackup, BackupTree
    <3> QED BY <3>1, <3>2, <3>3, <3>4
  <2> QED BY <2>1, <2>2, <2>3, <2>4, <2>5
<1>15. CASE UnlinkArtifact
  <2>1. RecordsAgree' BY <1>15 DEF UnlinkArtifact
  <2>2. StepsFollowTrail' BY <1>15 DEF UnlinkArtifact
  <2>3. BackupHeld' BY <1>15 DEF UnlinkArtifact
  <2>4. CandidateChecked' BY <1>15 DEF UnlinkArtifact
  <2>5. FailureHandled' BY <1>15 DEF UnlinkArtifact
  <2> QED BY <2>1, <2>2, <2>3, <2>4, <2>5
<1>16. CASE Recover
  <2>0. tx > 0 /\ Latest \notin Terminal
    BY <1>16 DEF Recover, Recovering, BeforeReplacement, Replacing
  <2>1. RecordsAgree' BY <1>16, <2>0 DEF Recover, Recovering
  <2>2. StepsFollowTrail' BY <1>16 DEF Recover, Recovering, BeforeReplacement, Replacing
  <2>3. BackupHeld' BY <1>16 DEF Recover, Recovering, BeforeReplacement, Replacing
  <2>4. CandidateChecked' BY <1>16 DEF Recover, Recovering, BeforeReplacement, Replacing
  <2>5. FailureHandled' BY <1>16 DEF Recover, Recovering, BeforeReplacement, Replacing
  <2> QED BY <2>1, <2>2, <2>3, <2>4, <2>5
<1>17. CASE RaiseError
  <2>1. RecordsAgree' BY <1>17 DEF RaiseError
  <2>2. StepsFollowTrail' BY <1>17 DEF RaiseError
  <2>3. BackupHeld' BY <1>17 DEF RaiseError
  <2>4. CandidateChecked' BY <1>17 DEF RaiseError
  <2>5. FailureHandled'
    <3>1. (pc = "ROLLED_BACK" /\ plan.roots = "safe" => install = backup)'
      BY <1>17 DEF RaiseError
    <3>2. (pc = "FAILED" /\ caller = "recover" => ~artifact)'
      BY <1>17 DEF RaiseError
    <3>3. StagedRollbackRestoresBase'
      BY <1>17 DEF RaiseError
    <3>4. RecoverFailsClosed'
      BY <1>17 DEF RaiseError
    <3> QED BY <3>1, <3>2, <3>3, <3>4
  <2> QED BY <2>1, <2>2, <2>3, <2>4, <2>5
<1>18. CASE Crash
  <2>1. RecordsAgree' BY <1>18 DEF Crash
  <2>2. StepsFollowTrail' BY <1>18 DEF Crash
  <2>3. BackupHeld' BY <1>18 DEF Crash
  <2>4. CandidateChecked' BY <1>18 DEF Crash
  <2>5. FailureHandled' BY <1>18 DEF Crash
  <2> QED BY <2>1, <2>2, <2>3, <2>4, <2>5
<1>19. CASE UNCHANGED vars
  BY <1>19 DEF vars
<1> QED
  BY <1>1, <1>2, <1>3, <1>4, <1>5, <1>6, <1>7, <1>8, <1>9, <1>10, <1>11, <1>12, <1>13, <1>14, <1>15, <1>16, <1>17, <1>18, <1>19 DEF Next, Progress

(* In every reachable state the variables have their types and Inv holds. *)
THEOREM Invariance == Spec => [](TypeOK /\ Inv)
<1>1. Init => TypeOK /\ Inv
  BY InitTypeOK, InitInv
<1>2. TypeOK /\ Inv /\ [Next]_vars => TypeOK' /\ Inv'
  BY NextTypeOK, NextInv DEF Inv
<1> QED BY <1>1, <1>2, PTL DEF Spec

-----------------------------------------------------------------------------
(* The variables of replace_transaction and recover() keep their types. *)
THEOREM TypeCorrectness == Spec => []TypeOK
  BY Invariance, PTL

(* COMMITTED is recorded only of a whole, verified and healthy candidate,  *)
(* and nothing touches that installation before the next transaction.      *)
THEOREM CommitIsSound == Spec => []CommittedIsHealthyCandidate
<1>1. Inv => CommittedIsHealthyCandidate
  BY DEF Inv, CandidateChecked
<1> QED BY <1>1, Invariance, PTL

(* From STAGED on the backup is the installation the transaction found. *)
THEOREM BackupIsKept == Spec => []StagedBackupIsKept
<1>1. Inv => StagedBackupIsKept
  BY DEF Inv, BackupHeld
<1> QED BY <1>1, Invariance, PTL

(* A rollback after STAGED, of a running transaction or of an interrupted  *)
(* one, puts back what the transaction found.                              *)
THEOREM RollbackIsSound == Spec => []StagedRollbackRestoresBase
<1>1. Inv => StagedRollbackRestoresBase
  BY DEF Inv, FailureHandled
<1> QED BY <1>1, Invariance, PTL

(* The record runs ahead of the replacement, so that recover() may trust   *)
(* it.                                                                     *)
THEOREM RecordIsSound == Spec => []RecordPrecedesReplacement
<1>1. Inv => RecordPrecedesReplacement
  BY DEF Inv, StepsFollowTrail
<1> QED BY <1>1, Invariance, PTL

(* recover() fails an untouched transaction closed.                        *)
THEOREM RecoveryIsSound == Spec => []RecoverFailsClosed
<1>1. Inv => RecoverFailsClosed
  BY DEF Inv, FailureHandled
<1> QED BY <1>1, Invariance, PTL

(* No step rewrites a terminal record. *)
THEOREM TerminalRecordsStay == Spec => TerminalIsFinal
<1>1. ASSUME TypeOK, Inv, [Next]_vars, NEW t \in 1 .. MaxTx, record[t] \in Terminal
      PROVE  record'[t] = record[t]
  <2> USE DEF Context, Goto
  <2>1. t # tx \/ pc = "idle" \/ (record[tx] = "FAILED" /\ pc = "FAILED")
    BY <1>1 DEF Inv, RecordsAgree, Latest
  <2>2. CASE Transition
    BY <1>1, <2>1, <2>2 DEF Transition, TypeOK, TransactionState, Terminal,
                             BeforeReplacement, Replacing
  <2>3. CASE NoBackup
    BY <1>1, <2>1, <2>3 DEF NoBackup, TypeOK
  <2>4. CASE UNCHANGED record
    BY <2>4
  <2>5. Transition \/ NoBackup \/ UNCHANGED record
    BY <1>1 DEF Next, Progress, vars, Begin, VerifyArtifact, GuardRoots, RemoveOldBackup,
                MakeBackup, RemoveRoot, CopyCandidate, ProbeSucceeds, ProbeDeadline,
                CheckBackup, RemoveFailed, RestoreBackup, UnlinkArtifact, Recover, Recovering,
                RaiseError, Crash
  <2> QED BY <2>2, <2>3, <2>4, <2>5
<1>2. TypeOK /\ Inv /\ [Next]_vars
        => [\A t \in 1 .. MaxTx : record[t] \in Terminal => record'[t] = record[t]]_vars
  BY <1>1
<1> QED BY <1>2, Invariance, PTL DEF Spec, TerminalIsFinal

-----------------------------------------------------------------------------
(* The trees of the abstract module are those of InstallTree.              *)
LEMMA SameTrees ==
  /\ Promise!Unknown = Unknown
  /\ \A r : Promise!Whole(r) = Whole(r)
  /\ \A R : Promise!Tree(R) = Tree(R)
  BY DEF Promise!Unknown, Unknown, Promise!NoRelease, NoRelease, Promise!Whole, Whole,
         Promise!Tree, Tree, Promise!Absent, Absent

(* A step that leaves the records, the trail and the plan's transaction    *)
(* alone is seen by nobody: it touches the installation only while the     *)
(* transaction is undecided.                                               *)
LEMMA HiddenStep ==
  ASSUME TypeOK, Inv,
         UNCHANGED <<record, trail, tx, base>>,
         install' = install \/ pc \in {"rmRoot", "cpCandidate", "rmFailed", "cpBackup"}
  PROVE  UNCHANGED Promise!vars
<1>1. Latest' = Latest /\ Phase' = Phase
  BY DEF Phase, Kept, Latest
<1>2. CASE install' = install
  BY <1>1, <1>2 DEF Promise!vars
<1>3. CASE pc \in {"rmRoot", "cpCandidate", "rmFailed", "cpBackup"}
  <2>1. Latest \notin Terminal
    BY <1>3 DEF Inv, RecordsAgree
  <2>2. Phase \notin {"committed", "kept"}
    BY <2>1 DEF Phase, Kept, Terminal
  <2> QED BY <1>1, <2>2 DEF Promise!vars
<1> QED BY <1>2, <1>3

(* A transaction begins with the installation the last one has promised.   *)
LEMMA BeginStep == ASSUME TypeOK, Inv, Begin PROVE Promise!Begin
<1>1. tx \in Nat /\ tx' = tx + 1 /\ tx' \in 1 .. MaxTx /\ record'[tx'] = "NONE"
  BY ConstantsAssumption DEF Begin, TypeOK, ConstantsAssumption, Inv, RecordsAgree
<1>2. Phase' = "running"
  BY <1>1 DEF Phase, Kept, Latest, Terminal
<1>3. base' \in IF Phase \in Promise!Decided THEN {install} ELSE Tree(Promise!Releases)
  BY DEF Begin, TypeOK, Releases, Promise!Releases
<1>4. tx < MaxTx
  BY DEF Begin
<1> QED BY <1>1, <1>2, <1>3, <1>4, SameTrees DEF Promise!Begin, Promise!Decided

(* What is recorded decides the update, and only a record does.            *)
LEMMA RecordStep ==
  ASSUME TypeOK, Inv, Transition
  PROVE  Promise!Next \/ UNCHANGED Promise!vars
<1> USE DEF TypeOK, Context
<1>1. tx \in 1 .. MaxTx /\ Latest' = pc /\ tx' = tx /\ install' = install /\ base' = base
  BY ConstantsAssumption DEF Transition, Latest, Inv, RecordsAgree, TransactionState, Terminal,
       BeforeReplacement, Replacing, ConstantsAssumption
<1>2. trail' = trail \cup {pc}
  BY DEF Transition
<1>3. CASE Latest \in Terminal
  <2>1. Latest = "FAILED" /\ pc = "FAILED"
    BY <1>3 DEF Inv, RecordsAgree, Transition, TransactionState, Terminal, BeforeReplacement, Replacing
  <2>2. Phase' = Phase
    BY <1>1, <1>2, <2>1 DEF Phase, Kept, Terminal
  <2> QED BY <1>1, <2>2 DEF Promise!vars
<1>4. CASE Latest \notin Terminal
  <2>1. Phase = "running"
    BY <1>1, <1>4 DEF Phase, Kept, Terminal
  <2>2. CASE pc = "COMMITTED"
    <3>1. install = Whole(tx)
      BY <2>2 DEF Inv, CandidateChecked
    <3>2. Phase' = "committed"
      BY <1>1, <2>2 DEF Phase
    <3> QED BY <1>1, <2>1, <3>1, <3>2, SameTrees DEF Promise!Next, Promise!Commit
  <2>3. CASE pc = "ROLLED_BACK" /\ "STAGED" \in trail /\ base # Absent
    <3>1. plan.roots = "safe" /\ backup = base
      BY <2>3 DEF Inv, BackupHeld, StagedBackupIsKept
    <3>2. install = base
      BY <2>3, <3>1 DEF Inv, FailureHandled
    <3>3. Phase' = "kept"
      BY <1>1, <1>2, <2>3 DEF Phase, Kept
    <3> QED BY <1>1, <2>1, <3>2, <3>3 DEF Promise!Next, Promise!Keep
  <2>4. CASE pc = "FAILED" /\ trail \cap {"REPLACING", "ROLLING_BACK"} = {}
    <3>1. install = base
      BY <2>4 DEF Inv, StepsFollowTrail, RecordPrecedesReplacement
    <3>2. Phase' = "kept"
      BY <1>1, <1>2, <2>4 DEF Phase, Kept
    <3> QED BY <1>1, <2>1, <3>1, <3>2 DEF Promise!Next, Promise!Keep
  <2>5. CASE /\ pc \in {"ROLLED_BACK", "FAILED"}
             /\ ~(pc = "ROLLED_BACK" /\ "STAGED" \in trail /\ base # Absent)
             /\ ~(pc = "FAILED" /\ trail \cap {"REPLACING", "ROLLING_BACK"} = {})
    <3>1. Phase' = "abandoned"
      BY <1>1, <1>2, <2>5 DEF Phase, Kept, Terminal
    <3> QED BY <1>1, <2>1, <3>1 DEF Promise!Next, Promise!Abandon
  <2>6. CASE pc \notin Terminal
    <3>1. Phase' = "running"
      BY <1>1, <2>6 DEF Phase, Kept, Terminal
    <3> QED BY <1>1, <2>1, <3>1 DEF Promise!vars
  <2> QED BY <2>2, <2>3, <2>4, <2>5, <2>6 DEF Terminal
<1> QED BY <1>3, <1>4

(* A rollback that finds no backup gives the promise up.                   *)
LEMMA NoBackupStep ==
  ASSUME TypeOK, Inv, NoBackup
  PROVE  Promise!Next \/ UNCHANGED Promise!vars
<1>1. Latest \notin Terminal /\ "ROLLING_BACK" \in trail
  BY DEF NoBackup, Inv, RecordsAgree, StepsFollowTrail, AfterRollback, RollbackSteps
<1>2. tx \in 1 .. MaxTx /\ Latest' = "FAILED" /\ tx' = tx /\ base' = base
  BY ConstantsAssumption DEF NoBackup, Context, Latest, Inv, RecordsAgree, TypeOK,
                             ConstantsAssumption
<1>3. Phase = "running"
  BY <1>1, <1>2 DEF Phase, Kept, Terminal
<1>4. Phase' = "abandoned"
  BY <1>1, <1>2 DEF Phase, Kept, Terminal, NoBackup
<1> QED BY <1>2, <1>3, <1>4 DEF Promise!Next, Promise!Abandon

(* Every step of replace_transaction, of recover() and of what interrupts  *)
(* them is a step of the atomic update or hidden from it.                  *)
LEMMA StepRefines == TypeOK /\ Inv /\ [Next]_vars => [Promise!Next]_Promise!vars
<1> SUFFICES ASSUME TypeOK, Inv, [Next]_vars
             PROVE  Promise!Next \/ UNCHANGED Promise!vars
  OBVIOUS
<1>1. CASE Begin
  BY <1>1, BeginStep DEF Promise!Next
<1>2. CASE Transition
  BY <1>2, RecordStep
<1>3. CASE NoBackup
  BY <1>3, NoBackupStep
<1>4. CASE /\ UNCHANGED <<record, trail, tx, base>>
           /\ install' = install \/ pc \in {"rmRoot", "cpCandidate", "rmFailed", "cpBackup"}
  BY <1>4, HiddenStep
<1>5. Begin \/ Transition \/ NoBackup
        \/ (/\ UNCHANGED <<record, trail, tx, base>>
            /\ install' = install \/ pc \in {"rmRoot", "cpCandidate", "rmFailed", "cpBackup"})
  BY DEF Next, Progress, vars, Context, Goto, VerifyArtifact, GuardRoots, RemoveOldBackup,
         MakeBackup, RemoveRoot, CopyCandidate, ProbeSucceeds, ProbeDeadline, CheckBackup,
         RemoveFailed, RestoreBackup, UnlinkArtifact, Recover, Recovering, RaiseError, Crash
<1> QED BY <1>1, <1>2, <1>3, <1>4, <1>5

(* replace_transaction and recover() implement the atomic update, for any  *)
(* number of transactions, crashes and exceptions.                         *)
THEOREM Refinement == Spec => UpdatesAreAtomic
<1>1. Init => Promise!Init
  <2> SUFFICES ASSUME Init PROVE Promise!Init
    OBVIOUS
  <2>1. base \in Tree(Promise!Releases)
    BY InitTypeOK DEF TypeOK, Releases, Promise!Releases
  <2>2. tx = 0 /\ Phase = "none"
    BY DEF Init, Phase
  <2> QED BY <2>1, <2>2, SameTrees DEF Promise!Init
<1>2. TypeOK /\ Inv /\ [Next]_vars => [Promise!Next]_Promise!vars
  BY StepRefines
<1> QED BY <1>1, <1>2, Invariance, PTL DEF Spec, UpdatesAreAtomic, Promise!Spec

(* What a transaction has promised stays so until the next one begins: no  *)
(* handler and no recover() that is run once more changes the installation *)
(* after COMMITTED, or after a rollback or a refusal that has kept it.     *)
THEOREM PromisesStand ==
  Spec => [][tx' = tx /\ Phase \in {"committed", "kept"}
               => install' = install /\ Phase' = Phase]_vars
<1> DEFINE A == tx' = tx /\ Phase \in {"committed", "kept"}
                  => install' = install /\ Phase' = Phase
<1>1. TypeOK /\ Inv /\ [Next]_vars => A
  <2> SUFFICES ASSUME TypeOK, Inv, [Next]_vars,
                      Phase \in {"committed", "kept"}, tx' = tx
               PROVE  install' = install /\ Phase' = Phase
    OBVIOUS
  <2>1. ~Promise!Begin
    BY ConstantsAssumption DEF Promise!Begin, TypeOK, ConstantsAssumption
  <2>2. ~(Promise!Commit \/ Promise!Keep \/ Promise!Abandon)
    BY DEF Promise!Commit, Promise!Keep, Promise!Abandon
  <2>3. UNCHANGED Promise!vars
    BY <2>1, <2>2, StepRefines DEF Promise!Next
  <2> QED BY <2>3 DEF Promise!vars
<1>2. TypeOK /\ Inv /\ [Next]_vars => [A]_vars
  BY <1>1
<1> QED BY <1>2, Invariance, PTL DEF Spec

-----------------------------------------------------------------------------
(* The steps a running call can still take, at most: each removal and each *)
(* copy is two steps, or one if the tree is partial or there already.      *)
Left ==
  CASE pc = "idle"                        -> 0
    [] pc = "FAILED"                      -> 1
    [] pc \in {"noBackup", "ROLLED_BACK"} -> 2
    [] pc = "cpBackup"                    -> 3 + More(install = Absent)
    [] pc = "rmFailed"                    -> 5 + More(install.whole)
    [] pc = "restore"                     -> 7
    [] pc = "ROLLING_BACK"                -> 8
    [] pc = "probe"                       -> 10
    [] pc = "VERIFYING"                   -> 11
    [] pc = "cpCandidate"                 -> 12 + More(install = Absent)
    [] pc = "rmRoot"                      -> 14 + More(install.whole)
    [] pc = "REPLACING"                   -> 16
    [] pc = "STAGED"                      -> 17
    [] pc = "mkBackup"                    -> 18 + More(backup = Absent)
    [] pc = "rmBackup"                    -> 20 + More(backup.whole)
    [] pc = "guard"                       -> 22
    [] pc = "VERIFIED"                    -> 23
    [] pc = "verify"                      -> 24
    [] OTHER                              -> 9

LEMMA LeftType == Left \in 0 .. 24
<1>1. \A b : More(b) \in {0, 1}
  BY DEF More
<1> QED BY <1>1 DEF Left

(* Every step of a call leaves fewer. *)
LEMMA StepsRunDown ==
  ASSUME TypeOK, Inv, Progress \/ RaiseError \/ Crash
  PROVE  Left' < Left
<1> USE DEF Context, Goto
<1>0. \A b : More(b) = IF b THEN 1 ELSE 0
  BY DEF More
<1>1. Handler \in {"idle", "FAILED", "ROLLING_BACK"}
  BY DEF Handler
<1>2. CASE Transition
  BY <1>0, <1>2 DEF Transition, After, Left, TransactionState, Terminal, BeforeReplacement, Replacing
<1>3. CASE VerifyArtifact \/ GuardRoots
  BY <1>0, <1>1, <1>3 DEF VerifyArtifact, GuardRoots, Left
<1>4. /\ install \in Tree(Releases) /\ backup \in Tree(Releases) /\ Whole(tx) \in Tree(Releases)
      /\ NoRelease \notin Releases
  BY WholeTree, ConstantsAssumption DEF TypeOK, Releases, NoRelease, ConstantsAssumption
<1>5. CASE RemoveOldBackup
  <2>1. Shrink(backup) # Absent => backup.whole /\ ~Shrink(backup).whole
    BY <1>4, TreeSteps
  <2> QED BY <1>0, <1>5, <2>1 DEF RemoveOldBackup, Left
<1>6. CASE MakeBackup
  <2>1. /\ backup # Absent => Grow(backup, install) = install
        /\ backup = Absent /\ Grow(backup, install) # install => Grow(backup, install) # Absent
    BY <1>4, TreeSteps
  <2>2. pc = "mkBackup" /\ (pc' = "STAGED" \/ (pc' = pc /\ backup = Absent /\ backup' # Absent))
    BY <1>6, <2>1 DEF MakeBackup
  <2> QED BY <2>2 DEF Left, More
<1>7. CASE RemoveRoot \/ RemoveFailed
  <2>1. Shrink(install) # Absent => install.whole /\ ~Shrink(install).whole
    BY <1>4, TreeSteps
  <2> QED BY <1>0, <1>7, <2>1 DEF RemoveRoot, RemoveFailed, Left
<1>8. CASE CopyCandidate
  <2>1. /\ install # Absent => Grow(install, Whole(tx)) = Whole(tx)
        /\ install = Absent /\ Grow(install, Whole(tx)) # Whole(tx)
             => Grow(install, Whole(tx)) # Absent
    BY <1>4, TreeSteps
  <2>2. pc = "cpCandidate" /\ (pc' = "VERIFYING" \/ (pc' = pc /\ install = Absent /\ install' # Absent))
    BY <1>8, <2>1 DEF CopyCandidate
  <2> QED BY <2>2 DEF Left, More
<1>9. CASE RestoreBackup
  <2>1. BackupTree \in Tree(Releases)
    BY <1>4 DEF BackupTree
  <2>2. /\ install # Absent => Grow(install, BackupTree) = BackupTree
        /\ install = Absent /\ Grow(install, BackupTree) # BackupTree
             => Grow(install, BackupTree) # Absent
    BY <1>4, <2>1, TreeSteps
  <2>3. Handler \in {"idle", "FAILED"}
    BY <1>9 DEF RestoreBackup, Handler, RollbackSteps
  <2>4. /\ pc = "cpBackup"
        /\ pc' \in {"idle", "FAILED", "ROLLED_BACK"}
             \/ (pc' = pc /\ install = Absent /\ install' # Absent)
    BY <1>9, <2>2, <2>3 DEF RestoreBackup
  <2> QED BY <2>4 DEF Left, More
<1>10. CASE ProbeSucceeds \/ ProbeDeadline \/ CheckBackup \/ UnlinkArtifact
  BY <1>0, <1>1, <1>10 DEF ProbeSucceeds, ProbeDeadline, CheckBackup, UnlinkArtifact, Left
<1>11. CASE NoBackup
  <2>1. Handler \in {"idle", "FAILED"}
    BY <1>11 DEF NoBackup, Handler, RollbackSteps
  <2> QED BY <1>11, <2>1 DEF NoBackup, Left
<1>12. CASE Crash
  BY <1>0, <1>12 DEF Crash, Left
<1>13. CASE RaiseError
  <2>1. pc # "idle" /\ pc' = Handler
    BY <1>13 DEF RaiseError
  <2>2. CASE pc = "FAILED" \/ pc \in RollbackSteps
    BY <1>0, <2>1, <2>2 DEF Handler, RollbackSteps, Left
  <2>3. CASE ~(pc = "FAILED" \/ pc \in RollbackSteps)
    BY <1>0, <1>1, <2>1, <2>3 DEF RollbackSteps, Left
  <2> QED BY <2>2, <2>3
<1> QED BY <1>2, <1>3, <1>5, <1>6, <1>7, <1>8, <1>9, <1>10, <1>11, <1>12, <1>13 DEF Progress

(* Every call of replace_transaction and of recover() ends after 24 steps  *)
(* at most, whatever raises or dies: what is left of it never grows, and   *)
(* each of its steps takes from it.  (That it takes its steps is the       *)
(* fairness under which TLC checks CallReturns.)                           *)
THEOREM CallsAreShort ==
  Spec =>
    /\ [](Left \in 0 .. 24)
    /\ [][pc # "idle" => (Progress \/ RaiseError \/ Crash) /\ Left' < Left]_vars
<1> DEFINE I == Left \in 0 .. 24
           A == pc # "idle" => (Progress \/ RaiseError \/ Crash) /\ Left' < Left
<1>1. I
  BY LeftType
<1>2. TypeOK /\ Inv /\ [Next]_vars => [A]_vars
  BY StepsRunDown DEF Next, Begin, Recover
<1> HIDE DEF A, I
<1>3. Spec => []I /\ [][A]_vars
  BY <1>1, <1>2, Invariance, PTL DEF Spec
<1> QED BY <1>3 DEF A, I
=============================================================================
