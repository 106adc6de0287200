-------------------------- MODULE UpdateTransaction --------------------------
(***************************************************************************)
(* replace_transaction (executor.py), the UpdateTransaction it drives      *)
(* (transaction.py) and the durable TransactionStore (state.py).           *)
(*                                                                         *)
(* The caller runs one transaction after another on one installation, with *)
(* one backup path; transaction number t installs release t.  The process  *)
(* may die between any two file-system steps and any step may raise.  The  *)
(* trees, the staged artifact and the records survive a crash, and after   *)
(* one the caller may run recover() on its latest transaction.             *)
(*                                                                         *)
(* The program counter names what happens next: a TransactionState stands  *)
(* for the transition(state) call that writes it, the other labels for the *)
(* file-system work between two transitions.                               *)
(***************************************************************************)
EXTENDS InstallTree

CONSTANTS
  MaxTx,       \* number of transactions the caller runs
  MaxCrashes,  \* number of times the process dies
  MaxFaults,   \* number of exceptions the environment causes
  Faults       \* which failures the environment may produce

ASSUME ConstantsAssumption ==
  /\ MaxTx \in Nat /\ MaxCrashes \in Nat /\ MaxFaults \in Nat
  /\ Faults \subseteq {"artifact", "roots", "io"}

VARIABLES
  install,   \* the tree at plan.target_install_root
  backup,    \* the tree at plan.backup_path
  artifact,  \* plan.staged_artifact exists
  record,    \* record[t]: the state in state.json of transaction t
  tx,        \* the latest transaction, 0 before the first
  plan,      \* what its UpdatePlan holds
  pc,        \* next step of the running call, "idle" when none runs
  caller,    \* the call that runs or ran last: replace_transaction or recover
  crashes, faults,
  base,      \* history: the installation as the latest transaction found it
  trail      \* history: the states the latest transaction has recorded

vars == <<install, backup, artifact, record, tx, plan, pc, caller,
          crashes, faults, base, trail>>

Terminal          == {"COMMITTED", "ROLLED_BACK", "FAILED"}
BeforeReplacement == {"CREATED", "DOWNLOADING", "VERIFIED", "STAGED", "WAITING_FOR_EXIT"}
Replacing         == {"REPLACING", "VERIFYING"}
TransactionState  == Terminal \cup BeforeReplacement \cup Replacing \cup {"ROLLING_BACK"}

RollbackSteps == {"ROLLING_BACK", "restore", "noBackup", "rmFailed", "cpBackup", "ROLLED_BACK"}
Steps == TransactionState \cup RollbackSteps
           \cup {"idle", "verify", "guard", "rmBackup", "mkBackup", "rmRoot", "cpCandidate",
                 "probe", "unlink"}

Releases == 0 .. MaxTx

(* genuine: size and SHA-256 match.  roots: backup path and executable are  *)
(* where they should be, or the backup path is the install root itself, or  *)
(* the executable lies outside it.  healthy: the candidate can answer the   *)
(* health probe.                                                            *)
Plan  == [genuine : BOOLEAN, roots : {"safe", "overlap", "escape"}, healthy : BOOLEAN]
Plans == {p \in Plan : /\ ~p.genuine => "artifact" \in Faults
                       /\ p.roots # "safe" => "roots" \in Faults}

(* What plan.backup_path names. *)
BackupTree == IF plan.roots = "overlap" THEN install ELSE backup

-----------------------------------------------------------------------------
Init ==
  /\ install \in {Absent, Whole(0)}
  /\ backup = Absent
  /\ artifact = FALSE
  /\ record = [t \in 1 .. MaxTx |-> "NONE"]
  /\ tx = 0
  /\ plan = [genuine |-> TRUE, roots |-> "safe", healthy |-> TRUE]
  /\ pc = "idle"
  /\ caller = "replace"
  /\ crashes = 0 /\ faults = 0
  /\ base = install
  /\ trail = {}

(* replace_transaction is called with a new plan and a new transaction id. *)
Begin ==
  /\ pc = "idle"
  /\ tx < MaxTx
  /\ tx' = tx + 1
  /\ plan' \in Plans
  /\ artifact' = TRUE
  /\ caller' = "replace"
  /\ pc' = "verify"
  /\ base' = install
  /\ trail' = {}
  /\ UNCHANGED <<install, backup, record, crashes, faults>>

\* What the steps of a running call never touch.
Context == <<tx, plan, caller, crashes, base>>

\* The rest of a step that only decides what comes next.
Goto(step) ==
  /\ pc' = step
  /\ UNCHANGED <<install, backup, artifact, record, faults, trail, Context>>

(* Where an exception goes that the next step raises: recover() has no     *)
(* handler, replace_transaction rolls back, and records FAILED when the    *)
(* rollback raises too.                                                    *)
Handler ==
  IF caller = "recover" \/ pc = "FAILED" THEN "idle"
  ELSE IF pc \in RollbackSteps THEN "FAILED"
  ELSE "ROLLING_BACK"

(* The step that follows transition(s). *)
After(s) ==
  CASE s = "VERIFIED"     -> "guard"
    [] s = "STAGED"       -> "REPLACING"
    [] s = "REPLACING"    -> "rmRoot"
    [] s = "VERIFYING"    -> "probe"
    [] s = "ROLLING_BACK" -> "restore"
    [] OTHER              -> "idle"

(* transition(): TransactionStore.write replaces state.json in one step,   *)
(* from a temporary file.                                                  *)
Transition ==
  /\ pc \in TransactionState
  /\ record' = [record EXCEPT ![tx] = pc]
  /\ trail' = trail \cup {pc}
  /\ pc' = After(pc)
  /\ UNCHANGED <<install, backup, artifact, faults, Context>>

(* Mutant: the size and the hash are computed and not compared. *)
VerifyNothing ==
  /\ pc = "verify"
  /\ Goto("VERIFIED")

VerifyArtifact ==
  /\ pc = "verify"
  /\ Goto(IF plan.genuine THEN "VERIFIED" ELSE Handler)

(* Mutant: a backup that is there already is kept. *)
GuardRootsKeepBackup ==
  /\ pc = "guard"
  /\ Goto(IF plan.roots # "safe" THEN Handler
          ELSE IF install = Absent \/ backup # Absent THEN "STAGED"
          ELSE "mkBackup")

(* The roots are validated; a backup is due only if something is installed. *)
GuardRoots ==
  /\ pc = "guard"
  /\ Goto(IF plan.roots # "safe" THEN Handler
          ELSE IF install = Absent THEN "STAGED"
          ELSE "rmBackup")

(* Mutant: the new backup is copied over the old one (dirs_exist_ok) and   *)
(* not in its place: files of two releases stay side by side.              *)
MergeIntoOldBackup ==
  /\ pc = "rmBackup"
  /\ backup' = IF backup \in {Absent, install} THEN install ELSE Mixture
  /\ pc' = "STAGED"
  /\ UNCHANGED <<install, artifact, record, faults, trail, Context>>

RemoveOldBackup ==
  /\ pc = "rmBackup"
  /\ backup' = Shrink(backup)
  /\ pc' = IF backup' = Absent THEN "mkBackup" ELSE pc
  /\ UNCHANGED <<install, artifact, record, faults, trail, Context>>

(* Mutant: the installation is moved to the backup path, not copied. *)
MoveToBackup ==
  /\ pc = "mkBackup"
  /\ backup' = install /\ install' = Absent
  /\ pc' = "STAGED"
  /\ UNCHANGED <<artifact, record, faults, trail, Context>>

MakeBackup ==
  /\ pc = "mkBackup"
  /\ backup' = Grow(backup, install)
  /\ pc' = IF backup' = install THEN "STAGED" ELSE pc
  /\ UNCHANGED <<install, artifact, record, faults, trail, Context>>

RemoveRoot ==
  /\ pc = "rmRoot"
  /\ install' = Shrink(install)
  /\ pc' = IF install' = Absent THEN "cpCandidate" ELSE pc
  /\ UNCHANGED <<backup, artifact, record, faults, trail, Context>>

CopyCandidate ==
  /\ pc = "cpCandidate"
  /\ install' = Grow(install, Whole(tx))
  /\ pc' = IF install' = Whole(tx) THEN "VERIFYING" ELSE pc
  /\ UNCHANGED <<backup, artifact, record, faults, trail, Context>>

(* The probe is repeated until it succeeds or the deadline has passed. *)
ProbeSucceeds ==
  /\ pc = "probe"
  /\ plan.healthy
  /\ Goto("COMMITTED")

(* Mutant: the probe is repeated without a deadline. *)
ProbeForever ==
  /\ pc = "probe"
  /\ Goto(pc)

ProbeDeadline ==
  /\ pc = "probe"
  /\ Goto(Handler)

-----------------------------------------------------------------------------
(* rollback(), after it has recorded ROLLING_BACK. *)
CheckBackup ==
  /\ pc = "restore"
  /\ Goto(IF BackupTree = Absent THEN "noBackup" ELSE "rmFailed")

(* FAILED is recorded, and "backup unavailable" raised.                     *)
NoBackup ==
  /\ pc = "noBackup"
  /\ record' = [record EXCEPT ![tx] = "FAILED"]
  /\ trail' = trail \cup {"FAILED"}
  /\ pc' = Handler
  /\ UNCHANGED <<install, backup, artifact, faults, Context>>

RemoveFailed ==
  /\ pc = "rmFailed"
  /\ install' = Shrink(install)
  /\ pc' = IF install' = Absent THEN "cpBackup" ELSE pc
  /\ UNCHANGED <<backup, artifact, record, faults, trail, Context>>

(* Mutant: a copy that stops half-way counts as a restored backup. *)
RestoreSomeFiles ==
  /\ pc = "cpBackup"
  /\ install' = Grow(install, BackupTree)
  /\ pc' = "ROLLED_BACK"
  /\ UNCHANGED <<backup, artifact, record, faults, trail, Context>>

(* copytree raises when its source has gone with the root it was part of. *)
RestoreBackup ==
  /\ pc = "cpBackup"
  /\ IF BackupTree = Absent
       THEN pc' = Handler /\ UNCHANGED install
       ELSE /\ install' = Grow(install, BackupTree)
            /\ pc' = IF install' = BackupTree THEN "ROLLED_BACK" ELSE pc
  /\ UNCHANGED <<backup, artifact, record, faults, trail, Context>>

-----------------------------------------------------------------------------
(* recover() reads the record of the latest transaction ... *)
Recovering(next) ==
  /\ caller' = "recover"
  /\ pc' = next
  /\ UNCHANGED <<install, backup, artifact, record, tx, plan, crashes, faults, base, trail>>

Latest == IF tx = 0 THEN "NONE" ELSE record[tx]

(* Mutants of recover(): the artifact is left behind, VERIFYING is left     *)
(* alone, a committed transaction is rolled back.                           *)
RecoverLeavesArtifact ==
  /\ pc = "idle"
  /\ \/ Latest \in BeforeReplacement /\ Recovering("FAILED")
     \/ Latest \in Replacing /\ Recovering("ROLLING_BACK")

RecoverSkipsVerifying ==
  /\ pc = "idle"
  /\ \/ Latest \in BeforeReplacement /\ Recovering("unlink")
     \/ Latest = "REPLACING" /\ Recovering("ROLLING_BACK")

RecoverUndoesCommit ==
  /\ pc = "idle"
  /\ \/ Latest \in BeforeReplacement /\ Recovering("unlink")
     \/ Latest \in Replacing \cup {"COMMITTED"} /\ Recovering("ROLLING_BACK")

(* ... and gives up before replacement and rolls back after it.  It returns *)
(* a terminal state and raises on ROLLING_BACK or no record, changing       *)
(* nothing either way.                                                      *)
Recover ==
  /\ pc = "idle"
  /\ \/ Latest \in BeforeReplacement /\ Recovering("unlink")
     \/ Latest \in Replacing /\ Recovering("ROLLING_BACK")

UnlinkArtifact ==
  /\ pc = "unlink"
  /\ artifact' = FALSE
  /\ pc' = "FAILED"
  /\ UNCHANGED <<install, backup, record, faults, trail, Context>>

-----------------------------------------------------------------------------
(* An OSError of any step, or an exception of the caller's interruption    *)
(* callback or health probe.                                               *)
RaiseError ==
  /\ "io" \in Faults /\ faults < MaxFaults
  /\ pc # "idle"
  /\ faults' = faults + 1
  /\ pc' = Handler
  /\ UNCHANGED <<install, backup, artifact, record, trail, Context>>

Crash ==
  /\ crashes < MaxCrashes
  /\ pc # "idle"
  /\ crashes' = crashes + 1
  /\ pc' = "idle"
  /\ UNCHANGED <<install, backup, artifact, record, tx, plan, caller, faults, base, trail>>

Progress ==
  \/ Transition \/ VerifyArtifact \/ GuardRoots \/ RemoveOldBackup \/ MakeBackup
  \/ RemoveRoot \/ CopyCandidate \/ ProbeSucceeds \/ ProbeDeadline
  \/ CheckBackup \/ NoBackup \/ RemoveFailed \/ RestoreBackup \/ UnlinkArtifact

Next == Begin \/ Progress \/ Recover \/ RaiseError \/ Crash

Spec == Init /\ [][Next]_vars

(* A running call keeps running (every loop in it ends at a deadline), and *)
(* the operator runs recover() on an interrupted transaction (COOKBOOK.md).*)
FairSpec == Spec /\ WF_vars(Progress) /\ WF_vars(Recover)
-----------------------------------------------------------------------------
(* Every variable keeps its type; in particular the installation and the   *)
(* backup never hold files of two releases, whatever removals and copies   *)
(* were stopped half-way before.                                           *)
TypeOK ==
  /\ install \in Tree(Releases) /\ backup \in Tree(Releases)
  /\ artifact \in BOOLEAN
  /\ record \in [1 .. MaxTx -> TransactionState \cup {"NONE"}]
  /\ tx \in 0 .. MaxTx
  /\ plan \in Plan
  /\ pc \in Steps
  /\ caller \in {"replace", "recover"}
  /\ crashes \in 0 .. MaxCrashes /\ faults \in 0 .. MaxFaults
  /\ base \in Tree(Releases)
  /\ trail \subseteq TransactionState

(* A COMMITTED record means that the installation is the whole candidate,  *)
(* that its artifact was genuine and that it answered the health probe,    *)
(* whatever crashed, raised or was recovered on the way (executor.py).     *)
CommittedIsHealthyCandidate ==
  Latest = "COMMITTED" => install = Whole(tx) /\ plan.genuine /\ plan.healthy

(* Once STAGED is recorded, the copy of the installation that was found is *)
(* kept until the next transaction begins: no step of the replacement, of  *)
(* a rollback or of a repeated recover() damages it.                       *)
StagedBackupIsKept ==
  "STAGED" \in trail /\ base # Absent => backup = base

(* A ROLLED_BACK transaction that had staged its backup has put back       *)
(* exactly the installation it found, also when the rollback is recover()'s *)
(* after a crash in the middle of the replacement.                         *)
StagedRollbackRestoresBase ==
  Latest = "ROLLED_BACK" /\ "STAGED" \in trail /\ base # Absent => install = base

(* Until REPLACING or ROLLING_BACK is on disk the installation is as the   *)
(* transaction found it: recover() relies on the record to say so.         *)
RecordPrecedesReplacement ==
  trail \cap {"REPLACING", "ROLLING_BACK"} = {} => install = base

(* What recover() fails closed, before replacement, keeps the installation *)
(* and leaves no staged artifact (test_transaction.py).                    *)
RecoverFailsClosed ==
  /\ caller = "recover"
  /\ Latest = "FAILED"
  /\ trail \cap {"REPLACING", "ROLLING_BACK"} = {}
  => install = base /\ ~artifact

(* A terminal record is never rewritten, neither by the handlers of        *)
(* replace_transaction nor by a recover() run once more.                   *)
TerminalIsFinal ==
  [][\A t \in 1 .. MaxTx : record[t] \in Terminal => record'[t] = record[t]]_vars

(* A replacement that a crash interrupts does not stay so: recover() takes *)
(* it to a terminal state, or is itself interrupted in ROLLING_BACK.       *)
InterruptedReplacementSettles ==
  \A t \in 1 .. MaxTx :
    tx = t /\ Latest \in Replacing
      ~> tx # t \/ Latest \in Terminal \cup {"ROLLING_BACK"}

(* Every call of replace_transaction and recover returns or dies. *)
CallReturns == pc # "idle" ~> pc = "idle"

(* What the record of the latest transaction tells its reader.  ROLLED_BACK *)
(* counts once the transaction had made its backup, and FAILED when nothing *)
(* was recorded that touches the installation; any other FAILED, and a      *)
(* rollback to somebody else's backup, promise nothing.                    *)
Kept ==
  \/ Latest = "ROLLED_BACK" /\ "STAGED" \in trail /\ base # Absent
  \/ Latest = "FAILED" /\ trail \cap {"REPLACING", "ROLLING_BACK"} = {}

Phase ==
  IF tx = 0 THEN "none"
  ELSE IF Latest = "COMMITTED" THEN "committed"
  ELSE IF Kept THEN "kept"
  ELSE IF Latest \in Terminal THEN "abandoned"
  ELSE "running"

Promise == INSTANCE AtomicUpdate WITH
  MaxUpdates <- MaxTx,
  update     <- tx,
  phase      <- Phase,
  saved      <- base,
  visible    <- IF Phase \in {"committed", "kept"} THEN install ELSE Unknown

(* replace_transaction and recover() implement an atomic update: with the  *)
(* record as their answer, the removals, copies, crashes and handlers on   *)
(* the way are steps nobody sees.                                          *)
UpdatesAreAtomic == Promise!Spec

-----------------------------------------------------------------------------
(* Statements of the documents and the tests that the code does not keep.  *)

(* ROLLED_BACK says that the previous installation is back                 *)
(* (test_broken_candidate_restores_previous_install).  It is not when the  *)
(* transaction failed before it had made its own backup: the handler of    *)
(* replace_transaction restores whatever the backup path holds, the backup *)
(* of an earlier update or the part of a new one that was copied so far.   *)
RolledBackRestoresPrevious ==
  Latest = "ROLLED_BACK" /\ base # Absent => install = base

(* A plan that is refused before anything is replaced leaves the           *)
(* installation alone.  It does not when the backup path is refused for    *)
(* being the install root: the rollback takes it for the backup.           *)
RefusedPlanChangesNothing ==
  Latest \in Terminal /\ "REPLACING" \notin trail => install = base

(* An interrupted transaction ends in a terminal state (COOKBOOK.md).  One *)
(* that dies in ROLLING_BACK does not: recover() knows no such state.      *)
InterruptedTransactionEnds ==
  \A t \in 1 .. MaxTx :
    tx = t /\ Latest \notin Terminal \cup {"NONE"} ~> tx # t \/ Latest \in Terminal
=============================================================================
