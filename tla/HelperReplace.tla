---------------------------- MODULE HelperReplace ----------------------------
(***************************************************************************)
(* replace_and_launch (helper/main.py): the helper process that waits for  *)
(* the application to exit, backs its tree up, puts the staged tree in its *)
(* place, launches it and waits for its readiness, and on any failure puts *)
(* the backup back and launches that.                                      *)
(*                                                                         *)
(* The helper runs once per attempt; attempt a installs release a.  The    *)
(* helper may die at any step.  The applications it has launched live on   *)
(* and exit when they like.                                                *)
(***************************************************************************)
EXTENDS InstallTree

CONSTANTS
  MaxAttempts,  \* number of helper runs
  MaxCrashes,   \* number of times the helper dies
  MaxFaults,    \* number of OSErrors
  Faults        \* which failures the environment may produce

ASSUME ConstantsAssumption ==
  /\ MaxAttempts \in Nat /\ MaxCrashes \in Nat /\ MaxFaults \in Nat
  /\ Faults \subseteq {"io"}

VARIABLES
  install,   \* the tree at plan.install_root
  backup,    \* the tree at plan.backup_root
  running,   \* the application processes alive
  attempt,   \* the latest helper run, 0 before the first
  plan,      \* its HelperPlan and the process it is told to wait for
  pc,        \* its next step, "idle" when it has ended
  launched,  \* the variable of that name holds the candidate's process
  marked,    \* the process launched last has printed the ready marker
  record,    \* the state in state.json of this run's transaction
  outcome,   \* how the run ended: returned, raised, or neither yet
  crashes, faults,
  base,      \* history: the installation as this run found it
  good       \* history: the last complete installation a run has found

vars == <<install, backup, running, attempt, plan, pc, launched, marked,
          record, outcome, crashes, faults, base, good>>

Releases == 0 .. MaxAttempts

(* A process is named by the run that launched it and what it launched;    *)
(* run 0 stands for whoever started the application at first.              *)
Process   == (0 .. MaxAttempts) \X {"candidate", "restored"}
NoProcess == <<0, "none">>

Candidate == <<attempt, "candidate">>
Restored  == <<attempt, "restored">>

(* safe: validate_plan accepts the roots; launch, marker: as in HelperPlan; *)
(* recorded: it names a transaction; target: the process of wait_pid;       *)
(* seen: wait_for_exit can tell whether that process runs.                  *)
Plan == [safe : BOOLEAN, launch : BOOLEAN, marker : BOOLEAN, recorded : BOOLEAN,
         target : Process \cup {NoProcess}, seen : BOOLEAN]

\* The steps before, inside and after the try block of replace_and_launch.
Preparing == {"validate", "wait", "rmBackup", "cpBackup"}
Trying    == {"rmRoot", "cpRoot", "launch", "await", "COMMITTED"}
Restoring == {"stop", "rmFailed", "cpRestore"}
Restarting == {"relaunch", "reawait"}
Steps     == Preparing \cup Trying \cup Restoring \cup Restarting
               \cup {"ROLLED_BACK", "FAILED", "idle"}

-----------------------------------------------------------------------------
Init ==
  /\ install = Whole(0)
  /\ backup = Absent
  /\ running = {<<0, "candidate">>}
  /\ attempt = 0
  /\ plan = [safe |-> TRUE, launch |-> TRUE, marker |-> TRUE, recorded |-> TRUE,
             target |-> NoProcess, seen |-> TRUE]
  /\ pc = "idle"
  /\ launched = FALSE /\ marked = FALSE
  /\ record = "NONE"
  /\ outcome = "none"
  /\ crashes = 0 /\ faults = 0
  /\ base = install /\ good = install

(* The helper is started, with a running application to wait for or none. *)
Begin ==
  /\ pc = "idle"
  /\ attempt < MaxAttempts
  /\ attempt' = attempt + 1
  /\ plan' \in {p \in Plan : p.target \in running \/ (p.target = NoProcess /\ p.seen)}
  /\ pc' = "validate"
  /\ launched' = FALSE /\ marked' = FALSE
  /\ record' = "NONE" /\ outcome' = "none"
  /\ base' = install
  /\ good' = IF install.whole THEN install ELSE good
  /\ UNCHANGED <<install, backup, running, crashes, faults>>

\* What the steps of a run never touch.
Context == <<attempt, plan, crashes, base, good>>

Raised(step) == pc' = step /\ outcome' = IF step = "idle" THEN "raised" ELSE outcome
Proceed(step) == pc' = step /\ UNCHANGED outcome

(* Where an exception of the next step goes: out of the helper, or to the  *)
(* handler of the try block it is in.                                      *)
Handler ==
  CASE pc \in Trying     -> "stop"
    [] pc \in Restarting -> "FAILED"
    [] OTHER             -> "idle"

(* validate_plan: the staged and the install root must be directories. *)
ValidatePlan ==
  /\ pc = "validate"
  /\ IF plan.safe /\ install # Absent THEN Proceed("wait") ELSE Raised(Handler)
  /\ UNCHANGED <<install, backup, running, launched, marked, record, faults, Context>>

(* wait_for_exit: the process has gone, or the deadline passes, ... *)
TargetExited ==
  /\ pc = "wait"
  /\ plan.target \notin running
  /\ Proceed("rmBackup")
  /\ UNCHANGED <<install, backup, running, launched, marked, record, faults, Context>>

\* Mutant: the deadline ends the wait like an exit.
WaitTimeoutProceeds ==
  /\ pc = "wait"
  /\ Proceed("rmBackup")
  /\ UNCHANGED <<install, backup, running, launched, marked, record, faults, Context>>

WaitTimeout ==
  /\ pc = "wait"
  /\ plan.target \in running
  /\ Raised(Handler)
  /\ UNCHANGED <<install, backup, running, launched, marked, record, faults, Context>>

(* ... or the process cannot be examined, or has a name that reads like    *)
(* the state of a zombie (module Launch): it counts as gone.               *)
TargetUnseen ==
  /\ pc = "wait"
  /\ ~plan.seen
  /\ Proceed("rmBackup")
  /\ UNCHANGED <<install, backup, running, launched, marked, record, faults, Context>>

RemoveOldBackup ==
  /\ pc = "rmBackup"
  /\ backup' = Shrink(backup)
  /\ Proceed(IF backup' = Absent THEN "cpBackup" ELSE pc)
  /\ UNCHANGED <<install, running, launched, marked, record, faults, Context>>

\* Mutant: a copy that stops half-way counts as a backup.
BackUpSomeFiles ==
  /\ pc = "cpBackup"
  /\ backup' = Grow(backup, install)
  /\ Proceed("rmRoot")
  /\ UNCHANGED <<install, running, launched, marked, record, faults, Context>>

MakeBackup ==
  /\ pc = "cpBackup"
  /\ backup' = Grow(backup, install)
  /\ Proceed(IF backup' = install THEN "rmRoot" ELSE pc)
  /\ UNCHANGED <<install, running, launched, marked, record, faults, Context>>

(* The installed tree goes, for the staged one or for the backup. *)
RemoveRoot ==
  /\ pc \in {"rmRoot", "rmFailed"}
  /\ install' = Shrink(install)
  /\ Proceed(IF install' # Absent THEN pc
             ELSE IF pc = "rmRoot" THEN "cpRoot"
             ELSE "cpRestore")
  /\ UNCHANGED <<backup, running, launched, marked, record, faults, Context>>

CopyStaged ==
  /\ pc = "cpRoot"
  /\ install' = Grow(install, Whole(attempt))
  /\ Proceed(IF install' = Whole(attempt) THEN "launch" ELSE pc)
  /\ UNCHANGED <<backup, running, launched, marked, record, faults, Context>>

RestoreBackup ==
  /\ pc = "cpRestore"
  /\ install' = Grow(install, backup)
  /\ Proceed(IF install' = backup THEN "relaunch" ELSE pc)
  /\ UNCHANGED <<backup, running, launched, marked, record, faults, Context>>

-----------------------------------------------------------------------------
(* _launch_and_verify, of the candidate and of the restored application. *)
Launching == IF pc \in {"launch", "await"} THEN Candidate ELSE Restored

(* It returns the process, which only the first call keeps. *)
Verified ==
  IF pc \in {"launch", "await"}
    THEN Proceed("COMMITTED") /\ launched' = plan.launch
    ELSE Proceed("ROLLED_BACK") /\ UNCHANGED launched

Spawn ==
  /\ pc \in {"launch", "relaunch"}
  /\ IF plan.launch
       THEN /\ running' = running \cup {Launching}
            /\ marked' = FALSE
            /\ Proceed(IF pc = "launch" THEN "await" ELSE "reawait")
            /\ UNCHANGED launched
       ELSE Verified /\ UNCHANGED <<running, marked>>
  /\ UNCHANGED <<install, backup, record, faults, Context>>

(* The marker has been read, and the process is alive a moment later. *)
Ready ==
  /\ pc \in {"await", "reawait"}
  /\ plan.marker /\ marked /\ Launching \in running
  /\ Verified
  /\ UNCHANGED <<install, backup, running, marked, record, faults, Context>>

(* The process has exited: a failure when a marker is expected, marker     *)
(* printed or not, and otherwise when the exit code is not 0.              *)
Exited ==
  /\ pc \in {"await", "reawait"}
  /\ Launching \notin running
  /\ \/ Raised(Handler) /\ UNCHANGED launched
     \/ ~plan.marker /\ Verified
  /\ UNCHANGED <<install, backup, running, marked, record, faults, Context>>

(* Mutants: the deadline is a success whether a marker is expected or not; *)
(* it is never checked.                                                    *)
DeadlineIsSuccess ==
  /\ pc \in {"await", "reawait"}
  /\ Verified
  /\ UNCHANGED <<install, backup, running, marked, record, faults, Context>>

NoStartupDeadline ==
  /\ pc \in {"await", "reawait"}
  /\ ~plan.marker /\ Verified
  /\ UNCHANGED <<install, backup, running, marked, record, faults, Context>>

(* startup_timeout is over: a failure only when a marker is expected. *)
StartupDeadline ==
  /\ pc \in {"await", "reawait"}
  /\ IF plan.marker THEN Raised(Handler) /\ UNCHANGED launched ELSE Verified
  /\ UNCHANGED <<install, backup, running, marked, record, faults, Context>>

\* Mutants: the handler restarts the tree it finds; it stops no process.
StopThenRelaunch ==
  /\ pc = "stop"
  /\ running' = IF launched THEN running \ {Candidate} ELSE running
  /\ Proceed("relaunch")
  /\ UNCHANGED <<install, backup, launched, marked, record, faults, Context>>

StopNothing ==
  /\ pc = "stop"
  /\ Proceed("rmFailed")
  /\ UNCHANGED <<install, backup, running, launched, marked, record, faults, Context>>

(* _stop(launched) ends the candidate if the variable holds it. *)
Stop ==
  /\ pc = "stop"
  /\ running' = IF launched THEN running \ {Candidate} ELSE running
  /\ Proceed("rmFailed")
  /\ UNCHANGED <<install, backup, launched, marked, record, faults, Context>>

\* Mutant: the record holds how the helper ends, not the state.
TerminalRecordsOutcome ==
  /\ pc \in {"COMMITTED", "ROLLED_BACK", "FAILED"}
  /\ outcome' = IF pc = "COMMITTED" THEN "returned" ELSE "raised"
  /\ record' = IF plan.recorded THEN outcome' ELSE record
  /\ pc' = "idle"
  /\ UNCHANGED <<install, backup, running, launched, marked, faults, Context>>

(* _terminal writes the outcome, if the plan names a transaction, and the  *)
(* helper returns from COMMITTED and raises the cause of the others.       *)
Terminal ==
  /\ pc \in {"COMMITTED", "ROLLED_BACK", "FAILED"}
  /\ record' = IF plan.recorded THEN pc ELSE record
  /\ pc' = "idle"
  /\ outcome' = IF pc = "COMMITTED" THEN "returned" ELSE "raised"
  /\ UNCHANGED <<install, backup, running, launched, marked, faults, Context>>

-----------------------------------------------------------------------------
(* An OSError of a step that touches the file system, waits for a process, *)
(* or starts or stops one.                                                 *)
RaiseError ==
  /\ "io" \in Faults /\ faults < MaxFaults
  /\ pc \notin {"idle", "await", "reawait"}
  /\ faults' = faults + 1
  /\ Raised(Handler)
  /\ UNCHANGED <<install, backup, running, launched, marked, record, Context>>

Crash ==
  /\ crashes < MaxCrashes
  /\ pc # "idle"
  /\ crashes' = crashes + 1
  /\ pc' = "idle"
  /\ launched' = FALSE
  /\ UNCHANGED <<install, backup, running, attempt, plan, marked, record, outcome,
                 faults, base, good>>

PrintMarker ==
  /\ pc \in {"await", "reawait"}
  /\ Launching \in running /\ ~marked
  /\ marked' = TRUE
  /\ UNCHANGED <<install, backup, running, pc, launched, record, outcome, faults, Context>>

ApplicationExits ==
  /\ \E p \in running : running' = running \ {p}
  /\ UNCHANGED <<install, backup, pc, launched, marked, record, outcome, faults, Context>>

Progress ==
  \/ ValidatePlan \/ TargetExited \/ WaitTimeout \/ RemoveOldBackup \/ MakeBackup
  \/ RemoveRoot \/ CopyStaged \/ RestoreBackup \/ Spawn \/ Ready \/ Exited
  \/ StartupDeadline \/ Stop \/ Terminal

Next ==
  \/ Begin \/ Progress \/ TargetUnseen \/ RaiseError \/ Crash
  \/ PrintMarker \/ ApplicationExits

Spec == Init /\ [][Next]_vars

(* The helper keeps running: every wait in it has a deadline. *)
FairSpec == Spec /\ WF_vars(Progress)

-----------------------------------------------------------------------------
(* Every variable keeps its type. *)
TypeOK ==
  /\ install \in Tree(Releases) /\ backup \in Tree(Releases)
  /\ running \subseteq Process
  /\ attempt \in 0 .. MaxAttempts
  /\ plan \in Plan
  /\ pc \in Steps
  /\ launched \in BOOLEAN /\ marked \in BOOLEAN
  /\ record \in {"NONE", "COMMITTED", "ROLLED_BACK", "FAILED"}
  /\ outcome \in {"none", "returned", "raised"}
  /\ crashes \in 0 .. MaxCrashes /\ faults \in 0 .. MaxFaults
  /\ base \in Tree(Releases) /\ good \in Tree(Releases)

(* At every moment of a run, and however it ends, one of the two roots     *)
(* holds exactly the installation the run found.                           *)
BaseSurvives == base \in {install, backup}

(* A run that returns has installed the whole staged tree, has kept the    *)
(* installation it found as its backup, and has seen the marker it was     *)
(* told to wait for.                                                       *)
ReturnedMeansReplaced ==
  outcome = "returned" =>
    /\ install = Whole(attempt) /\ backup = base
    /\ plan.launch /\ plan.marker => marked

(* A record of failure says that the installation is back as it was, and   *)
(* ROLLED_BACK that the restored application has reported ready.           *)
FailureRecordMeansRestored ==
  /\ record \in {"ROLLED_BACK", "FAILED"} => install = base /\ backup = base
  /\ record = "ROLLED_BACK" /\ plan.launch /\ plan.marker => marked

(* Nothing is backed up or replaced, and nothing started or restored,      *)
(* while the process the helper was told to wait for runs, whatever raised *)
(* or died in this run or the last; unless wait_for_exit could not tell.   *)
TargetHasExited ==
  pc \notin {"idle", "validate", "wait"} /\ plan.seen => plan.target \notin running

(* The tree under a candidate that was verified is not removed before the  *)
(* candidate has been stopped.                                             *)
VerifiedCandidateIsStopped ==
  launched /\ pc \in {"rmFailed", "cpRestore", "relaunch"} => Candidate \notin running

(* Every run of the helper ends. *)
HelperEnds == pc # "idle" ~> pc = "idle"

(* What a helper run tells who started it: by returning, by its record, or  *)
(* by an exception without one, which promises nothing.                    *)
Phase ==
  IF attempt = 0 THEN "none"
  ELSE IF outcome = "returned" THEN "committed"
  ELSE IF record \in {"ROLLED_BACK", "FAILED"} THEN "kept"
  ELSE IF outcome = "raised" THEN "abandoned"
  ELSE "running"

Promise == INSTANCE AtomicUpdate WITH
  MaxUpdates <- MaxAttempts,
  update     <- attempt,
  phase      <- Phase,
  saved      <- base,
  visible    <- IF Phase \in {"committed", "kept"} THEN install ELSE Unknown

(* The helper implements an atomic update as well: what it has returned or *)
(* recorded is true of the installation until the next run begins.         *)
RunsAreAtomic == Promise!Spec

-----------------------------------------------------------------------------
(* Statements of the documents and the code that the code does not keep.   *)

(* After a rollback the candidate does not run (_stop in the handler).  It *)
(* does when it never became ready: the call that raises has not returned  *)
(* the process, so nothing is there to stop.                               *)
RolledBackStopsCandidate == record = "ROLLED_BACK" => Candidate \notin running

(* The last complete installation can be restored from one of the roots.   *)
(* It cannot when a crash has left a partial root and the helper is run    *)
(* again: the partial root replaces the backup.                            *)
GoodInstallationSurvives == good \in {install, backup}
=============================================================================
