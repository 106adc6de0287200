# Formal model of bke-updater-core

TLA+ modules, TLC configurations and TLAPS proofs for the Python package in
`src/src/bke_updater_core`. Every definition is translated from the code;
`PROJECT.json` maps each one to its lines. Paths below are relative to that
package unless they start with `src/`.

Run a check with `tlc -config <file>.cfg <module>` and a proof with
`tlapm <module>Proofs.tla`.

## 1. Inventory

| Part | Code | State it keeps | Operations | Modelled in |
|---|---|---|---|---|
| Transactional replacement | `executor.py`, `transaction.py` | install tree, backup tree, staged artifact | `replace_transaction`, `UpdateTransaction.transition / rollback / recover / commit` | `UpdateTransaction`, `SupersededRecovery` |
| Transaction store | `state.py` | `state.json` per transaction id | `write` (temporary file, then rename), `read` | `UpdateTransaction` |
| Helper replacement | `helper/main.py`, `helper/protocol.py` | the two trees, the processes it starts, the terminal record | `validate_plan`, `wait_for_exit`, `replace_and_launch`, `_launch_and_verify`, `_stop`, `_terminal` | `HelperReplace` (trees), `Launch` (processes) |
| Privileged authority | `privileged_entrypoint.py`, `privileged.py`, `verifier.py`, `target_policy.py`, `authority.py`, `helper/composition.py` | the replay directory (one file per consumed request id) | `execute_privileged_update` and the five checks it makes | `PrivilegedUpdate` |
| Trusted runtime | `trusted_runtime.py` | `trust.json` (keys, approved roots, revision floors), read only | `load_privileged_execution_config` | `PrivilegedUpdate`, partly |
| Command line, elevation | `privileged_cli.py`, `windows_elevation.py` | none | `main`, `validate_invocation_files`, building and starting the elevated command, `read_json_document` | `PrivilegedUpdate` |
| Staging | `staging.py` | temporary tree, staged tree | `stage_verified_zip` | `Acquire` |
| Downloader | `downloader.py` | temporary file, artifact | `download_verified` | `Acquire` |
| Versions and decision | `versioning.py`, `policy.py` | none | `parse_version`, `decide_update` | `Versions` |
| Paths | `paths.py` | none | `validate_manifest_paths`, `safe_extract_member` | no: pure functions over path texts that no other module calls |
| Health | `health.py` | none | `check_executable` | no: one stateless subprocess call |
| Data types | `models.py`, `__init__.py` | none | none | no: types only |

How the parts interact. There are two independent ways to replace an
installation. `replace_transaction` runs in a normal process and drives an
`UpdateTransaction`, which writes every state through the store; after a crash
somebody calls `recover()`, which decides by the record alone. The elevated helper
is a separate process that the unelevated one starts through `windows_elevation`: `privileged_cli.main` validates its
file arguments again, loads `trust.json`, verifies three
signed documents, consumes the request in the replay directory, verifies the
artifact, derives a `HelperPlan` and calls `replace_and_launch`, which waits for
the application, swaps the trees and writes only terminal records. Invocations of
the helper share the file system and nothing else. Before either, `download_verified` and
`stage_verified_zip` bring the artifact and the staged tree to their paths, each by a
temporary object that is renamed there, and `PolicyVerifier` and `decide_update` say whether
there is anything to do. There is no lock anywhere.

What is hard, and what makes each part correct:

- **Replacement**: `rmtree` and `copytree` are not atomic, any step may raise, the
  process may die anywhere, and `recover()` may be run again or be interrupted
  itself. Correct means: a record says what is really on disk (COMMITTED, ROLLED_BACK,
  FAILED), the record runs ahead of the replacement, the backup outlives
  every failure, terminal records stay, interrupted transactions end.
- **Helper**: the same trees, plus processes: readiness, exit and deadline race, and the
  handler has to stop what the try block started. Correct means: the installation found is never lost,
  outcome and record mean what they say, the tree of a running application is not
  touched, the helper always ends.
- **Processes of the helper**: a reader thread, a queue, a pipe that fills up, deadlines that race
  what they wait for, command names and output of any text, and process ids that change hands. Correct means: no running
  application is mistaken for gone, readiness is noticed, no wait outlasts its deadline.
- **Authority**: invocations race for one request id, read a clock that may be set
  back and floors that may be out of date. Correct means: a request serves one invocation, a bad
  document uses up nothing, a replacement has had every check on its way.
- **Staging, downloader**: a temporary object is checked and moved into place; limits,
  failures, crashes and other callers between. Correct means: what is at the destination is whole and verified,
  and stays; nothing grows past its limit; failed calls clean up.
- **Versions**: a total order on versions, and a decision that follows it: updates go up, and what is
  offered is supported.

`PROJECT.json` lists the hazards, each at its line with the properties that cover it
or the reason why none does yet.

## 2. Modules and their correspondence to the code

- **`InstallTree`** - a directory tree is absent, or holds a release wholly or
  partly. `Shrink` is one step of `shutil.rmtree`, `Grow` one of `shutil.copytree`;
  each call takes two steps, so a crash or an error can leave the partial tree.
- **`UpdateTransaction`** - `replace_transaction`, `rollback`, `recover` and the store.
  `install`, `backup`, `artifact` and `record` are on disk and survive a crash; `pc`
  and `caller` are the running call; `plan` says what is wrong with the plan, if
  anything. A `pc` that is a `TransactionState` is the `transition()` call that
  writes it, the other labels are the file-system steps between two transitions.
  `Handler` is the nest of `except` clauses of `executor.py:85-91`, used by every step
  that raises. `RaiseError` is an `OSError` of any step or an exception of a callback,
  `Crash` the death of the process. A crash forgets `pc` alone. `base` and `trail` are history variables for the
  properties. Verification failures and refused roots are inputs (`plan`), not faults.
- **`AtomicUpdate`** - what an update promises whoever started it, without trees in the making, records or
  processes: it commits (the whole new release), keeps (exactly what it found), or says that it
  promises nothing; between these the installation is not to be seen, and what was said stays true until the next update.
  Both `UpdateTransaction` and `HelperReplace` instantiate it: `Phase` reads the promise off the
  record (and, for the helper, off how it ends), `visible` is the tree while something is promised of it.
- **`SupersededRecovery`** - `UpdateTransaction` with a caller that keeps its earlier transactions. `Select` takes
  one up again, with its plan, artifact and history; installation, backup path and records are shared.
- **`HelperReplace`** - `replace_and_launch`. A run of the helper is an attempt; `running` holds
  the processes alive, `launched` is the local variable of the code (it stays empty when
  `_launch_and_verify` raises), `marked` says that the marker was printed. `Handler` again
  is where an exception goes: out of the helper while it prepares, to the handler of the
  try block, or to the inner one around the second launch. `Ready`, `Exited` and
  `StartupDeadline` may all be enabled: that is the race of the readiness loop. A plan is `seen` when the helper can
  examine the process it waits for; `TargetUnseen` is the wait that ends without that.
  Applications exit whenever they like (`ApplicationExits`).
- **`Launch`** - the processes of one helper run up to the stop of the candidate, without trees; the launch of the restored
  application is the same function and is left out. `pc` is the main thread: `wait_for_exit` (the
  POSIX loop `wait`, the Windows handle `handle`, or `handleOther` when the id names somebody else by
  now), `_launch_and_verify` (`watch` without a marker; `head`, `get`, `settle` with one) and `_stop`.
  `written`, `read` and `taken` count lines, so that the pipe and the queue are differences of two of them;
  `ReadOutput` is the reader thread, and `ReaderDies` its end at a line that is not text, with the lines of that read `lost`.
  A `setting` has the platform, what the command of the awaited process is called (`Names`: what the split of
  `/proc/<pid>/stat` at blanks makes of it), and the places of the marker and of the line that does not decode. `late` is the deadline of the wait the helper is in. In
  `HelperReplace` the marker is read or not, and a deadline passes or not: `Launch` is where these come from.
- **`Acquire`** - `download_verified` and `stage_verified_zip` by several `Callers` that work on one artifact path
  and one destination. `temp[c]` is the temporary file or tree, as a prefix of a stream or of
  the members of an archive; `Handler` is where an exception goes. `CheckMember` and `WriteMember` are the loop
  over the archive, and `UNCHANGED temp` in the first is what makes limits bind before a write. `Clash` says which two members
  no directory can hold: a file, and a member at its place or below it. On `windows` the file of `mkstemp`, which is never
  closed, cannot be unlinked (`TempName`): every download there raises, outside the try block, and leaves its empty file.
- **`Versions`** - `Parse` and `Decide` are the two functions, `Less` the order of tuples (`Value`, with the constant `Base`, is what a property compares it with), `Valid` the part of
  `PolicyVerifier.verify` that concerns versions and revisions. The caller that follows decisions is external: it
  passes the last revision it took, and installs the latest version when told that there is one.
- **`PrivilegedUpdate`** - `execute_privileged_update` run by any number of
  `Helpers`, from the request for elevation on, or from the command line when somebody calls that directly.
  One action per check, in the code's order; `Consume` is the `O_EXCL` creation. A
  release stands for versions, hash and size, a machine for platform and
  architecture, a place for install root and entry point; a hash of a document is the
  document. The clock shows any value at each look, since it is the wall clock. The revision floors only rise (`Provision`).
  Syntax is one nondeterministic outcome in `LoadTrust` and one in `ReadDocuments`.
- **`MC*`** - the values of the constants for TLC.
- **`*Proofs`** - theorems about the module they extend; `ArchiveProofs` holds those about the archive loop of `Acquire`, for
  `AcquireProofs`.

Definitions marked *Mutant* are not part of a specification: each is a plausible bug
put in the place of the definition after it, and a property is kept only if TLC
finds it violated under such a bug.

## 3. Runs

| Run | Bounds | Distinct states |
|---|---|---|
| `transaction` | 2 transactions, 2 crashes, 1 exception, all failures | 46k |
| `helper` | 2 helper runs, 1 crash, 1 error | 166k |
| `privileged` | 2 invocations, 21 triples of documents (a good one, the same under a second id, and one defect each), clock 0..2 | 515k |
| `acquire` | 2 callers with releases of their own, 3 calls, 1 crash, 1 error, 10 archives, both platforms, streams of up to one chunk more than stated | 763k |
| `launch` | every setting, pipe of 2 lines, 4 lines printed | 330k |
| `versions` | 8 texts, 3 revisions, every latest and minimum version | 3k |
| `tx_stale_backup`, `tx_refused_roots`, `tx_rollback_crash`, `tx_superseded`, `helper_leaked_candidate`, `helper_crash_retry` | the smallest that show it | findings, section 6 |

`transaction`: `CommittedIsHealthyCandidate`, `StagedBackupIsKept`,
`StagedRollbackRestoresBase`, `RecordPrecedesReplacement`, `RecoverFailsClosed`
(what each record says of the trees), `TerminalIsFinal` (an action property),
`UpdatesAreAtomic` (refinement of `AtomicUpdate`), `InterruptedReplacementSettles` and `CallReturns` (liveness).
Two transactions are needed for a second one to meet the backup, the partial tree and
the record that a first one left; two crashes for `recover()` to be interrupted
and run again; the exception meets every step once.

`helper`: `BaseSurvives`, `ReturnedMeansReplaced`, `FailureRecordMeansRestored`,
`TargetHasExited`, `VerifiedCandidateIsStopped`, `RunsAreAtomic` (refinement), and `HelperEnds`.
Two attempts let the second wait for the application the first started and meet the
trees it left.

`privileged`: `RequestServesOnce`, `ConsumedWasVerified`,
`ReplacementIsAuthorized`, and `InvocationEnds`. Two invocations are
enough for a race; each document of a triple is defective in one
way at a time, and `trust.json` starts at no revisions and rises to one that makes either the update policy or the target policy of
the good triple stale and leaves the other fresh, so every check is decisive for some triple and some floors. The maximum lifetime is 1 and the skew 0, so that requests
of lifetime 0, exactly the maximum and one more are all there. More invocations or
documents change nothing for the safety properties, by the proofs.

`acquire`: `StagedIsComplete` (what is at the destination), `RefusalIsJustified` (what a failure means),
`WithinLimits`, `StagedOnce`, `StagedIsVerified`, `CallsCleanUp`, and `CallsEnd`. Two callers make every race for the two paths; each
archive of the older release fails exactly one check (the clash of two members in either order), and one passes all; three calls are a download, a staging and one
that comes between; the second release's policy spells its digest in upper case.

`launch`: `LaunchAfterExit` (who is taken for gone), `MarkerIsNotMissed`, `AnswersAreTrue`, and the liveness of the wait:
`ReadyIsNoticed`, `DeadlineEndsWait`. Four lines through a pipe of two fill it, block the application, and put the marker and the
line that does not decode first, last, before and behind one another, in one read or in two.

`versions`: `NeverDowngrades`, `OfferedIsSupported`, `DecisionGoesByValue`. The texts differ in each place, two are
spellings of one version, one has too many parts, and one is of the form 0.x, which `parse_version` refuses; policies are unsound,
stale, or have a minimum above their latest version.

Deadlock is not checked: the operator may stop asking for updates, and the models
stop when their transactions, attempts or invocations are used up.

Names of the bounds: `MaxTx`, `MaxAttempts`, `MaxCrashes`, `MaxFaults` cap counters in
guards, and `MaxCalls` the calls of `Acquire`; `MaxRevision`, `MaxTime`, `MaxLines` and `Capacity` bound the data. `Size`,
`MaxFiles` and `MaxExpanded` are parameters of the code.

### Fairness

- `UpdateTransaction`: weak fairness of `Progress`, since a running call keeps running:
  `rmtree`, `copytree` and the artifact check end, and the probe loop has a
  deadline. Weak fairness of `Recover` stands for the operator of
  `src/docs/operations/COOKBOOK.md` who recovers interrupted transactions; `CallReturns`
  does not depend on it. No fairness of `Begin`, `Crash` or `RaiseError`, nor of
  a success: `ProbeSucceeds` and `ProbeDeadline` share one `Progress`.
- `HelperReplace`: weak fairness of `Progress`. Every wait has a deadline
  (`WaitTimeout`, `StartupDeadline`). Nothing is assumed of the applications.
- `PrivilegedUpdate`: weak fairness of each invocation that runs. The user's answer to the request for
  elevation, the wall clock, the provisioning of `trust.json` and the deaths are free.
- `Acquire`: weak fairness of each call. A read of the stream has a timeout and at most `artifact_size` bytes are
  read, archives are finite.
- `Launch`: weak fairness of the two threads of the helper, each for itself. None of the clock: deadlines may be as
  far away as they like, and `ReadyIsNoticed` must hold all the same. None of the applications. The thread is `Reader`: it reads
  what is there or dies of it, and which of the two is the output's business.
- `Versions` states no liveness.

## 4. Proofs

`UpdateTransactionProofs` (any number of transactions, crashes and exceptions, any set of
failures): `TypeCorrectness`, `CommitIsSound`, `BackupIsKept`, `RollbackIsSound`,
`RecordIsSound`, `RecoveryIsSound`, `TerminalRecordsStay`, `Refinement`, `PromisesStand`, `CallsAreShort`. The properties are about records, and what
makes a record true is where the program was when it wrote it, so none of
them is inductive. `Inv` adds that: `RecordsAgree` (a terminal record
means that nothing is left to do, but for the second FAILED of a rollback without a
backup), `StepsFollowTrail` (the states recorded so far for each step),
`BackupHeld` (the backup is complete before STAGED is recorded, and only plans with safe roots get there),
`CandidateChecked` and `FailureHandled` (what COMMITTED, ROLLED_BACK and FAILED promise
holds at the step that records them). `NextInv` has one case per action and one step per
conjunct. The only assumption is `ConstantsAssumption`.
`Refinement` is the step simulation: `HiddenStep` is for the many that leave `Phase`, `base` and what is promised alone,
`BeginStep`, `RecordStep` and `NoBackupStep` for those the abstract update takes part in. It needs `Inv` for the records: that a `ROLLED_BACK`
which counts is written when `install = base`, and that no step touches a tree while a promise stands.
`PromisesStand` is what its reader gains: an update that is committed or kept can only be followed by the next one, so the
installation does not change before that.

`PrivilegedUpdateProofs` (any sets of invocations and documents): `TypeCorrectness`,
`RequestIsSingleUse`, `OnlyVerifiedIdsAreConsumed`, `ReplacementHasAuthority`. `Inv` says of each
invocation which checks lie behind its program counter, that accepted requests are
consumed, and that a consumed id still has its witness. `OthersStayVerified`
and `OwnStepVerifies` are the two halves of the usual argument: no
invocation disturbs what another has verified, and each check is what the next step needs. `InvocationsAreShort` is
described below.

`HelperReplaceProofs` (any number of helper runs, crashes and errors): `TypeCorrectness`,
`NothingIsLost`, `ReturnIsSound`, `FailureRecordIsSound`, `NobodyIsReplacedAlive`, `CandidateIsStopped`,
`Refinement` and `PromisesStand` (as above), `RunsAreShort`. `NobodyIsReplacedAlive` has one exemption, the process that could not
be examined, and none for errors. `Inv` adds where the trees
are at each step (`BackupFirst`, `CandidateInPlace`, `BaseRestored`), that a run has neither
outcome nor record before it ends (`UndecidedWhileRunning`), and that the process waited for is older
than the run (`TargetIsOlder`), so that nothing the run launches is taken for it.

`ArchiveProofs` (archives of any length) is about the loop over the members alone: `LoopIsExact` says that its checks, made one by
one while what has passed is written, accept exactly the archives that are `Acceptable` as a whole: what its docstring does not reject and a directory can hold.
That needs `ClashIsSymmetric`, since the loop looks only at earlier members. `Count` is the cardinality and `Expanded` the sum of a
set, and that both grow with the set is an induction over finite sets. The library's induction theorems take an operator,
which the provers cannot instantiate; `SubsetInduction` takes the set of the counterexamples instead, and shows it empty from the
well-foundedness of the subset ordering.

`AcquireProofs` (any callers, releases, archives and limits): `TypeCorrectness`, `StagingIsSound`, `StagedTreesStay`, `LimitsAreKept`,
`RefusalsAreJustified`, `StagesWhatItVerified`, `CallsLeaveNothing`, `CallsRunOut`. `Inv`
says that between verification and opening the artifact path holds a genuine artifact, if perhaps another one (`ArtifactHeld`:
all a download ever renames there is genuine), and of each temporary tree that it was read from a genuine artifact and that the
members written so far have passed (`TempHeld`). `Prefix` is what the checks of the loop add up to, and `PrefixGrows` the step
by one member; at the rename it is `Acceptable`, and the limits are a part of it at every step. `RefusalIsJustified` needs three invariants more (`CallsKnow`):
a temporary file holds what its stream has delivered so far (`DownloadHeld`), an artifact that no download has replaced since
its verification is the caller's own release, and so is the tree expanded from it (`IntactHeld`), and a call that has not named its temporary path has nothing
there (`Fresh`). It names each reason of a refusal; an upper-case digest is one, and calls that end before
the handler (`StagingError` for the destination at line 50, a download on Windows) are not its subject. A refusal by the loop then is one of an archive that is not `Acceptable`, by `AcceptableIsAdmissible`, one half of `LoopIsExact`.

`LaunchProofs` (a pipe of any capacity, any number of lines): `TypeCorrectness`, `LaunchIsLate`, `AnswersAreSound`,
`MarkerIsSeen`, `DeadlinesAreFinal`. `LaunchIsLate` is exact about names: `Looking` is where the five kinds come apart. `Inv` adds that a handle
taken after the id had changed hands is not one of the application (`WaitedFor`), that the helper settles on a
marker it has got (`Started`), and that no line got while it looks is the marker (`MarkerAhead`).

`VersionsProofs` (any texts whose numbers have a bound, any policies): `OffersAreSupported`, `UpdatesGoUp`, `DecisionsGoByValue`. `Answered` keeps, from the verification to the installation, that the
policy's latest version is not below its minimum and that the decision is the one for the version installed;
`LessThroughMinimum` is the transitivity that takes an installation below the minimum to the latest version. `Value` weighs
the parts of a version with powers of `Base`, which the assumption `BaseAssumption` puts above every number in a text; that `Less` orders
the tuples of `Parse` as their values are is `WeightOrder`, by `PairOrder` three times: a number before another one below `Base` decides first.

**Termination.** Liveness is checked by TLC; the part of it that needs neither fairness nor `ENABLED` is proved. `CallsAreShort`, `RunsAreShort`,
`InvocationsAreShort`, `CallsRunOut` and `DeadlinesAreFinal` each give what is left of a call as a natural number (`Left`, `Looks`), or as a rank and a
number (`Rank`, `Remaining`: the bytes and members still to come), and show that every step of the call takes from it, also one that raises
or dies, and that nothing another caller, an application or the clock does adds to it. So a call can fail to end only by standing
still, and that it does not is `CallReturns`, `HelperEnds`, `InvocationEnds`, `CallsEnd` and `DeadlineEndsWait`.

`InstallTreeProofs` holds the lemmas about trees that the two replacements use.

Every invariant and action property of the passing runs and both refinements are proved. Only model-checked are the seven liveness properties:
the prover has neither `ENABLED` nor reasoning under fairness. `InterruptedReplacementSettles` and `ReadyIsNoticed` have no measure
either: the first needs the operator to come, the other is about two threads that wait for each other's output. No
module declares a RECURSIVE operator.

## 5. Not modelled, and limits

Reasons for the parts left out are in the table of section 1. Within the modelled
parts: writes the operating system loses on a power failure; the text of documents and paths (a backup root that overlaps the install root stands
for all overlaps, an executable that escapes for all escapes, `safe` for the name rules of `_safe_member`); partial trees with
different files missing; two transactions, or two helpers past `Replace`, at the
same time, of which neither code nor documents say what they should leave; the
tree a privileged invocation stages, which no check ties to the verified artifact; argument parsing and the quoting of the elevated command;
version parts with so many digits that `int` refuses them.
In `PrivilegedUpdate`, `Replace` is the call of `replace_and_launch`, which `HelperReplace` and `Launch` model.
An elevated command never names a transaction (`windows_elevation.py:70-89` has no `--transaction-id`), so that on this
route `_terminal` records nothing: `HelperReplace` has such plans (`recorded`).

## 6. Where the code and its documents disagree

Each is a run that TLC refutes, with the counterexample as the explanation.

1. `tx_stale_backup` - the handler of `replace_transaction` rolls back also when this transaction has
   made no backup: an artifact that fails its check puts the backup of an earlier
   update over a good installation, and records ROLLED_BACK.
   So does an error during `copytree(root, backup)`: it leaves part of a backup, which the
   handler restores over the intact installation (`RolledBackRestoresPrevious` refutes either).
2. `tx_refused_roots` - a backup path refused as unsafe is the one the rollback uses.
3. `tx_rollback_crash` - a crash in ROLLING_BACK: `recover()` raises "unknown transaction state" from then on.
4. `tx_superseded` - `recover()` of a transaction left in REPLACING, after a later one has made its backup of the partial tree
   and committed: the partial tree replaces the committed installation, and ROLLED_BACK is recorded.
5. `helper_leaked_candidate` - a candidate that does not become ready is not stopped.
6. `helper_crash_retry` - a helper run after a crash overwrites the good backup with the partial tree.

`StagedRollbackRestoresBase`, `InterruptedReplacementSettles`, `VerifiedCandidateIsStopped` and `BaseSurvives` are
the weaker statements in the same places that the code does keep; all are checked, and all but the second, a
liveness property, are proved.

Three defects of the code are in the models without a run of their own, since no document says the contrary; the property next to
each exempts exactly the defect, and says so:

- `helper/main.py:73` splits `/proc/<pid>/stat` at blanks. A running application whose command name has `Z` for its second word
  is taken for a zombie, and its tree is replaced under it (`LaunchAfterExit`); with other blanks a zombie is waited
  for until the deadline; a name that does not decode raises `UnicodeDecodeError` out of the helper.
- `helper/main.py:82,95`: output that does not decode ends the reading thread, and a marker after it is never noticed
  (`ReadyIsNoticed`).
- `downloader.py:7`: on Windows the file of `mkstemp` is still open when it is unlinked, so that every download raises
  and leaves an empty file (`CallsCleanUp`).

## 7. Plan

Done: `InstallTree`, `AtomicUpdate`, `UpdateTransaction`, `SupersededRecovery`, `HelperReplace`, `Launch`,
`PrivilegedUpdate`, `Acquire`, `Versions`, and the proofs listed in section 4. Next:

1. **`PrivilegedReplace`** - `PrivilegedUpdate` composed with the trees of several helpers: the staged tree between
   check and use, and what two authorised helpers leave of one installation.
2. **`SupersededRecovery` proved about**: which invariants of `UpdateTransaction` survive a caller that takes up earlier
   transactions again, beside the one that `tx_superseded` refutes.
