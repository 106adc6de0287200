-------------------------- MODULE SupersededRecovery --------------------------
(***************************************************************************)
(* UpdateTransaction with a caller that keeps more than its latest         *)
(* transaction: recover() is a method of any UpdateTransaction whose id    *)
(* and plan are still at hand, and the state directory holds the records   *)
(* of all of them.  One call runs at a time; installation and backup path  *)
(* are shared.                                                             *)
(***************************************************************************)
EXTENDS UpdateTransaction

VARIABLES
  begun,  \* number of transactions begun, of which tx is the one at hand
  other   \* other[t]: what goes with transaction t while it is not at hand

AtHand == [plan |-> plan, artifact |-> artifact, base |-> base, trail |-> trail]

SRInit ==
  /\ Init
  /\ begun = 0
  /\ other = [t \in 1 .. MaxTx |-> AtHand]

PutAside == other' = [t \in 1 .. MaxTx |-> IF t = tx THEN AtHand ELSE other[t]]

BeginLatest ==
  /\ Begin
  /\ tx = begun /\ begun' = begun + 1
  /\ PutAside

(* The caller takes up the transaction t. *)
Select(t) ==
  /\ pc = "idle" /\ t # tx
  /\ PutAside
  /\ tx' = t
  /\ plan' = other[t].plan /\ artifact' = other[t].artifact
  /\ base' = other[t].base /\ trail' = other[t].trail
  /\ UNCHANGED <<install, backup, record, pc, caller, crashes, faults, begun>>

SRNext ==
  \/ BeginLatest
  \/ \E t \in 1 .. begun : Select(t)
  \/ (Progress \/ Recover \/ RaiseError \/ Crash) /\ UNCHANGED <<begun, other>>

SRSpec == SRInit /\ [][SRNext]_<<vars, begun, other>>

-----------------------------------------------------------------------------
(* ROLLED_BACK says that the transaction's own backup has been restored    *)
(* (COOKBOOK.md; test_interrupted_replacement_rolls_back).  recover() of a *)
(* transaction that a crash has left in REPLACING restores what the backup *)
(* path holds by then: the backup of a later transaction, made of the      *)
(* partial tree the crash had left, over the candidate that one committed. *)
RecoveryRestoresItsBackup ==
  /\ caller = "recover" /\ Latest = "ROLLED_BACK"
  /\ "STAGED" \in trail /\ base # Absent
  => install = base
=============================================================================
