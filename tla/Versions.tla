------------------------------- MODULE Versions -------------------------------
(***************************************************************************)
(* What a version means (versioning.py), which update policies are taken   *)
(* (verifier.py) and what is to be done about one (policy.py), followed    *)
(* through a sequence of updates: a caller verifies a policy, decides with *)
(* the version it has, installs the latest one if told so, and passes the  *)
(* revision of the last policy it took to the next verification.           *)
(*                                                                         *)
(* A version is a text: a sequence of parts between dots, each of them the *)
(* zeros it is written with in front and the number that follows (<<1, 0>> *)
(* is 00, <<1, 5>> is 05).                                                 *)
(***************************************************************************)
EXTENDS Integers, Sequences

CONSTANTS
  Texts,     \* version texts
  Policies,  \* update policy documents
  Base       \* more than any number in a text, to weigh the parts with

ASSUME ConstantsAssumption ==
  /\ Texts \subseteq Seq(Nat \X Nat)
  /\ \A p \in Policies :
       /\ p.latest \in Texts /\ p.minimum \in Texts /\ p.current \in Texts
       /\ p.revision \in Int /\ p.sound \in BOOLEAN

ASSUME BaseAssumption ==
  Base \in Nat \ {0} /\ \A t \in Texts : \A i \in DOMAIN t : t[i][2] < Base

VARIABLES
  installed,  \* the version of the installation, as its manifest has it
  floor,      \* revision of the last policy taken, or NoFloor
  policy,     \* the policy that was verified last, any before the first
  pc,         \* what the caller does next
  decision    \* what decide_update answered last

vars == <<installed, floor, policy, pc, decision>>

Decisions == {"UP_TO_DATE", "UPDATE_AVAILABLE", "UPDATE_REQUIRED", "UNSUPPORTED"}
NoFloor   == -1

-----------------------------------------------------------------------------
Zeros(part)  == part[1]
Number(part) == part[2]

(* The pattern is 0, or a number without a zero in front and up to three   *)
(* parts more, in which zeros are welcome: its alternation is not grouped. *)
WellFormed(text) ==
  \/ text = <<<<0, 0>>>>
  \/ /\ Len(text) \in 1 .. 4
     /\ Zeros(text[1]) = 0 /\ Number(text[1]) > 0

\* Mutant: the parts that are missing are not filled up.
ParseUnpadded(text) == [i \in 1 .. 4 |-> IF i \in 1 .. Len(text) THEN Number(text[i]) ELSE -1]

(* parse_version: four numbers, zeros for the parts that are missing. *)
Parse(text) == [i \in 1 .. 4 |-> IF i \in 1 .. Len(text) THEN Number(text[i]) ELSE 0]

(* Tuples compare by the first place in which they differ. *)
Less(v, w) == \E i \in 1 .. 4 : v[i] < w[i] /\ \A j \in 1 .. 4 : j < i => v[j] = w[j]

\* Mutant: the minimum is not compared with the latest version.
TakenWhateverItsMinimum(p) ==
  /\ p.sound
  /\ WellFormed(p.current) /\ WellFormed(p.latest) /\ WellFormed(p.minimum)
  /\ p.revision >= 0 /\ p.revision > floor

(* PolicyVerifier.verify: sound stands for schema, identity, hash, size    *)
(* and signature.                                                          *)
Valid(p) ==
  /\ p.sound
  /\ WellFormed(p.current) /\ WellFormed(p.latest) /\ WellFormed(p.minimum)
  /\ ~Less(Parse(p.latest), Parse(p.minimum))
  /\ p.revision >= 0 /\ p.revision > floor

\* Mutant: the minimum is looked at after the latest version.
DecideLatestFirst(current, latest, minimum) ==
  IF ~(WellFormed(current) /\ WellFormed(latest) /\ WellFormed(minimum)) THEN "UNSUPPORTED"
  ELSE IF Less(Parse(current), Parse(latest)) THEN "UPDATE_AVAILABLE"
  ELSE IF Less(Parse(current), Parse(minimum)) THEN "UPDATE_REQUIRED"
  ELSE IF Parse(current) = Parse(latest) THEN "UP_TO_DATE"
  ELSE "UNSUPPORTED"

(* decide_update. *)
Decide(current, latest, minimum) ==
  IF ~(WellFormed(current) /\ WellFormed(latest) /\ WellFormed(minimum)) THEN "UNSUPPORTED"
  ELSE IF Less(Parse(current), Parse(minimum)) THEN "UPDATE_REQUIRED"
  ELSE IF Parse(current) = Parse(latest) THEN "UP_TO_DATE"
  ELSE IF Less(Parse(current), Parse(latest)) THEN "UPDATE_AVAILABLE"
  ELSE "UNSUPPORTED"

-----------------------------------------------------------------------------
Init ==
  /\ installed \in Texts
  /\ floor = NoFloor
  /\ policy \in Policies
  /\ pc = "verify"
  /\ decision = "UNSUPPORTED"

(* A policy that is refused leaves no trace. *)
Verify ==
  /\ pc = "verify"
  /\ \E p \in Policies :
       /\ Valid(p)
       /\ policy' = p /\ floor' = p.revision
  /\ pc' = "decide"
  /\ UNCHANGED <<installed, decision>>

DecideUpdate ==
  /\ pc = "decide"
  /\ decision' = Decide(installed, policy.latest, policy.minimum)
  /\ pc' = "follow"
  /\ UNCHANGED <<installed, floor, policy>>

(* The caller installs the latest version when told that there is one, or  *)
(* fails to.                                                               *)
Follow ==
  /\ pc = "follow"
  /\ installed' \in IF decision \in {"UPDATE_AVAILABLE", "UPDATE_REQUIRED"}
                      THEN {policy.latest, installed} ELSE {installed}
  /\ pc' = "verify"
  /\ UNCHANGED <<floor, policy, decision>>

Next == Verify \/ DecideUpdate \/ Follow

Spec == Init /\ [][Next]_vars

-----------------------------------------------------------------------------
(* Every variable keeps its type. *)
TypeOK ==
  /\ installed \in Texts
  /\ policy \in Policies
  /\ floor \in {NoFloor} \cup {p.revision : p \in Policies}
  /\ pc \in {"verify", "decide", "follow"}
  /\ decision \in Decisions

(* An update goes up: whatever policies are signed, one that is taken and  *)
(* followed never leads from a version to a lower or an equal one, also    *)
(* when the minimum it states asks for an update (verifier.py, policy.py). *)
NeverDowngrades ==
  [][installed' # installed => Less(Parse(installed), Parse(installed'))]_vars

(* A caller told UPDATE_AVAILABLE or UP_TO_DATE runs a version the policy  *)
(* supports, and one told UPDATE_REQUIRED does not but gets one.           *)
OfferedIsSupported ==
  pc = "follow" =>
    /\ decision \in {"UPDATE_AVAILABLE", "UP_TO_DATE"} =>
         ~Less(Parse(installed), Parse(policy.minimum))
    /\ decision = "UPDATE_REQUIRED" =>
         /\ Less(Parse(installed), Parse(policy.minimum))
         /\ ~Less(Parse(policy.latest), Parse(policy.minimum))

(* What a version is meant to be: its numbers, the first one weighing      *)
(* most, in whatever way they are written.                                 *)
Value(text) ==
  LET n(i) == IF i <= Len(text) THEN text[i][2] ELSE 0
  IN  ((n(1) * Base + n(2)) * Base + n(3)) * Base + n(4)

(* An answer other than UNSUPPORTED is the one the values give, and        *)
(* UNSUPPORTED is said of a version only that is ahead of the policy or    *)
(* cannot be read: 1.2 is 1.02.0, and below 1.10 (versioning.py).          *)
DecisionGoesByValue ==
  pc = "follow" =>
    LET current == Value(installed)  latest == Value(policy.latest)
        minimum == Value(policy.minimum)
    IN  decision = IF ~WellFormed(installed) \/ current > latest THEN "UNSUPPORTED"
                   ELSE IF current < minimum THEN "UPDATE_REQUIRED"
                   ELSE IF current < latest THEN "UPDATE_AVAILABLE"
                   ELSE "UP_TO_DATE"
=============================================================================
