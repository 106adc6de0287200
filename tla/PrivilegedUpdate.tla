-------------------------- MODULE PrivilegedUpdate --------------------------
(***************************************************************************)
(* execute_privileged_update (privileged_entrypoint.py), the command line  *)
(* that calls it (privileged_cli.py) and the request for elevation that    *)
(* starts that (windows_elevation.py): the elevated helper validates its   *)
(* arguments once more, loads its trust configuration (trusted_runtime.py), *)
(* reads the documents, verifies and consumes the Agent's request          *)
(* (privileged.py), verifies the update policy (verifier.py) and the       *)
(* target policy (target_policy.py), composes the three (authority.py,     *)
(* helper/composition.py) and calls replace_and_launch, which HelperReplace *)
(* models.                                                                 *)
(*                                                                         *)
(* Every invocation is a process of its own.  They share the replay        *)
(* directory and trust.json, and nothing orders them.  An invocation may   *)
(* die between any two steps.                                              *)
(*                                                                         *)
(* A release stands for versions, hash and size, a machine for platform    *)
(* and architecture, a place for install root and entry point.  A SHA-256  *)
(* of a document stands for the document itself.                           *)
(***************************************************************************)
EXTENDS Integers

CONSTANTS
  Helpers,         \* the invocations
  Requests,        \* request documents presented to them
  UpdatePolicies,  \* update policy documents
  TargetPolicies,  \* target policy documents
  Presented,       \* the triples of documents an invocation may be given
  ApprovedPlaces,  \* places under approved_install_roots
  Channel,         \* expected_channel
  Windows,         \* machines whose platform is windows
  Releases,        \* what the artifact may be
  Provisioned,     \* revisions the runtime may come to record in trust.json
  MaxRevision,     \* largest revision of a policy
  MaxTime,         \* the clock shows 0 .. MaxTime
  MaxLifetime,     \* maximum_lifetime_seconds
  MaxSkew          \* maximum_future_skew_seconds

ASSUME ConstantsAssumption ==
  /\ MaxRevision \in Nat /\ MaxTime \in Nat /\ MaxLifetime \in Nat /\ MaxSkew \in Nat
  /\ \A r \in Requests : r.issued \in Int /\ r.expires \in Int
  /\ \A p \in UpdatePolicies : p.revision \in 0 .. MaxRevision
  /\ \A p \in TargetPolicies : p.revision \in 1 .. MaxRevision
  /\ Provisioned \subseteq [update : 0 .. MaxRevision, target : 0 .. MaxRevision]
  /\ Presented \subseteq [request : Requests, update : UpdatePolicies,
                          target : TargetPolicies, inside : BOOLEAN, safe : BOOLEAN]

VARIABLES
  trust,      \* the revisions last accepted, in trust.json
  consumed,   \* request ids that have a file in the replay directory
  pc,         \* next step of each invocation
  input,      \* the documents each one was given
  floors,     \* the revisions each one has loaded from trust.json
  checkedAt,  \* history: the clock when each one looked at it
  accepted    \* history: the invocations whose request was consumed for them

vars == <<trust, consumed, pc, input, floors, checkedAt, accepted>>

(* elevate to read come before the request is looked at. *)
Starting == {"elevate", "invoke", "start", "read"}
Ended    == {"done", "refused", "dead"}
Steps    == Starting \cup {"request", "consume", "update", "target", "compose", "plan",
                           "replace"} \cup Ended

NoFloor == -1
Floors  == NoFloor .. MaxRevision
Trust   == [update : Floors, target : Floors]

-----------------------------------------------------------------------------
Init ==
  /\ trust = [update |-> NoFloor, target |-> NoFloor]
  /\ consumed = {}
  /\ pc \in [Helpers -> {"elevate", "invoke"}]
  /\ input \in [Helpers -> Presented]
  /\ floors = [h \in Helpers |-> trust]
  /\ checkedAt = [h \in Helpers |-> 0]
  /\ accepted = {}

(* Environment: the runtime records newer revisions in trust.json. *)
Provision ==
  /\ trust' \in Provisioned
  /\ trust.update <= trust'.update /\ trust.target <= trust'.target
  /\ UNCHANGED <<consumed, pc, input, floors, checkedAt, accepted>>

(* A step goes on when its check passes, and raises otherwise. *)
Proceed(h, check, step) == pc' = [pc EXCEPT ![h] = IF check THEN step ELSE "refused"]

(* build_elevated_command finds the files inside the runtime root and an   *)
(* id it may wait for, and ShellExecuteW asks the user, who may refuse.    *)
RequestElevation(h) ==
  /\ pc[h] = "elevate"
  /\ \E granted \in BOOLEAN : Proceed(h, granted /\ input[h].inside, "invoke")
  /\ UNCHANGED <<trust, input, consumed, floors, checkedAt, accepted>>

(* main validates the files again, whoever has started it. *)
Invoke(h) ==
  /\ pc[h] = "invoke"
  /\ Proceed(h, input[h].inside, "start")
  /\ UNCHANGED <<trust, input, consumed, floors, checkedAt, accepted>>

(* load_privileged_execution_config reads trust.json, once, if the runtime *)
(* root is private and the configuration complete.                         *)
LoadTrust(h) ==
  /\ pc[h] = "start"
  /\ floors' = [floors EXCEPT ![h] = trust]
  /\ \E complete \in BOOLEAN : Proceed(h, complete, "read")
  /\ UNCHANGED <<trust, input, consumed, checkedAt, accepted>>

(* read_json_document, three times; what it reads is the input. *)
ReadDocuments(h) ==
  /\ pc[h] = "read"
  /\ \E wellFormed \in BOOLEAN : Proceed(h, wellFormed, "request")
  /\ UNCHANGED <<trust, input, consumed, floors, checkedAt, accepted>>

(* The request lives neither too long nor in the future, has not expired,  *)
(* and carries the signature of a trusted Agent key.  The wall clock may   *)
(* show any time: nothing keeps it from being set back.                    *)
Timely(r, time) ==
  /\ r.expires - r.issued \in 1 .. MaxLifetime
  /\ r.issued - time <= MaxSkew
  /\ time < r.expires

\* Mutant: the request id is used up before the request is verified.
ConsumeFirst(h) ==
  /\ pc[h] = "request"
  /\ consumed' = consumed \cup {input[h].request.id}
  /\ \E now \in 0 .. MaxTime :
       /\ checkedAt' = [checkedAt EXCEPT ![h] = now]
       /\ Proceed(h, Timely(input[h].request, now) /\ input[h].request.signed, "update")
  /\ UNCHANGED <<trust, input, floors, accepted>>

VerifyRequest(h) ==
  /\ pc[h] = "request"
  /\ \E now \in 0 .. MaxTime :
       /\ checkedAt' = [checkedAt EXCEPT ![h] = now]
       /\ Proceed(h, Timely(input[h].request, now) /\ input[h].request.signed, "consume")
  /\ UNCHANGED <<trust, input, consumed, floors, accepted>>

(* Mutants: the guard is handed another field of the request than its id;  *)
(* without O_EXCL the file is written again; a used id is waited for.      *)
ConsumeProduct(h) ==
  /\ pc[h] = "consume"
  /\ Proceed(h, input[h].request.product \notin consumed, "update")
  /\ accepted' = IF input[h].request.product \in consumed THEN accepted ELSE accepted \cup {h}
  /\ consumed' = consumed \cup {input[h].request.product}
  /\ UNCHANGED <<trust, input, floors, checkedAt>>

ConsumeAgain(h) ==
  /\ pc[h] = "consume"
  /\ Proceed(h, TRUE, "update")
  /\ accepted' = accepted \cup {h}
  /\ consumed' = consumed \cup {input[h].request.id}
  /\ UNCHANGED <<trust, input, floors, checkedAt>>

ConsumeWhenFree(h) ==
  /\ pc[h] = "consume"
  /\ input[h].request.id \notin consumed
  /\ Proceed(h, TRUE, "update")
  /\ accepted' = accepted \cup {h}
  /\ consumed' = consumed \cup {input[h].request.id}
  /\ UNCHANGED <<trust, input, floors, checkedAt>>

(* FileReplayGuard.consume: O_EXCL lets one creation of the file succeed. *)
Consume(h) ==
  /\ pc[h] = "consume"
  /\ Proceed(h, input[h].request.id \notin consumed, "update")
  /\ accepted' = IF input[h].request.id \in consumed THEN accepted ELSE accepted \cup {h}
  /\ consumed' = consumed \cup {input[h].request.id}
  /\ UNCHANGED <<trust, input, floors, checkedAt>>

(* PolicyVerifier.verify against the request and the configuration. *)
UpdatePolicyValid(h) ==
  LET p == input[h].update  r == input[h].request
  IN  /\ p.product = r.product /\ p.machine = r.machine /\ p.channel = Channel
      /\ p.revision > floors[h].update
      /\ p.signed

\* Mutant: the revision is not compared with the one on record.
VerifyAnyRevision(h) ==
  /\ pc[h] = "update"
  /\ Proceed(h, input[h].update.signed /\ input[h].update.channel = Channel, "target")
  /\ UNCHANGED <<trust, input, consumed, floors, checkedAt, accepted>>

VerifyUpdatePolicy(h) ==
  /\ pc[h] = "update"
  /\ Proceed(h, UpdatePolicyValid(h), "target")
  /\ UNCHANGED <<trust, input, consumed, floors, checkedAt, accepted>>

(* TargetInstallPolicyVerifier.verify. *)
TargetPolicyValid(h) ==
  LET p == input[h].target
  IN  /\ p.revision > floors[h].target
      /\ p.machine \in Windows /\ p.place \in ApprovedPlaces
      /\ p.signed

VerifyTargetPolicy(h) ==
  /\ pc[h] = "target"
  /\ Proceed(h, TargetPolicyValid(h), "compose")
  /\ UNCHANGED <<trust, input, consumed, floors, checkedAt, accepted>>

(* compose_authority: the three documents agree, ... *)
Agree(i) ==
  /\ i.request.product = i.update.product /\ i.request.product = i.target.product
  /\ i.request.release = i.update.release
  /\ i.request.machine = i.update.machine /\ i.request.machine = i.target.machine
  /\ i.request.place = i.target.place
  /\ i.request.update = i.update
  /\ i.request.target = i.target

(* ... and the artifact found has the hash and the size they state. *)
ComposeAuthority(h) ==
  /\ pc[h] = "compose"
  /\ \E artifact \in Releases :
       Proceed(h, Agree(input[h]) /\ artifact = input[h].request.release, "plan")
  /\ UNCHANGED <<trust, input, consumed, floors, checkedAt, accepted>>

(* compose_helper_plan: the roots are apart and the entry point is staged. *)
ComposePlan(h) ==
  /\ pc[h] = "plan"
  /\ Proceed(h, input[h].safe, "replace")
  /\ UNCHANGED <<trust, input, consumed, floors, checkedAt, accepted>>

\* replace_and_launch is called.
Replace(h) ==
  /\ pc[h] = "replace"
  /\ Proceed(h, TRUE, "done")
  /\ UNCHANGED <<trust, input, consumed, floors, checkedAt, accepted>>

Die(h) ==
  /\ pc[h] \notin Ended
  /\ pc' = [pc EXCEPT ![h] = "dead"]
  /\ UNCHANGED <<trust, input, consumed, floors, checkedAt, accepted>>

Progress(h) ==
  \/ Invoke(h) \/ LoadTrust(h) \/ ReadDocuments(h) \/ VerifyRequest(h) \/ Consume(h) \/ VerifyUpdatePolicy(h)
  \/ VerifyTargetPolicy(h) \/ ComposeAuthority(h) \/ ComposePlan(h) \/ Replace(h)

Next ==
  \/ Provision
  \/ \E h \in Helpers : RequestElevation(h) \/ Progress(h) \/ Die(h)

Spec == Init /\ [][Next]_vars

(* A helper process runs until it returns, raises or dies; the user takes  *)
(* any time to answer.                                                     *)
FairSpec == Spec /\ \A h \in Helpers : WF_vars(Progress(h))

-----------------------------------------------------------------------------
(* Every variable keeps its type; what the replay directory holds are ids  *)
(* of requests.                                                            *)
TypeOK ==
  /\ trust \in Trust
  /\ consumed \subseteq {r.id : r \in Requests}
  /\ pc \in [Helpers -> Steps]
  /\ input \in [Helpers -> Presented]
  /\ floors \in [Helpers -> Trust]
  /\ checkedAt \in [Helpers -> 0 .. MaxTime]
  /\ accepted \subseteq Helpers

(* A request serves one invocation, also when that one is refused later or *)
(* dies, and whatever the clock does (FileReplayGuard).                    *)
RequestServesOnce ==
  \A g, h \in accepted : input[g].request.id = input[h].request.id => g = h

(* A request id is used up only by a document that some invocation found   *)
(* signed, with a lifetime between a second and the longest, not before    *)
(* its time by more than the skew and before the second it expires: one    *)
(* that fails verification leaves the id usable.                           *)
ConsumedWasVerified ==
  \A id \in consumed : \E h \in Helpers :
    LET r == input[h].request
    IN  /\ r.id = id /\ r.signed
        /\ r.expires \in r.issued + 1 .. r.issued + MaxLifetime
        /\ checkedAt[h] \in r.issued - MaxSkew .. r.expires - 1

(* Whoever replaces the installation has a request of its own, policies    *)
(* newer than the revisions on record when it was started, and three       *)
(* documents that agree in everything they share, read from the helper's   *)
(* own runtime root also when nobody has requested the elevation.          *)
ReplacementIsAuthorized ==
  \A h \in Helpers : pc[h] \in {"replace", "done"} =>
    /\ h \in accepted
    /\ UpdatePolicyValid(h) /\ TargetPolicyValid(h)
    /\ Agree(input[h]) /\ input[h].inside /\ input[h].safe

(* Every invocation that runs returns, raises or dies; none waits for      *)
(* another.                                                                *)
InvocationEnds == \A h \in Helpers : pc[h] # "elevate" ~> pc[h] \in Ended
=============================================================================
