----------------------- MODULE PrivilegedUpdateProofs -----------------------
(***************************************************************************)
(* Proofs about PrivilegedUpdate, for any set of concurrent invocations,   *)
(* any documents presented to them and any clock.                          *)
(***************************************************************************)
EXTENDS PrivilegedUpdate, TLAPS

AfterRequest == {"consume", "update", "target", "compose", "plan", "replace", "done"}
AfterInvoke  == AfterRequest \cup {"start", "read", "request"}
AfterConsume == AfterRequest \ {"consume"}
AfterUpdate  == AfterConsume \ {"update"}
AfterTarget  == AfterUpdate \ {"target"}
AfterCompose == AfterTarget \ {"compose"}
AfterPlan    == AfterCompose \ {"plan"}

(* What an invocation has verified at each of its steps. *)
Verified(h) ==
  /\ pc[h] \in AfterInvoke => input[h].inside
  /\ pc[h] = "consume" =>
       input[h].request.signed /\ Timely(input[h].request, checkedAt[h])
  /\ pc[h] \in AfterConsume => h \in accepted
  /\ pc[h] \in AfterUpdate => UpdatePolicyValid(h)
  /\ pc[h] \in AfterTarget => TargetPolicyValid(h)
  /\ pc[h] \in AfterCompose => Agree(input[h])
  /\ pc[h] \in AfterPlan => input[h].safe

(* A consumed id was verified by an invocation that looks at no clock any  *)
(* more.                                                                   *)
ConsumedStaysVerified ==
  \A id \in consumed : \E h \in Helpers :
    /\ pc[h] \notin Starting \cup {"request"}
    /\ input[h].request.id = id /\ input[h].request.signed
    /\ Timely(input[h].request, checkedAt[h])

Inv ==
  /\ \A h \in Helpers : Verified(h)
  /\ \A h \in accepted : input[h].request.id \in consumed
  /\ RequestServesOnce
  /\ ConsumedStaysVerified

-----------------------------------------------------------------------------
(* A step of an invocation keeps the types. *)
LEMMA NextTypeOK == TypeOK /\ [Next]_vars => TypeOK'
<1> SUFFICES ASSUME TypeOK, [Next]_vars PROVE TypeOK'
  OBVIOUS
<1> USE DEF TypeOK
<1>1. CASE Provision
  BY <1>1, ConstantsAssumption DEF Provision, ConstantsAssumption, Trust, Floors, NoFloor
<1>2. ASSUME NEW h \in Helpers, RequestElevation(h) \/ Progress(h) PROVE TypeOK'
  <2> USE <1>2 DEF Proceed, Steps, Starting, Ended
  <2>0. input[h].request.id \in {r.id : r \in Requests}
    BY ConstantsAssumption DEF ConstantsAssumption
  <2>1. CASE LoadTrust(h)
    BY <2>1 DEF LoadTrust
  <2>2. CASE VerifyRequest(h)
    BY <2>2 DEF VerifyRequest
  <2>3. CASE Consume(h)
    BY <2>0, <2>3 DEF Consume
  <2>4. CASE VerifyUpdatePolicy(h)
    BY <2>4 DEF VerifyUpdatePolicy
  <2>5. CASE VerifyTargetPolicy(h)
    BY <2>5 DEF VerifyTargetPolicy
  <2>6. CASE ComposeAuthority(h)
    BY <2>6 DEF ComposeAuthority
  <2>7. CASE ComposePlan(h)
    BY <2>7 DEF ComposePlan
  <2>8. CASE Replace(h)
    BY <2>8 DEF Replace
  <2>9. CASE RequestElevation(h)
    BY <2>9 DEF RequestElevation
  <2>10. CASE Invoke(h)
    BY <2>10 DEF Invoke
  <2>11. CASE ReadDocuments(h)
    BY <2>11 DEF ReadDocuments
  <2> QED
    BY <2>1, <2>2, <2>3, <2>4, <2>5, <2>6, <2>7, <2>8, <2>9, <2>10, <2>11 DEF Progress
<1>3. ASSUME NEW h \in Helpers, Die(h) PROVE TypeOK'
  BY <1>3 DEF Die, Steps, Ended
<1>4. CASE UNCHANGED vars
  BY <1>4 DEF vars
<1> QED BY <1>1, <1>2, <1>3, <1>4 DEF Next

(* Before any invocation starts nothing is consumed. *)
LEMMA InitTypeOK == Init => TypeOK
<1> SUFFICES ASSUME Init PROVE TypeOK
  OBVIOUS
<1> USE ConstantsAssumption DEF ConstantsAssumption, Init
<1>1. trust \in Trust
  BY DEF Trust, Floors, NoFloor
<1>2. pc \in [Helpers -> Steps]
  BY DEF Steps, Starting
<1>3. floors \in [Helpers -> Trust] /\ checkedAt \in [Helpers -> 0 .. MaxTime]
  BY <1>1
<1> QED BY <1>1, <1>2, <1>3 DEF TypeOK

(* Initially no invocation has got past a check. *)
LEMMA InitInv == Init => Inv
  BY DEF Init, Inv, Verified, Starting, AfterInvoke, AfterRequest, AfterConsume, AfterUpdate, AfterTarget,
         AfterCompose, AfterPlan, RequestServesOnce, ConsumedStaysVerified

(* A step of one invocation leaves what another has verified. *)
LEMMA OthersStayVerified ==
  ASSUME TypeOK, Inv, NEW h \in Helpers, RequestElevation(h) \/ Progress(h) \/ Die(h),
         NEW g \in Helpers, g # h
  PROVE  Verified(g)'
<1>1. /\ pc'[g] = pc[g] /\ floors'[g] = floors[g] /\ checkedAt'[g] = checkedAt[g]
      /\ input' = input /\ accepted \subseteq accepted'
  BY DEF TypeOK, Progress, Die, Proceed, RequestElevation, Invoke, LoadTrust, ReadDocuments, VerifyRequest, Consume,
         VerifyUpdatePolicy, VerifyTargetPolicy, ComposeAuthority, ComposePlan, Replace
<1> QED BY <1>1 DEF Inv, Verified, UpdatePolicyValid, TargetPolicyValid

(* Each check of an invocation is what its next step requires. *)
LEMMA OwnStepVerifies ==
  ASSUME TypeOK, Inv, NEW h \in Helpers, RequestElevation(h) \/ Progress(h) \/ Die(h)
  PROVE  Verified(h)'
<1> USE DEF TypeOK, Inv, Verified, Proceed, AfterInvoke, AfterRequest, AfterConsume, AfterUpdate,
            AfterTarget, AfterCompose, AfterPlan, UpdatePolicyValid, TargetPolicyValid
<1>1. CASE LoadTrust(h)
  BY <1>1 DEF LoadTrust
<1>2. CASE VerifyRequest(h)
  BY <1>2 DEF VerifyRequest
<1>3. CASE Consume(h)
  BY <1>3 DEF Consume
<1>4. CASE VerifyUpdatePolicy(h)
  BY <1>4 DEF VerifyUpdatePolicy
<1>5. CASE VerifyTargetPolicy(h)
  BY <1>5 DEF VerifyTargetPolicy
<1>6. CASE ComposeAuthority(h)
  BY <1>6 DEF ComposeAuthority
<1>7. CASE ComposePlan(h)
  BY <1>7 DEF ComposePlan
<1>8. CASE Replace(h)
  BY <1>8 DEF Replace
<1>9. CASE Die(h)
  BY <1>9 DEF Die
<1>10. CASE RequestElevation(h)
  BY <1>10 DEF RequestElevation
<1>11. CASE Invoke(h)
  BY <1>11 DEF Invoke
<1>12. CASE ReadDocuments(h)
  BY <1>12 DEF ReadDocuments
<1> QED
  BY <1>1, <1>2, <1>3, <1>4, <1>5, <1>6, <1>7, <1>8, <1>9, <1>10, <1>11, <1>12 DEF Progress

(* Consume adds the id of the invocation that was first with it, which has *)
(* verified its request; every other step leaves the replay directory.     *)
LEMMA ReplayDirectoryStep ==
  ASSUME TypeOK, Inv, NEW h \in Helpers, RequestElevation(h) \/ Progress(h) \/ Die(h)
  PROVE  /\ (\A g \in accepted : input[g].request.id \in consumed)'
         /\ RequestServesOnce'
         /\ ConsumedStaysVerified'
<1> USE DEF Inv
<1>1. CASE Consume(h)
  <2> USE <1>1 DEF Consume
  <2>1. (\A g \in accepted : input[g].request.id \in consumed)'
    OBVIOUS
  <2>2. RequestServesOnce'
    BY DEF RequestServesOnce
  <2>3. \A g \in Helpers : g # h => pc'[g] = pc[g]
    BY DEF TypeOK, Proceed
  <2>4. pc'[h] \notin Starting \cup {"request"}
    BY DEF TypeOK, Proceed, Starting
  <2>5. input[h].request.signed /\ Timely(input[h].request, checkedAt[h])
    BY DEF Verified
  <2>6. ConsumedStaysVerified'
    <3> SUFFICES ASSUME NEW id \in consumed'
                 PROVE  \E g \in Helpers :
                          /\ pc'[g] \notin Starting \cup {"request"}
                          /\ input[g].request.id = id /\ input[g].request.signed
                          /\ Timely(input[g].request, checkedAt[g])
      BY DEF ConsumedStaysVerified
    <3>1. CASE id = input[h].request.id
      BY <2>4, <2>5, <3>1
    <3>2. CASE id \in consumed
      <4>1. PICK g \in Helpers : /\ pc[g] \notin Starting \cup {"request"}
                                /\ input[g].request.id = id /\ input[g].request.signed
                                /\ Timely(input[g].request, checkedAt[g])
        BY <3>2 DEF ConsumedStaysVerified
      <4> QED BY <4>1, <2>3, <2>4
    <3> QED BY <3>1, <3>2
  <2> QED BY <2>1, <2>2, <2>6
<1>2. CASE ~Consume(h)
  <2>1. consumed' = consumed /\ accepted' = accepted /\ input' = input
    BY <1>2 DEF Progress, Die, RequestElevation, Invoke, LoadTrust, ReadDocuments, VerifyRequest, VerifyUpdatePolicy,
                VerifyTargetPolicy, ComposeAuthority, ComposePlan, Replace
  <2>2. ASSUME NEW g \in Helpers, pc[g] \notin Starting \cup {"request"}
        PROVE  pc'[g] \notin Starting \cup {"request"} /\ checkedAt'[g] = checkedAt[g]
    BY <1>2, <2>2 DEF TypeOK, Starting, Proceed, Progress, Die, RequestElevation, Invoke,
                LoadTrust, ReadDocuments, VerifyRequest,
                VerifyUpdatePolicy, VerifyTargetPolicy, ComposeAuthority, ComposePlan, Replace
  <2>3. ConsumedStaysVerified'
    BY <2>1, <2>2 DEF ConsumedStaysVerified
  <2> QED BY <2>1, <2>3 DEF RequestServesOnce
<1> QED BY <1>1, <1>2

(* Every step of an invocation or of its environment preserves Inv. *)
LEMMA NextInv == TypeOK /\ Inv /\ [Next]_vars => Inv'
<1> SUFFICES ASSUME TypeOK, Inv, [Next]_vars PROVE Inv'
  OBVIOUS
<1>1. CASE Provision \/ UNCHANGED vars
  BY <1>1 DEF Provision, vars, Inv, Verified, UpdatePolicyValid, TargetPolicyValid,
              RequestServesOnce, ConsumedStaysVerified
<1>2. ASSUME NEW h \in Helpers, RequestElevation(h) \/ Progress(h) \/ Die(h) PROVE Inv'
  <2>1. \A g \in Helpers : Verified(g)'
    BY <1>2, OthersStayVerified, OwnStepVerifies
  <2> QED BY <1>2, <2>1, ReplayDirectoryStep DEF Inv
<1> QED BY <1>1, <1>2 DEF Next

(* In every reachable state the variables have their types and Inv holds. *)
THEOREM Invariance == Spec => [](TypeOK /\ Inv)
<1>1. Init => TypeOK /\ Inv
  BY InitTypeOK, InitInv
<1>2. TypeOK /\ Inv /\ [Next]_vars => TypeOK' /\ Inv'
  BY NextTypeOK, NextInv
<1> QED BY <1>1, <1>2, PTL DEF Spec

-----------------------------------------------------------------------------
(* The variables of the invocations keep their types. *)
THEOREM TypeCorrectness == Spec => []TypeOK
  BY Invariance, PTL

(* However many invocations are given a request, and whatever becomes of   *)
(* the one whose consume() succeeded, no other is served by it.            *)
THEOREM RequestIsSingleUse == Spec => []RequestServesOnce
<1>1. Inv => RequestServesOnce
  BY DEF Inv
<1> QED BY <1>1, Invariance, PTL

(* verify() uses up an id only after every other check of the request. *)
THEOREM OnlyVerifiedIdsAreConsumed == Spec => []ConsumedWasVerified
<1>1. TypeOK /\ Inv => ConsumedWasVerified
  <2> SUFFICES ASSUME TypeOK, Inv, NEW id \in consumed
               PROVE  \E h \in Helpers :
                        LET r == input[h].request
                        IN  /\ r.id = id /\ r.signed
                            /\ r.expires \in r.issued + 1 .. r.issued + MaxLifetime
                            /\ checkedAt[h] \in r.issued - MaxSkew .. r.expires - 1
    BY DEF ConsumedWasVerified
  <2>1. PICK h \in Helpers : /\ input[h].request.id = id /\ input[h].request.signed
                             /\ Timely(input[h].request, checkedAt[h])
    BY DEF Inv, ConsumedStaysVerified
  <2>2. input[h].request \in Requests /\ checkedAt[h] \in Nat
    BY ConstantsAssumption DEF TypeOK, ConstantsAssumption
  <2>3. /\ input[h].request.issued \in Int /\ input[h].request.expires \in Int
        /\ MaxLifetime \in Nat /\ MaxSkew \in Nat
    BY <2>2, ConstantsAssumption DEF ConstantsAssumption
  <2>4. /\ input[h].request.expires
             \in input[h].request.issued + 1 .. input[h].request.issued + MaxLifetime
        /\ checkedAt[h] \in input[h].request.issued - MaxSkew .. input[h].request.expires - 1
    BY <2>1, <2>2, <2>3 DEF Timely
  <2> QED BY <2>1, <2>4
<1> QED BY <1>1, Invariance, PTL

(* replace_and_launch is reached only through all verifications, and what  *)
(* they have established still holds when it is called.                    *)
THEOREM ReplacementHasAuthority == Spec => []ReplacementIsAuthorized
<1>1. Inv => ReplacementIsAuthorized
  BY DEF Inv, Verified, ReplacementIsAuthorized, AfterInvoke, AfterRequest, AfterConsume, AfterUpdate,
         AfterTarget, AfterCompose, AfterPlan
<1> QED BY <1>1, Invariance, PTL

-----------------------------------------------------------------------------
(* The steps an invocation can still take, at most. *)
Left(h) ==
  CASE pc[h] = "elevate" -> 11
    [] pc[h] = "invoke"  -> 10
    [] pc[h] = "start"   -> 9
    [] pc[h] = "read"    -> 8
    [] pc[h] = "request" -> 7
    [] pc[h] = "consume" -> 6
    [] pc[h] = "update"  -> 5
    [] pc[h] = "target"  -> 4
    [] pc[h] = "compose" -> 3
    [] pc[h] = "plan"    -> 2
    [] pc[h] = "replace" -> 1
    [] OTHER             -> 0

(* Each of its steps leaves fewer, and no step of another invocation adds  *)
(* one.                                                                    *)
LEMMA StepsRunDown ==
  ASSUME TypeOK, NEW h \in Helpers, RequestElevation(h) \/ Progress(h) \/ Die(h)
  PROVE  Left(h)' < Left(h) /\ \A g \in Helpers \ {h} : Left(g)' = Left(g)
<1>1. /\ pc' = [pc EXCEPT ![h] = pc'[h]]
      /\ \/ pc[h] = "elevate" /\ pc'[h] \in {"invoke", "refused"}
         \/ pc[h] = "invoke"  /\ pc'[h] \in {"start", "refused"}
         \/ pc[h] = "start"   /\ pc'[h] \in {"read", "refused"}
         \/ pc[h] = "read"    /\ pc'[h] \in {"request", "refused"}
         \/ pc[h] = "request" /\ pc'[h] \in {"consume", "refused"}
         \/ pc[h] = "consume" /\ pc'[h] \in {"update", "refused"}
         \/ pc[h] = "update"  /\ pc'[h] \in {"target", "refused"}
         \/ pc[h] = "target"  /\ pc'[h] \in {"compose", "refused"}
         \/ pc[h] = "compose" /\ pc'[h] \in {"plan", "refused"}
         \/ pc[h] = "plan"    /\ pc'[h] \in {"replace", "refused"}
         \/ pc[h] = "replace" /\ pc'[h] \in {"done", "refused"}
         \/ pc[h] \in Steps \ Ended /\ pc'[h] = "dead"
  BY DEF TypeOK, Progress, Die, Proceed, RequestElevation, Invoke, LoadTrust, ReadDocuments,
         VerifyRequest, Consume, VerifyUpdatePolicy, VerifyTargetPolicy, ComposeAuthority,
         ComposePlan, Replace
<1>2. \A g \in Helpers \ {h} : pc'[g] = pc[g]
  BY <1>1 DEF TypeOK
<1>3. Left(h)' < Left(h)
  BY <1>1 DEF Left, Steps, Starting, Ended
<1> QED BY <1>2, <1>3 DEF Left

(* Every invocation ends after 11 steps at most, whatever the others, the  *)
(* runtime and the clock do: only its own steps, each of which takes from  *)
(* what is left, and nobody else's can add to it.  (That it takes them is  *)
(* the fairness under which TLC checks InvocationEnds.)                    *)
THEOREM InvocationsAreShort ==
  Spec =>
    /\ [](\A h \in Helpers : Left(h) \in 0 .. 11 /\ (Left(h) = 0 <=> pc[h] \in Ended))
    /\ [][\A h \in Helpers :
            \/ (RequestElevation(h) \/ Progress(h) \/ Die(h)) /\ Left(h)' < Left(h)
            \/ Left(h)' = Left(h)]_vars
<1> DEFINE I == \A h \in Helpers : Left(h) \in 0 .. 11 /\ (Left(h) = 0 <=> pc[h] \in Ended)
           A == \A h \in Helpers :
                  \/ (RequestElevation(h) \/ Progress(h) \/ Die(h)) /\ Left(h)' < Left(h)
                  \/ Left(h)' = Left(h)
<1>1. TypeOK => I
  BY DEF TypeOK, Left, Steps, Starting, Ended
<1>2. TypeOK /\ Inv /\ [Next]_vars => [A]_vars
  <2>1. ASSUME Provision PROVE A
    BY <2>1 DEF Provision, Left
  <2>2. ASSUME TypeOK, NEW h \in Helpers, RequestElevation(h) \/ Progress(h) \/ Die(h) PROVE A
    BY <2>2, StepsRunDown
  <2> QED BY <2>1, <2>2 DEF Next
<1> HIDE DEF A, I
<1>3. Spec => []I /\ [][A]_vars
  BY <1>1, <1>2, Invariance, PTL DEF Spec
<1> QED BY <1>3 DEF A, I
=============================================================================
