---------------------------- MODULE VersionsProofs ----------------------------
(***************************************************************************)
(* Proofs about Versions, for any texts and any policies.                  *)
(***************************************************************************)
EXTENDS Versions, TLAPS

Tuples == [1 .. 4 -> Nat]

(* An answer waits to be followed as long as the installation, the policy  *)
(* and with them what the answer says of the two stay as they are.         *)
Answered ==
  /\ pc \in {"decide", "follow"} =>
       /\ WellFormed(policy.latest) /\ WellFormed(policy.minimum)
       /\ ~Less(Parse(policy.latest), Parse(policy.minimum))
  /\ pc = "follow" => decision = Decide(installed, policy.latest, policy.minimum)

-----------------------------------------------------------------------------
(* The order of tuples, place by place. *)
LEMMA LessByPlace ==
  ASSUME NEW v \in Tuples, NEW w \in Tuples
  PROVE  Less(v, w) <=>
           \/ v[1] < w[1]
           \/ v[1] = w[1] /\ v[2] < w[2]
           \/ v[1] = w[1] /\ v[2] = w[2] /\ v[3] < w[3]
           \/ v[1] = w[1] /\ v[2] = w[2] /\ v[3] = w[3] /\ v[4] < w[4]
<1> DEFINE P(i) == v[i] < w[i] /\ \A j \in 1 .. 4 : j < i => v[j] = w[j]
<1>1. 1 .. 4 = {1, 2, 3, 4}
  OBVIOUS
<1>2. Less(v, w) <=> P(1) \/ P(2) \/ P(3) \/ P(4)
  BY <1>1 DEF Less
<1>3. P(1) <=> v[1] < w[1]
  BY <1>1
<1>4. P(2) <=> v[1] = w[1] /\ v[2] < w[2]
  BY <1>1
<1>5. P(3) <=> v[1] = w[1] /\ v[2] = w[2] /\ v[3] < w[3]
  BY <1>1
<1>6. P(4) <=> v[1] = w[1] /\ v[2] = w[2] /\ v[3] = w[3] /\ v[4] < w[4]
  BY <1>1
<1> QED BY <1>2, <1>3, <1>4, <1>5, <1>6

(* What is below something is below what is not below that.                *)
LEMMA LessThroughMinimum ==
  ASSUME NEW v \in Tuples, NEW m \in Tuples, NEW l \in Tuples, Less(v, m), ~Less(l, m)
  PROVE  Less(v, l)
<1>1. /\ v[1] \in Nat /\ v[2] \in Nat /\ v[3] \in Nat /\ v[4] \in Nat
      /\ m[1] \in Nat /\ m[2] \in Nat /\ m[3] \in Nat /\ m[4] \in Nat
      /\ l[1] \in Nat /\ l[2] \in Nat /\ l[3] \in Nat /\ l[4] \in Nat
  BY DEF Tuples
<1> QED BY <1>1, LessByPlace

LEMMA ParseType == ASSUME NEW t \in Texts PROVE Parse(t) \in Tuples
<1>1. t \in Seq(Nat \X Nat)
  BY ConstantsAssumption DEF ConstantsAssumption
<1>2. \A i \in 1 .. Len(t) : t[i] \in Nat \X Nat
  BY <1>1
<1>3. \A i \in 1 .. Len(t) : Number(t[i]) \in Nat
  BY <1>2 DEF Number
<1> QED BY <1>3 DEF Parse, Tuples

LEMMA PolicyType ==
  ASSUME NEW p \in Policies
  PROVE  p.latest \in Texts /\ p.minimum \in Texts
  BY ConstantsAssumption DEF ConstantsAssumption

-----------------------------------------------------------------------------
LEMMA InitOK == Init => TypeOK /\ Answered
  BY DEF Init, TypeOK, Answered, Decisions

LEMMA NextOK == TypeOK /\ Answered /\ [Next]_vars => TypeOK' /\ Answered'
<1> SUFFICES ASSUME TypeOK, Answered, [Next]_vars PROVE TypeOK' /\ Answered'
  OBVIOUS
<1>1. CASE Verify
  <2>1. PICK p \in Policies : Valid(p) /\ policy' = p /\ floor' = p.revision
    BY <1>1 DEF Verify
  <2>2. pc' = "decide" /\ installed' = installed /\ decision' = decision
    BY <1>1 DEF Verify
  <2>3. Answered'
    BY <2>1, <2>2 DEF Answered, Valid
  <2> QED BY <2>1, <2>2, <2>3 DEF TypeOK
<1>2. CASE DecideUpdate
  <2>1. Decide(installed, policy.latest, policy.minimum) \in Decisions
    BY DEF Decide, Decisions
  <2> QED BY <1>2, <2>1 DEF DecideUpdate, TypeOK, Answered
<1>3. CASE Follow
  <2>1. installed' \in Texts
    BY <1>3, PolicyType DEF Follow, TypeOK
  <2> QED BY <1>3, <2>1 DEF Follow, TypeOK, Answered
<1>4. CASE UNCHANGED vars
  BY <1>4 DEF vars, TypeOK, Answered
<1> QED BY <1>1, <1>2, <1>3, <1>4 DEF Next

(* In every reachable state the variables have their types and an answer   *)
(* is one to the installation and the policy at hand.                      *)
THEOREM Invariance == Spec => [](TypeOK /\ Answered)
  BY InitOK, NextOK, PTL DEF Spec

-----------------------------------------------------------------------------
(* What is offered by decide_update is supported by the policy, which has  *)
(* been verified.                                                          *)
THEOREM OffersAreSupported == Spec => []OfferedIsSupported
<1>1. TypeOK /\ Answered => OfferedIsSupported
  <2> SUFFICES ASSUME TypeOK, Answered, pc = "follow" PROVE OfferedIsSupported
    BY DEF OfferedIsSupported
  <2>1. decision = Decide(installed, policy.latest, policy.minimum)
    BY DEF Answered
  <2>2. ~Less(Parse(policy.latest), Parse(policy.minimum))
    BY DEF Answered
  <2> QED BY <2>1, <2>2 DEF Decide, OfferedIsSupported
<1> QED BY <1>1, Invariance, PTL

(* Policies that are verified and followed never take an installation      *)
(* down, nor sideways: a policy whose minimum asks for an update has a     *)
(* latest version no lower than the minimum.                               *)
THEOREM UpdatesGoUp == Spec => NeverDowngrades
<1> DEFINE Up == installed' # installed => Less(Parse(installed), Parse(installed'))
<1>1. ASSUME TypeOK, Answered, [Next]_vars, installed' # installed
      PROVE  Less(Parse(installed), Parse(installed'))
  <2>1. Follow
    BY <1>1 DEF Next, vars, Verify, DecideUpdate
  <2>2. installed' = policy.latest /\ decision \in {"UPDATE_AVAILABLE", "UPDATE_REQUIRED"}
    BY <1>1, <2>1 DEF Follow
  <2>3. decision = Decide(installed, policy.latest, policy.minimum)
    BY <1>1, <2>1 DEF Follow, Answered
  <2>4. CASE decision = "UPDATE_AVAILABLE"
    BY <2>2, <2>3, <2>4 DEF Decide
  <2>5. CASE decision = "UPDATE_REQUIRED"
    <3>1. Less(Parse(installed), Parse(policy.minimum))
      BY <2>3, <2>5 DEF Decide
    <3>2. ~Less(Parse(policy.latest), Parse(policy.minimum))
      BY <1>1, <2>1 DEF Follow, Answered
    <3>3. /\ Parse(installed) \in Tuples /\ Parse(policy.latest) \in Tuples
          /\ Parse(policy.minimum) \in Tuples
      BY <1>1, ParseType, PolicyType DEF TypeOK
    <3> QED BY <2>2, <3>1, <3>2, <3>3, LessThroughMinimum
  <2> QED BY <2>2, <2>4, <2>5
<1>2. TypeOK /\ Answered /\ [Next]_vars => [Up]_vars
  BY <1>1
<1> QED BY <1>2, Invariance, PTL DEF Spec, NeverDowngrades

-----------------------------------------------------------------------------
(* A number before another that is below Base decides first.               *)
Pair(x, m) == x * Base + m
Digits     == 0 .. Base - 1

LEMMA PairOrder ==
  ASSUME NEW x \in Nat, NEW y \in Nat, NEW m \in Digits, NEW n \in Digits
  PROVE  /\ Pair(x, m) \in Nat
         /\ Pair(x, m) < Pair(y, n) <=> x < y \/ (x = y /\ m < n)
         /\ Pair(x, m) = Pair(y, n) <=> x = y /\ m = n
<1> USE DEF Pair, Digits
<1>0. Base \in Nat
  BY BaseAssumption DEF BaseAssumption
<1>1. \A u, v \in Nat : u < v => u * Base + Base <= v * Base
  <2> TAKE u, v \in Nat
  <2> HAVE u < v
  <2>1. PICK d \in Nat : v = u + 1 + d
    <3>1. v - u - 1 \in Nat /\ v = u + 1 + (v - u - 1)
      OBVIOUS
    <3> QED BY <3>1
  <2>2. v * Base = u * Base + Base + d * Base
    BY <1>0, <2>1
  <2>3. d * Base \in Nat /\ u * Base \in Nat
    BY <1>0
  <2> QED BY <1>0, <2>2, <2>3
<1>2. x * Base \in Nat /\ y * Base \in Nat
  BY <1>0
<1>3. CASE x < y
  <2>1. x * Base + Base <= y * Base
    BY <1>1, <1>3
  <2> QED BY <1>0, <1>2, <1>3, <2>1
<1>4. CASE y < x
  <2>1. y * Base + Base <= x * Base
    BY <1>1, <1>4
  <2> QED BY <1>0, <1>2, <1>4, <2>1
<1>5. CASE x = y
  BY <1>0, <1>2, <1>5
<1> QED BY <1>3, <1>4, <1>5

(* The same of four numbers that are not taken apart any further.          *)
Ordered(x, m, y, n) ==
  /\ Pair(x, m) \in Nat /\ Pair(y, n) \in Nat
  /\ Pair(x, m) < Pair(y, n) <=> x < y \/ (x = y /\ m < n)
  /\ Pair(x, m) = Pair(y, n) <=> x = y /\ m = n

LEMMA PairsOrdered ==
  \A x, y \in Nat : \A m, n \in Digits : Ordered(x, m, y, n)
<1> TAKE x, y \in Nat
<1> TAKE m, n \in Digits
<1>1. Pair(y, n) \in Nat
  BY PairOrder
<1>2. /\ Pair(x, m) \in Nat
      /\ Pair(x, m) < Pair(y, n) <=> x < y \/ (x = y /\ m < n)
      /\ Pair(x, m) = Pair(y, n) <=> x = y /\ m = n
  BY PairOrder
<1> QED BY <1>1, <1>2 DEF Ordered

(* Tuples of numbers below Base, weighed. *)
Weight(v) == Pair(Pair(Pair(v[1], v[2]), v[3]), v[4])

LEMMA WeightOrder ==
  ASSUME NEW v \in [1 .. 4 -> Digits], NEW w \in [1 .. 4 -> Digits]
  PROVE  /\ Weight(v) \in Nat
         /\ Weight(v) < Weight(w) <=> Less(v, w)
         /\ Weight(v) = Weight(w) <=> v = w
<1> DEFINE v2 == Pair(v[1], v[2])  v3 == Pair(v2, v[3])
           w2 == Pair(w[1], w[2])  w3 == Pair(w2, w[3])
<1>1. /\ v[1] \in Digits /\ v[2] \in Digits /\ v[3] \in Digits /\ v[4] \in Digits
      /\ w[1] \in Digits /\ w[2] \in Digits /\ w[3] \in Digits /\ w[4] \in Digits
  OBVIOUS
<1>2. v[1] \in Nat /\ w[1] \in Nat
  BY <1>1, BaseAssumption DEF BaseAssumption, Digits
<1>3. Ordered(v[1], v[2], w[1], w[2])
  BY <1>1, <1>2, PairsOrdered
<1>4. v2 \in Nat /\ w2 \in Nat
  BY <1>3 DEF Ordered
<1>5. Ordered(v2, v[3], w2, w[3])
  <2> HIDE DEF v2, w2
  <2> QED BY <1>1, <1>4, PairsOrdered
<1>6. v3 \in Nat /\ w3 \in Nat
  BY <1>5 DEF Ordered
<1>7. Ordered(v3, v[4], w3, w[4])
  <2> HIDE DEF v3, w3
  <2> QED BY <1>1, <1>6, PairsOrdered
<1>8. Weight(v) = Pair(v3, v[4]) /\ Weight(w) = Pair(w3, w[4])
  BY DEF Weight
<1>9. /\ v2 < w2 <=> v[1] < w[1] \/ (v[1] = w[1] /\ v[2] < w[2])
      /\ v2 = w2 <=> v[1] = w[1] /\ v[2] = w[2]
  BY <1>3 DEF Ordered
<1>10. /\ v3 < w3 <=> v2 < w2 \/ (v2 = w2 /\ v[3] < w[3])
       /\ v3 = w3 <=> v2 = w2 /\ v[3] = w[3]
  BY <1>5 DEF Ordered
<1>11. /\ Weight(v) \in Nat
       /\ Weight(v) < Weight(w) <=> v3 < w3 \/ (v3 = w3 /\ v[4] < w[4])
       /\ Weight(v) = Weight(w) <=> v3 = w3 /\ v[4] = w[4]
  BY <1>7, <1>8 DEF Ordered
<1> HIDE DEF v2, w2, v3, w3
<1>12. v \in Tuples /\ w \in Tuples
  BY BaseAssumption DEF BaseAssumption, Digits, Tuples
<1>13. v = w <=> v[1] = w[1] /\ v[2] = w[2] /\ v[3] = w[3] /\ v[4] = w[4]
  <2>1. \A i \in 1 .. 4 : i = 1 \/ i = 2 \/ i = 3 \/ i = 4
    OBVIOUS
  <2>2. v = [i \in 1 .. 4 |-> v[i]] /\ w = [i \in 1 .. 4 |-> w[i]]
    OBVIOUS
  <2> QED BY <2>1, <2>2
<1> QED BY <1>9, <1>10, <1>11, <1>12, <1>13, LessByPlace

(* parse_version keeps the order of what versions mean.                    *)
LEMMA ParseValue ==
  ASSUME NEW t \in Texts
  PROVE  Parse(t) \in [1 .. 4 -> Digits] /\ Value(t) = Weight(Parse(t))
<1>1. t \in Seq(Nat \X Nat) /\ Len(t) \in Nat
  BY ConstantsAssumption DEF ConstantsAssumption
<1>2. \A i \in 1 .. Len(t) : Number(t[i]) \in Digits /\ t[i][2] = Number(t[i])
  <2> TAKE i \in 1 .. Len(t)
  <2>1. t[i] \in Nat \X Nat /\ i \in DOMAIN t
    BY <1>1
  <2>2. t[i][2] < Base /\ t[i][2] \in Nat
    BY <2>1, BaseAssumption DEF BaseAssumption
  <2> QED BY <2>2, BaseAssumption DEF Number, BaseAssumption, Digits
<1>3. Parse(t) \in [1 .. 4 -> Digits]
  BY <1>2, BaseAssumption DEF Parse, BaseAssumption, Digits
<1>4. ASSUME NEW i \in 1 .. 4 PROVE Parse(t)[i] = IF i <= Len(t) THEN t[i][2] ELSE 0
  <2>1. CASE i <= Len(t)
    BY <1>1, <1>2, <2>1 DEF Parse
  <2>2. CASE ~(i <= Len(t))
    BY <1>1, <2>2 DEF Parse
  <2> QED BY <2>1, <2>2
<1> QED BY <1>3, <1>4 DEF Value, Weight, Pair

(* decide_update answers what the meaning of the versions demands, however *)
(* they are written.                                                       *)
THEOREM DecisionsGoByValue == Spec => []DecisionGoesByValue
<1>1. TypeOK /\ Answered => DecisionGoesByValue
  <2> SUFFICES ASSUME TypeOK, Answered, pc = "follow" PROVE DecisionGoesByValue
    BY DEF DecisionGoesByValue
  <2> DEFINE c == Parse(installed)  l == Parse(policy.latest)  m == Parse(policy.minimum)
  <2>1. installed \in Texts /\ policy.latest \in Texts /\ policy.minimum \in Texts
    BY PolicyType DEF TypeOK
  <2>2. /\ Value(installed) = Weight(c) /\ Value(policy.latest) = Weight(l)
        /\ Value(policy.minimum) = Weight(m)
        /\ c \in [1 .. 4 -> Digits] /\ l \in [1 .. 4 -> Digits]
        /\ m \in [1 .. 4 -> Digits]
    BY <2>1, ParseValue
  <2>3. /\ WellFormed(policy.latest) /\ WellFormed(policy.minimum) /\ ~Less(l, m)
        /\ decision = Decide(installed, policy.latest, policy.minimum)
    BY DEF Answered
  <2>4. decision = IF ~WellFormed(installed) THEN "UNSUPPORTED"
                   ELSE IF Less(c, m) THEN "UPDATE_REQUIRED"
                   ELSE IF c = l THEN "UP_TO_DATE"
                   ELSE IF Less(c, l) THEN "UPDATE_AVAILABLE"
                   ELSE "UNSUPPORTED"
    BY <2>3 DEF Decide
  <2> HIDE DEF c, l, m
  <2>5. /\ Weight(c) \in Nat /\ Weight(l) \in Nat /\ Weight(m) \in Nat
        /\ Less(c, m) <=> Weight(c) < Weight(m)
        /\ Less(c, l) <=> Weight(c) < Weight(l)
        /\ Less(l, m) <=> Weight(l) < Weight(m)
        /\ c = l <=> Weight(c) = Weight(l)
    BY <2>2, WeightOrder
  <2> QED BY <2>2, <2>3, <2>4, <2>5 DEF DecisionGoesByValue
<1> QED BY <1>1, Invariance, PTL
=============================================================================
