---------------------------- MODULE ArchiveProofs ----------------------------
(***************************************************************************)
(* What the loop of stage_verified_zip over the members of an archive adds *)
(* up to, for an archive of any length: its counters (CountersGrow), and   *)
(* that its checks accept exactly the archives that are Acceptable         *)
(* (LoopIsExact).                                                          *)
(*                                                                         *)
(* Expanded is a sum over a set, a fold of the community modules.  That    *)
(* there is such a sum, and that it grows with the set, is shown by        *)
(* induction over the subsets of a finite set, stated without an operator  *)
(* for a parameter: a set of counterexamples, each of which has a smaller  *)
(* one in it, is empty (SubsetInduction).                                  *)
(***************************************************************************)
EXTENDS Acquire, FiniteSetTheorems, WellFoundedInduction, TLAPS

(* One step of a sum, and what the function is that adds up the sizes of   *)
(* every subset of J.                                                      *)
Chosen(s)     == CHOOSE x \in s : TRUE
Step(a, g, s) == IF s = {} THEN 0 ELSE a[Chosen(s)].size + g[s \ {Chosen(s)}]
Adds(a, g, J) == g = [s \in SUBSET J |-> Step(a, g, s)]

LEMMA SizeOfIsChosen == \A a, J : SizeOf(a, J) = (CHOOSE g : Adds(a, g, J))[J]
  BY Zenon DEF SizeOf, MapThenSumSet, MapThenFoldSet, Adds, Step, Chosen

LEMMA ChosenIsMember == ASSUME NEW s, s # {} PROVE Chosen(s) \in s
  BY DEF Chosen

(* The induction that the proofs below go by: a property of the empty set  *)
(* and of every set whose proper subsets have it, given as the set C of    *)
(* the subsets of J without it, which is empty.                            *)
LEMMA SubsetInduction ==
  ASSUME NEW J, IsFiniteSet(J), NEW C \in SUBSET SUBSET J,
         \A s \in C : \E t \in C : t \subseteq s /\ t # s
  PROVE  C = {}
<1> SUFFICES ASSUME C # {} PROVE FALSE
  OBVIOUS
<1>1. IsWellFoundedOn(StrictSubsetOrdering(J), SUBSET J)
  <2>1. FiniteSubsetsOf(J) = SUBSET J
    BY FS_FiniteSubsetsOfFinite
  <2>2. IsWellFoundedOn(StrictSubsetOrdering(J), FiniteSubsetsOf(J))
    BY FS_StrictSubsetOrderingWellFounded
  <2> QED BY <2>1, <2>2
<1>2. PICK s \in C : \A t \in C : <<t, s>> \notin StrictSubsetOrdering(J)
  BY <1>1, WFMin
<1> QED BY <1>2 DEF StrictSubsetOrdering

(* Two functions that add up agree on the subsets both of them know.       *)
LEMMA AddsAgree ==
  ASSUME NEW a, NEW J, IsFiniteSet(J), NEW K \in SUBSET J, NEW g, NEW h, Adds(a, g, J), Adds(a, h, K)
  PROVE  \A s \in SUBSET K : g[s] = h[s]
<1> DEFINE C == {s \in SUBSET K : g[s] # h[s]}
<1>1. \A s \in SUBSET K : g[s] = Step(a, g, s) /\ h[s] = Step(a, h, s)
  <2>1. \A s \in SUBSET K : s \in SUBSET J
    OBVIOUS
  <2>2. g = [s \in SUBSET J |-> Step(a, g, s)]
    BY DEF Adds
  <2>3. h = [s \in SUBSET K |-> Step(a, h, s)]
    BY DEF Adds
  <2> QED BY <2>1, <2>2, <2>3
<1>2. ASSUME NEW s \in C PROVE \E t \in C : t \subseteq s /\ t # s
  <2>1. s # {} /\ g[s \ {Chosen(s)}] # h[s \ {Chosen(s)}]
    BY <1>1 DEF Step
  <2> QED BY <2>1, ChosenIsMember
<1>3. IsFiniteSet(K)
  BY FS_Subset
<1>4. C = {}
  <2> HIDE DEF C
  <2>1. C \in SUBSET SUBSET K
    BY DEF C
  <2> QED BY <1>2, <1>3, <2>1, SubsetInduction
<1> QED BY <1>4

(* There is a function that adds up. *)
LEMMA AddsExists ==
  ASSUME NEW a, NEW J, IsFiniteSet(J)
  PROVE  \E g : Adds(a, g, J)
<1> DEFINE C == {K \in SUBSET J : ~\E g : Adds(a, g, K)}
<1> SUFFICES C = {}
  OBVIOUS
<1>1. ASSUME NEW K \in C, \A L \in SUBSET K : L # K => \E g : Adds(a, g, L)
      PROVE  FALSE
  <2> DEFINE G(L) == CHOOSE g : Adds(a, g, L)
             h == [s \in SUBSET K |-> IF s = {} THEN 0 
                     ELSE a[Chosen(s)].size + G(s \ {Chosen(s)})[s \ {Chosen(s)}]]
  <2>1. \A L \in SUBSET K : L # K => Adds(a, G(L), L)
    BY <1>1
  <2>2. \A L \in SUBSET K : L # K => h[L] = G(L)[L]
    <3> SUFFICES ASSUME NEW L \in SUBSET K, L # K PROVE h[L] = G(L)[L]
      OBVIOUS
    <3>1. Adds(a, G(L), L)
      BY <2>1
    <3>2. G(L)[L] = Step(a, G(L), L)
      <4> HIDE DEF G
      <4>1. G(L) = [s \in SUBSET L |-> Step(a, G(L), s)]
        BY <3>1 DEF Adds
      <4>2. L \in SUBSET L
        OBVIOUS
      <4> QED BY <4>1, <4>2
    <3>3. CASE L = {}
      BY <3>2, <3>3 DEF Step
    <3>4. CASE L # {}
      <4> DEFINE M == L \ {Chosen(L)}
      <4>1. M \in SUBSET L /\ M \in SUBSET K /\ M # K
        BY <3>4, ChosenIsMember
      <4>2. Adds(a, G(M), M)
        BY <2>1, <4>1
      <4>3. IsFiniteSet(L)
        BY FS_Subset
      <4> HIDE DEF G
      <4>4. G(L)[M] = G(M)[M]
        BY <3>1, <4>1, <4>2, <4>3, AddsAgree
      <4>5. h[L] = a[Chosen(L)].size + G(M)[M]
        BY <3>4
      <4>6. G(L)[L] = a[Chosen(L)].size + G(L)[M]
        BY <3>2, <3>4 DEF Step
      <4> QED BY <4>4, <4>5, <4>6
    <3> QED BY <3>3, <3>4
  <2>3. \A s \in SUBSET K : Step(a, h, s) = IF s = {} THEN 0 
                     ELSE a[Chosen(s)].size + G(s \ {Chosen(s)})[s \ {Chosen(s)}]
    <3> HIDE DEF h, G
    <3> SUFFICES ASSUME NEW s \in SUBSET K, s # {}
                 PROVE  h[s \ {Chosen(s)}] = G(s \ {Chosen(s)})[s \ {Chosen(s)}]
      BY DEF Step
    <3>1. s \ {Chosen(s)} \in SUBSET K /\ s \ {Chosen(s)} # K
      BY ChosenIsMember
    <3> QED BY <2>2, <3>1
  <2>4. Adds(a, h, K)
    <3> HIDE DEF G
    <3> QED BY <2>3 DEF Adds
  <2> QED BY <2>4
<1>2. \A K \in C : \E L \in C : L \subseteq K /\ L # K
  BY <1>1
<1> HIDE DEF C
<1>3. C \in SUBSET SUBSET J
  BY DEF C
<1> QED BY <1>2, <1>3, SubsetInduction

(* The sum of the sizes of the members at the places J, one taken out.     *)
LEMMA SizeOfStep ==
  ASSUME NEW a, NEW J, IsFiniteSet(J)
  PROVE  SizeOf(a, J) = IF J = {} THEN 0
                        ELSE a[Chosen(J)].size + SizeOf(a, J \ {Chosen(J)})
<1> DEFINE G(L) == CHOOSE g : Adds(a, g, L)
           M == J \ {Chosen(J)}
<1>1. Adds(a, G(J), J)
  BY AddsExists
<1>2. IsFiniteSet(M) /\ M \in SUBSET J
  BY FS_Subset
<1>3. Adds(a, G(M), M)
  BY <1>2, AddsExists
<1>4. SizeOf(a, J) = G(J)[J] /\ SizeOf(a, M) = G(M)[M]
  BY SizeOfIsChosen
<1> HIDE DEF G
<1>5. G(J)[M] = G(M)[M]
  <2>1. M \in SUBSET M
    OBVIOUS
  <2> HIDE DEF M
  <2> QED BY <1>1, <1>2, <1>3, <2>1, AddsAgree
<1>6. G(J)[J] = Step(a, G(J), J)
  <2>1. G(J) = [s \in SUBSET J |-> Step(a, G(J), s)]
    BY <1>1 DEF Adds
  <2>2. J \in SUBSET J
    OBVIOUS
  <2> QED BY <2>1, <2>2
<1> HIDE DEF M
<1>7. J # {} => Step(a, G(J), J) = a[Chosen(J)].size + G(J)[M]
  BY DEF Step, M
<1>8. J = {} => Step(a, G(J), J) = 0
  BY DEF Step
<1> QED BY <1>4, <1>5, <1>6, <1>7, <1>8 DEF M

LEMMA SizeOfNone == \A a : SizeOf(a, {}) = 0
  BY SizeOfStep, FS_EmptySet

LEMMA SizeType ==
  ASSUME NEW a \in Seq(Member), NEW i \in DOMAIN a
  PROVE  a[i].size \in Nat
<1>1. a[i] \in Member
  OBVIOUS
<1> QED BY <1>1 DEF Member

(* The sizes of members are natural numbers, and so is their sum.          *)
LEMMA SizeOfType ==
  ASSUME NEW a \in Seq(Member), NEW J \in SUBSET DOMAIN a, IsFiniteSet(J)
  PROVE  SizeOf(a, J) \in Nat
<1> DEFINE C == {s \in SUBSET J : SizeOf(a, s) \notin Nat}
<1>1. ASSUME NEW s \in SUBSET J, \A t \in SUBSET s : t # s => SizeOf(a, t) \in Nat
      PROVE  SizeOf(a, s) \in Nat
  <2>1. IsFiniteSet(s)
    BY FS_Subset
  <2>2. CASE s = {}
    BY <2>2, SizeOfNone
  <2>3. CASE s # {}
    <3>1. SizeOf(a, s) = a[Chosen(s)].size + SizeOf(a, s \ {Chosen(s)})
      BY <2>1, <2>3, SizeOfStep
    <3>2. Chosen(s) \in s
      BY <2>3, ChosenIsMember
    <3>3. a[Chosen(s)].size \in Nat
      BY <3>2, SizeType
    <3>4. SizeOf(a, s \ {Chosen(s)}) \in Nat
      BY <1>1, <3>2
    <3> QED BY <3>1, <3>3, <3>4
  <2> QED BY <2>2, <2>3
<1>2. C = {}
  <2>1. \A s \in C : \E t \in C : t \subseteq s /\ t # s
    BY <1>1
  <2>2. C \in SUBSET SUBSET J
    OBVIOUS
  <2> HIDE DEF C
  <2> QED BY <2>1, <2>2, SubsetInduction
<1> QED BY <1>2

(* Whichever member is taken out, the rest adds up to what is left.        *)
LEMMA SizeOfRemove ==
  ASSUME NEW a \in Seq(Member), NEW J \in SUBSET DOMAIN a, IsFiniteSet(J)
  PROVE  \A i \in J : SizeOf(a, J) = a[i].size + SizeOf(a, J \ {i})
<1> DEFINE Good(s) == \A i \in s : SizeOf(a, s) = a[i].size + SizeOf(a, s \ {i})
           C       == {s \in SUBSET J : ~Good(s)}
<1>1. ASSUME NEW s \in SUBSET J, \A t \in SUBSET s : t # s => Good(t) PROVE Good(s)
  <2> SUFFICES ASSUME NEW i \in s PROVE SizeOf(a, s) = a[i].size + SizeOf(a, s \ {i})
    OBVIOUS
  <2> DEFINE x == Chosen(s)
  <2>1. IsFiniteSet(s) /\ x \in s /\ s # {}
    BY FS_Subset, ChosenIsMember
  <2>2. SizeOf(a, s) = a[x].size + SizeOf(a, s \ {x})
    BY <2>1, SizeOfStep
  <2> HIDE DEF x
  <2>3. CASE x = i
    BY <2>2, <2>3
  <2>4. CASE x # i
    <3>1. SizeOf(a, s \ {x}) = a[i].size + SizeOf(a, (s \ {x}) \ {i})
      <4>1. s \ {x} \in SUBSET s /\ s \ {x} # s /\ i \in s \ {x}
        BY <2>1, <2>4
      <4> QED BY <1>1, <4>1
    <3>2. SizeOf(a, s \ {i}) = a[x].size + SizeOf(a, (s \ {i}) \ {x})
      <4>1. s \ {i} \in SUBSET s /\ s \ {i} # s /\ x \in s \ {i}
        BY <2>1, <2>4
      <4> QED BY <1>1, <4>1
    <3> DEFINE rest == (s \ {x}) \ {i}
    <3>3. (s \ {i}) \ {x} = rest
      OBVIOUS
    <3>4. a[x].size \in Nat /\ a[i].size \in Nat
      BY <2>1, SizeType
    <3>5. SizeOf(a, rest) \in Nat
      BY <2>1, SizeOfType, FS_Subset
    <3>6. SizeOf(a, s \ {x}) = a[i].size + SizeOf(a, rest)
      BY <3>1
    <3>7. SizeOf(a, s \ {i}) = a[x].size + SizeOf(a, rest)
      BY <3>2, <3>3
    <3> HIDE DEF rest
    <3> QED BY <2>2, <3>4, <3>5, <3>6, <3>7
  <2> QED BY <2>3, <2>4
<1> HIDE DEF Good
<1>2. C = {}
  <2>1. \A s \in C : \E t \in C : t \subseteq s /\ t # s
    BY <1>1
  <2>2. C \in SUBSET SUBSET J
    OBVIOUS
  <2> HIDE DEF C
  <2> QED BY <2>1, <2>2, SubsetInduction
<1>3. Good(J)
  BY <1>2
<1> QED BY <1>3 DEF Good

(* What a part adds up to is at most what the whole does.                  *)
LEMMA SizeOfMonotonic ==
  ASSUME NEW a \in Seq(Member), NEW J \in SUBSET DOMAIN a, IsFiniteSet(J)
  PROVE  \A K \in SUBSET J : SizeOf(a, K) <= SizeOf(a, J)
<1> DEFINE Good(s) == \A K \in SUBSET s : SizeOf(a, K) <= SizeOf(a, s)
           C       == {s \in SUBSET J : ~Good(s)}
<1>1. ASSUME NEW s \in SUBSET J, \A t \in SUBSET s : t # s => Good(t) PROVE Good(s)
  <2> SUFFICES ASSUME NEW K \in SUBSET s PROVE SizeOf(a, K) <= SizeOf(a, s)
    OBVIOUS
  <2>1. IsFiniteSet(s) /\ IsFiniteSet(K) /\ SizeOf(a, s) \in Nat /\ SizeOf(a, K) \in Nat
    BY FS_Subset, SizeOfType
  <2>2. CASE K = s
    BY <2>1, <2>2
  <2>3. CASE K # s
    <3>1. PICK i \in s : i \notin K
      BY <2>3
    <3>2. SizeOf(a, s) = a[i].size + SizeOf(a, s \ {i})
      BY <2>1, SizeOfRemove
    <3>3. SizeOf(a, K) <= SizeOf(a, s \ {i})
      <4>1. s \ {i} \in SUBSET s /\ s \ {i} # s /\ K \in SUBSET (s \ {i})
        BY <3>1
      <4> QED BY <1>1, <4>1
    <3>4. a[i].size \in Nat
      BY SizeType
    <3>5. SizeOf(a, s \ {i}) \in Nat
      BY <2>1, SizeOfType, FS_Subset
    <3> QED BY <2>1, <3>2, <3>3, <3>4, <3>5
  <2> QED BY <2>2, <2>3
<1> HIDE DEF Good
<1>2. C = {}
  <2>1. \A s \in C : \E t \in C : t \subseteq s /\ t # s
    BY <1>1
  <2>2. C \in SUBSET SUBSET J
    OBVIOUS
  <2> HIDE DEF C
  <2> QED BY <2>1, <2>2, SubsetInduction
<1>3. Good(J)
  BY <1>2
<1> QED BY <1>3 DEF Good

-----------------------------------------------------------------------------
(* The counters of the loop over an archive only go up.                    *)
LEMMA CountersGrow ==
  ASSUME NEW a \in Seq(Member), NEW n \in 0 .. Len(a)
  PROVE  /\ FilesOf(a, n) \in SUBSET DOMAIN a /\ IsFiniteSet(FilesOf(a, n))
         /\ Count(a, n) \in Nat /\ Expanded(a, n) \in Nat
         /\ Count(a, n) <= Count(a, Len(a))
         /\ Expanded(a, n) <= Expanded(a, Len(a))
<1>1. FilesOf(a, n) \in SUBSET FilesOf(a, Len(a)) /\ FilesOf(a, Len(a)) \in SUBSET DOMAIN a
  BY DEF FilesOf
<1>2. IsFiniteSet(DOMAIN a)
  BY FS_Interval
<1>3. IsFiniteSet(FilesOf(a, Len(a))) /\ IsFiniteSet(FilesOf(a, n))
  BY <1>1, <1>2, FS_Subset
<1>4. Count(a, n) \in Nat /\ Count(a, n) <= Count(a, Len(a))
  BY <1>1, <1>3, FS_Subset, FS_CardinalityType DEF Count
<1>5. Expanded(a, n) \in Nat /\ Expanded(a, n) <= Expanded(a, Len(a))
  BY <1>1, <1>3, SizeOfType, SizeOfMonotonic DEF Expanded
<1> QED BY <1>1, <1>3, <1>4, <1>5

(* Which of two members comes first does not matter to whether they clash. *)
LEMMA ClashIsSymmetric == \A m, n : Clash(m, n) <=> Clash(n, m)
  BY DEF Clash

(* The checks of the loop on one member fail of no acceptable archive:     *)
(* what is refused for a member is refused for the archive.                *)
LEMMA AcceptableIsAdmissible ==
  ASSUME NEW a \in Seq(Member), Acceptable(a), NEW i \in 1 .. Len(a)
  PROVE  Admissible(a, i) /\ Creatable(a, i)
<1>1. DOMAIN a = 1 .. Len(a) /\ Len(a) \in Nat /\ i \in DOMAIN a
  OBVIOUS
<1>2. a[i].safe /\ a[i].kind # "link" /\ (IsFile(a[i]) => a[i].path # Root)
  BY <1>1 DEF Acceptable
<1>3. \A j \in 1 .. i - 1 : a[j].name # a[i].name /\ ~Clash(a[j], a[i])
  <2> TAKE j \in 1 .. i - 1
  <2>1. j \in DOMAIN a /\ j # i
    BY <1>1
  <2> QED BY <1>1, <2>1 DEF Acceptable
<1>4. Count(a, i) <= MaxFiles /\ Expanded(a, i) <= MaxExpanded
  <2>1. Count(a, Len(a)) <= MaxFiles /\ Expanded(a, Len(a)) <= MaxExpanded
    BY DEF Acceptable
  <2>2. /\ Count(a, i) \in Nat /\ Count(a, Len(a)) \in Nat /\ Count(a, i) <= Count(a, Len(a))
        /\ Expanded(a, i) \in Nat /\ Expanded(a, Len(a)) \in Nat
        /\ Expanded(a, i) <= Expanded(a, Len(a))
    BY CountersGrow
  <2> QED BY <2>1, <2>2, ConstantsAssumption DEF ConstantsAssumption
<1> QED BY <1>2, <1>3, <1>4 DEF Admissible, Creatable

(* The first n members of a have passed. *)
Prefix(a, n) ==
  /\ \A i \in 1 .. n : a[i].safe /\ a[i].kind # "link" /\ (IsFile(a[i]) => a[i].path # Root)
  /\ \A i \in 1 .. n : \A j \in 1 .. i - 1 : a[j].name # a[i].name /\ ~Clash(a[j], a[i])
  /\ Count(a, n) <= MaxFiles /\ Expanded(a, n) <= MaxExpanded

(* Nothing of no member has been passed. *)
LEMMA EmptyPrefix == \A a : Prefix(a, 0)
<1> TAKE a
<1>1. FilesOf(a, 0) = {}
  BY DEF FilesOf
<1>2. Count(a, 0) = 0 /\ Expanded(a, 0) = 0
  BY <1>1, SizeOfNone, FS_EmptySet DEF Count, Expanded
<1> QED BY <1>2, ConstantsAssumption DEF Prefix, ConstantsAssumption

(* A member that is admissible and can be created extends the prefix.      *)
LEMMA PrefixGrows ==
  ASSUME NEW a \in Seq(Member), NEW n \in Nat, n < Len(a),
         Prefix(a, n), Admissible(a, n + 1), Creatable(a, n + 1)
  PROVE  Prefix(a, n + 1)
<1>1. \A i \in 1 .. n + 1 : i \in 1 .. n \/ i = n + 1
  OBVIOUS
<1>2. \A i \in 1 .. n + 1 : a[i].safe /\ a[i].kind # "link" /\ (IsFile(a[i]) => a[i].path # Root)
  BY <1>1 DEF Prefix, Admissible, Creatable
<1>3. \A j \in 1 .. n : a[j].name # a[n + 1].name /\ ~Clash(a[j], a[n + 1])
  <2>1. (n + 1) - 1 = n
    OBVIOUS
  <2> QED BY <2>1 DEF Admissible, Creatable
<1>4. \A i \in 1 .. n + 1 : \A j \in 1 .. i - 1 : a[j].name # a[i].name /\ ~Clash(a[j], a[i])
  BY <1>1, <1>3 DEF Prefix
<1>5. Count(a, n + 1) <= MaxFiles /\ Expanded(a, n + 1) <= MaxExpanded
  <2>1. CASE IsFile(a[n + 1])
    BY <2>1 DEF Admissible
  <2>2. CASE ~IsFile(a[n + 1])
    <3>1. FilesOf(a, n + 1) = FilesOf(a, n)
      BY <1>1, <2>2 DEF FilesOf
    <3> QED BY <3>1 DEF Prefix, Count, Expanded
  <2> QED BY <2>1, <2>2
<1> QED BY <1>2, <1>4, <1>5 DEF Prefix

(* An archive that has passed to its last member and holds the executable  *)
(* is acceptable.                                                          *)
LEMMA PrefixIsAcceptable ==
  ASSUME NEW a \in Seq(Member), Prefix(a, Len(a)), HasExecutable(a)
  PROVE  Acceptable(a)
<1>1. DOMAIN a = 1 .. Len(a) /\ Len(a) \in Nat
  OBVIOUS
<1>2. \A i, j \in DOMAIN a : i # j => a[i].name # a[j].name /\ ~Clash(a[i], a[j])
  <2> SUFFICES ASSUME NEW i \in DOMAIN a, NEW j \in DOMAIN a, i # j
               PROVE  a[i].name # a[j].name /\ ~Clash(a[i], a[j])
    OBVIOUS
  <2>1. CASE i < j
    BY <1>1, <2>1 DEF Prefix
  <2>2. CASE j < i
    BY <1>1, <2>2, ClashIsSymmetric DEF Prefix
  <2> QED BY <1>1, <2>1, <2>2
<1> QED BY <1>1, <1>2 DEF Prefix, Acceptable

(* A loop that gets through has passed every member.                       *)
LEMMA AllPassed ==
  ASSUME NEW a \in Seq(Member), \A i \in 1 .. Len(a) : Admissible(a, i) /\ Creatable(a, i)
  PROVE  Prefix(a, Len(a))
<1> DEFINE C == {s \in SUBSET (1 .. Len(a)) : \E n \in 0 .. Len(a) : s = 1 .. n /\ ~Prefix(a, n)}
<1>1. ASSUME NEW s \in C PROVE \E t \in C : t \subseteq s /\ t # s
  <2>1. PICK n \in 0 .. Len(a) : s = 1 .. n /\ ~Prefix(a, n)
    OBVIOUS
  <2>2. n # 0
    BY <2>1, EmptyPrefix
  <2>3. n - 1 \in Nat /\ n - 1 < Len(a) /\ (n - 1) + 1 = n /\ n \in 1 .. Len(a)
    BY <2>2
  <2>4. ~Prefix(a, n - 1)
    <3> SUFFICES ASSUME Prefix(a, n - 1) PROVE FALSE
      OBVIOUS
    <3>1. Admissible(a, (n - 1) + 1) /\ Creatable(a, (n - 1) + 1)
      BY <2>3
    <3> QED BY <2>1, <2>3, <3>1, PrefixGrows
  <2>5. 1 .. n - 1 \in C
    BY <2>3, <2>4
  <2>6. 1 .. n - 1 \subseteq s /\ 1 .. n - 1 # s
    BY <2>1, <2>3
  <2> QED BY <2>5, <2>6
<1>2. C \in SUBSET SUBSET (1 .. Len(a)) /\ IsFiniteSet(1 .. Len(a))
  BY FS_Interval
<1>3. C = {}
  <2> HIDE DEF C
  <2> QED BY <1>1, <1>2, SubsetInduction
<1>4. 1 .. Len(a) \in SUBSET (1 .. Len(a)) /\ Len(a) \in 0 .. Len(a)
  OBVIOUS
<1> QED BY <1>3, <1>4

(* The checks that stage_verified_zip and the file system make one by one, *)
(* while it writes what has passed, accept exactly the archives described  *)
(* as a whole, whatever the order of their members: those without links,   *)
(* escaping paths, duplicates, files in the way of other members and too   *)
(* many or too large files, and with the executable.                       *)
THEOREM LoopIsExact ==
  \A a \in Seq(Member) :
    Acceptable(a) <=> /\ HasExecutable(a)
                      /\ \A i \in 1 .. Len(a) : Admissible(a, i) /\ Creatable(a, i)
<1> TAKE a \in Seq(Member)
<1>1. Acceptable(a) => HasExecutable(a)
  BY DEF Acceptable
<1> QED BY <1>1, AcceptableIsAdmissible, AllPassed, PrefixIsAcceptable
=============================================================================
