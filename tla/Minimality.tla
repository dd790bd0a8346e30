----------------------------- MODULE Minimality -----------------------------
(***************************************************************************)
(* Facts about least and highest members that the proofs about the         *)
(* components rest on: induction over the numbers put as a fact about sets,*)
(* and the highest of finitely many.                                       *)
(***************************************************************************)
EXTENDS Integers, FiniteSetTheorems, WellFoundedInduction, TLAPS

(* A nonempty set of natural numbers has a least one.                      *)
LEMMA LeastNatural ==
  ASSUME NEW S \in SUBSET Nat, S # {}
  PROVE  \E m \in S : \A n \in S : m <= n
<1> DEFINE Less == {ss \in Nat \X Nat : ss[1] < ss[2]}
<1>1. IsWellFoundedOn(Less, Nat)
  BY NatLessThanWellFounded DEF OpToRel
<1>2. S \subseteq Nat
  OBVIOUS
<1> HIDE DEF Less
<1>3. PICK m \in S : \A n \in S : <<n, m>> \notin Less
  BY <1>1, <1>2, WFMin
<1>4. ASSUME NEW n \in S PROVE m <= n
  <2>1. n \in Nat /\ m \in Nat
    BY <1>2
  <2>2. <<n, m>> \in Nat \X Nat /\ <<n, m>>[1] = n /\ <<n, m>>[2] = m
    BY <2>1
  <2>3. n < m => <<n, m>> \in Less
    BY <2>2 DEF Less
  <2> QED BY <1>3, <2>1, <2>3
<1> QED BY <1>4

(* A set that has 0 and with every number the next has them all: what is   *)
(* true of 0 and passes on is put as the set of the numbers it is true of. *)
LEMMA ByInduction ==
  ASSUME NEW S, 0 \in S, \A n \in Nat : n \in S => n + 1 \in S
  PROVE  Nat \subseteq S
<1> DEFINE T == Nat \ S
<1>1. SUFFICES ASSUME T # {} PROVE FALSE
  OBVIOUS
<1>2. PICK m \in T : \A n \in T : m <= n
  <2>1. T \in SUBSET Nat
    OBVIOUS
  <2> HIDE DEF T
  <2> QED BY <1>1, <2>1, LeastNatural
<1>3. m # 0 /\ m - 1 \in Nat
  BY <1>2
<1>4. m - 1 \in S
  BY <1>2, <1>3
<1>5. (m - 1) + 1 \in S
  BY <1>3, <1>4
<1> QED BY <1>2, <1>5

(* A nonempty set of finite sets has a member none of the others is        *)
(* inside.                                                                 *)
LEMMA SmallestFiniteSet ==
  ASSUME NEW T, T # {}, \A A \in T : IsFiniteSet(A)
  PROVE  \E A \in T : \A B \in T : B \subseteq A => B = A
<1> DEFINE S == UNION T
<1>1. T \subseteq FiniteSubsetsOf(S)
  BY DEF FiniteSubsetsOf
<1>2. IsWellFoundedOn(StrictSubsetOrdering(S), FiniteSubsetsOf(S))
  BY FS_StrictSubsetOrderingWellFounded
<1>3. \E A \in T : \A B \in T : <<B, A>> \notin StrictSubsetOrdering(S)
  BY <1>1, <1>2, WFMin
<1>4. PICK A \in T : \A B \in T : <<B, A>> \notin StrictSubsetOrdering(S)
  BY <1>3
<1>5. ASSUME NEW B \in T, B \subseteq A PROVE B = A
  BY <1>4, <1>5 DEF StrictSubsetOrdering
<1> QED BY <1>5

(* A finite nonempty set has a member a function rates highest.            *)
LEMMA HighestRated ==
  ASSUME NEW S, IsFiniteSet(S), S # {}, NEW f, \A x \in S : f[x] \in Int
  PROVE  \E m \in S : \A x \in S : f[x] <= f[m]
<1> DEFINE T == {A \in SUBSET S : A # {} /\ ~ \E m \in A : \A x \in A : f[x] <= f[m]}
<1>1. SUFFICES ASSUME T # {} PROVE FALSE
  <2>1. S \notin T
    BY <1>1
  <2> QED BY <2>1
<1>2. \A A \in T : IsFiniteSet(A)
  BY FS_Subset
<1> HIDE DEF T
<1>3. PICK A \in T : \A B \in T : B \subseteq A => B = A
  BY <1>1, <1>2, SmallestFiniteSet
<1> USE DEF T
<1>4. PICK a \in A : TRUE
  OBVIOUS
<1>5. A \ {a} \notin T
  BY <1>3, <1>4
<1>6. CASE A \ {a} = {}
  <2>1. \A x \in A : x = a
    BY <1>6
  <2> QED BY <1>3, <1>4, <2>1
<1>7. CASE A \ {a} # {}
  <2>1. PICK m \in A \ {a} : \A x \in A \ {a} : f[x] <= f[m]
    BY <1>5, <1>7
  <2>2. f[a] \in Int /\ f[m] \in Int /\ \A x \in A : f[x] \in Int
    BY <1>3, <1>4
  <2>3. CASE f[a] <= f[m]
    <3>1. \A x \in A : f[x] <= f[m]
      BY <2>1, <2>3
    <3> QED BY <3>1, <1>3
  <2>4. CASE ~(f[a] <= f[m])
    <3>1. \A x \in A : f[x] <= f[a]
      BY <2>1, <2>2, <2>4
    <3> QED BY <3>1, <1>3, <1>4
  <2> QED BY <2>3, <2>4
<1> QED BY <1>6, <1>7
=============================================================================
