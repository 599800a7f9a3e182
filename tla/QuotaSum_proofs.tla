-------------------------- MODULE QuotaSum_proofs --------------------------
(***************************************************************************)
(* What a set of quota calls adds up to: the facts about MapThenSumSet     *)
(* that the proofs about the quota store rest on.  The library's induction *)
(* theorems take a predicate; here a predicate is the set of what satisfies*)
(* it, and induction is the existence of a least counterexample.           *)
(***************************************************************************)
EXTENDS Integers, FiniteSets, FiniteSetsExt, FiniteSetTheorems,
        WellFoundedInduction, TLAPS

\* What the calls of S add up to.
Sum(c, S) == MapThenSumSet(LAMBDA o : c[o].amount, S)

\* One step of the recursion, and the function it defines.
Pick(s) == CHOOSE x \in s : TRUE
SumStep(c, g, s) ==
    IF s = {} THEN 0 ELSE c[Pick(s)].amount + g[s \ {Pick(s)}]
Sums(c, S) == CHOOSE g : g = [s \in SUBSET S |-> SumStep(c, g, s)]

(* The sum is the value of that function.                                  *)
LEMMA SumIs ==
    ASSUME NEW c, NEW S
    PROVE  Sum(c, S) = Sums(c, S)[S]
  BY DEF Sum, Sums, SumStep, Pick, MapThenSumSet, MapThenFoldSet

-----------------------------------------------------------------------------
(* Induction on the natural numbers and on the subsets of a finite set.    *)

LEMMA InductNat ==
    ASSUME NEW T, 0 \in T, \A n \in Nat : n \in T => n + 1 \in T
    PROVE  Nat \subseteq T
  <1> SUFFICES ASSUME Nat \ T # {} PROVE FALSE
    OBVIOUS
  <1> DEFINE Bad == Nat \ T
  <1>1. Bad \subseteq Nat /\ Bad # {}
    OBVIOUS
  <1>2. \E m \in Bad : \A k \in Bad : ~(<<k, m>> \in OpToRel(<, Nat))
    <2> HIDE DEF Bad
    <2> QED BY <1>1, NatLessThanWellFounded, WFMin
  <1>3. PICK m \in Bad : \A k \in Bad : ~(<<k, m>> \in OpToRel(<, Nat))
    BY <1>2
  <1>4. m \in Nat /\ m # 0
    OBVIOUS
  <1>5. m - 1 \in Nat /\ m - 1 < m
    BY <1>4
  <1>6. m - 1 \in Bad
    BY <1>4, <1>5
  <1>7. <<m - 1, m>> \in OpToRel(<, Nat)
    BY <1>4, <1>5 DEF OpToRel
  <1> QED BY <1>3, <1>6, <1>7

LEMMA InductSubsets ==
    ASSUME NEW S, IsFiniteSet(S), NEW F, {} \in F,
           \A T \in SUBSET S :
              T # {} /\ (\A x \in T : T \ {x} \in F) => T \in F
    PROVE  SUBSET S \subseteq F
  <1> DEFINE G == {n \in Nat : \A T \in SUBSET S : Cardinality(T) = n => T \in F}
  <1>1. 0 \in G
    BY FS_Subset, FS_EmptySet
  <1>2. ASSUME NEW n \in Nat, n \in G PROVE n + 1 \in G
    <2> SUFFICES ASSUME NEW T \in SUBSET S, Cardinality(T) = n + 1
                 PROVE  T \in F
      OBVIOUS
    <2>1. IsFiniteSet(T)
      BY FS_Subset
    <2>2. T # {}
      <3>1. n + 1 # 0
        OBVIOUS
      <3> QED BY <3>1, FS_EmptySet, Zenon
    <2>3. ASSUME NEW x \in T PROVE T \ {x} \in F
      <3>1. Cardinality(T \ {x}) = Cardinality(T) - 1
        BY <2>1, FS_RemoveElement, Zenon
      <3>2. Cardinality(T \ {x}) = n
        BY <3>1
      <3> QED BY <1>2, <3>2
    <2> QED BY <2>2, <2>3
  <1>3. Nat \subseteq G
    <2> HIDE DEF G
    <2> QED BY <1>1, <1>2, InductNat
  <1> SUFFICES ASSUME NEW T \in SUBSET S PROVE T \in F
    OBVIOUS
  <1>4. Cardinality(T) \in Nat
    BY FS_Subset, FS_CardinalityType
  <1> QED BY <1>3, <1>4

-----------------------------------------------------------------------------
(* The recursion defines a function.                                       *)

LEMMA PickIn ==
    ASSUME NEW s, s # {}
    PROVE  Pick(s) \in s
  BY DEF Pick

(* It does so on the subsets of at most n elements, for one n after the    *)
(* other.                                                                  *)
LEMMA SumsExist ==
    ASSUME NEW c, NEW S, IsFiniteSet(S)
    PROVE  \E g : g = [s \in SUBSET S |-> SumStep(c, g, s)]
  <1> DEFINE Small(n) == {s \in SUBSET S : Cardinality(s) <= n}
  <1> DEFINE G == {n \in Nat : \E g : g = [s \in Small(n) |-> SumStep(c, g, s)]}
  <1>c. ASSUME NEW s \in SUBSET S
        PROVE  IsFiniteSet(s) /\ Cardinality(s) \in Nat
    BY FS_Subset, FS_CardinalityType
  <1>1. 0 \in G
    <2> DEFINE g == [s \in Small(0) |-> 0]
    <2>1. ASSUME NEW s \in Small(0) PROVE s = {}
      <3>1. s \in SUBSET S /\ Cardinality(s) = 0
        BY <1>c
      <3> QED BY <3>1, <1>c, FS_EmptySet, Zenon
    <2>2. g = [s \in Small(0) |-> SumStep(c, g, s)]
      BY <2>1 DEF SumStep
    <2> QED BY <2>2
  <1>2. ASSUME NEW n \in Nat, n \in G PROVE n + 1 \in G
    <2>1. PICK g : g = [s \in Small(n) |-> SumStep(c, g, s)]
      BY <1>2
    <2> DEFINE h == [s \in Small(n + 1) |-> SumStep(c, g, s)]
    <2>2. ASSUME NEW s \in Small(n + 1) PROVE SumStep(c, g, s) = SumStep(c, h, s)
      <3>1. CASE s = {}
        BY <3>1 DEF SumStep
      <3>2. CASE s # {}
        <4> DEFINE r == s \ {Pick(s)}
        <4>1. Pick(s) \in s
          BY <3>2, PickIn
        <4>2. Cardinality(r) = Cardinality(s) - 1
          BY <1>c, <4>1, FS_RemoveElement, Zenon
        <4>3. r \in SUBSET S /\ Cardinality(r) <= n
          BY <1>c, <4>2
        <4>4. r \in Small(n) /\ r \in Small(n + 1)
          BY <1>c, <4>3
        <4>5. g[r] = SumStep(c, g, r) /\ h[r] = SumStep(c, g, r)
          BY <2>1, <4>4
        <4> QED BY <3>2, <4>5 DEF SumStep
      <3> QED BY <3>1, <3>2
    <2>3. h = [s \in Small(n + 1) |-> SumStep(c, h, s)]
      BY <2>2
    <2>4. \E f : f = [s \in Small(n + 1) |-> SumStep(c, f, s)]
      <3> HIDE DEF h, Small
      <3> QED BY <2>3
    <2>5. n + 1 \in Nat
      OBVIOUS
    <2> QED BY <2>4, <2>5
  <1>3. Cardinality(S) \in G
    <2>1. Nat \subseteq G
      <3> HIDE DEF G
      <3> QED BY <1>1, <1>2, InductNat
    <2> HIDE DEF G
    <2> QED BY <2>1, <1>c
  <1>4. Small(Cardinality(S)) = SUBSET S
    BY FS_Subset
  <1> QED BY <1>3, <1>4

LEMMA SumsRecursive ==
    ASSUME NEW c, NEW S, IsFiniteSet(S), NEW s \in SUBSET S
    PROVE  Sums(c, S)[s] = SumStep(c, Sums(c, S), s)
  <1>1. Sums(c, S) = [r \in SUBSET S |-> SumStep(c, Sums(c, S), r)]
    BY SumsExist DEF Sums
  <1> QED BY <1>1

(* The sum of a set is the same seen from every larger set.                *)
LEMMA SumsAgree ==
    ASSUME NEW c, NEW S, IsFiniteSet(S), NEW R \in SUBSET S
    PROVE  Sums(c, S)[R] = Sum(c, R)
  <1>f. IsFiniteSet(R)
    BY FS_Subset
  <1> DEFINE F == {s \in SUBSET R : Sums(c, S)[s] = Sums(c, R)[s]}
  <1>r. ASSUME NEW s \in SUBSET R
        PROVE  /\ Sums(c, S)[s] = SumStep(c, Sums(c, S), s)
               /\ Sums(c, R)[s] = SumStep(c, Sums(c, R), s)
    BY <1>f, SumsRecursive
  <1>1. {} \in F
    BY <1>r DEF SumStep
  <1>2. ASSUME NEW s \in SUBSET R, s # {}, \A x \in s : s \ {x} \in F
        PROVE  s \in F
    <2>1. s \ {Pick(s)} \in F
      BY <1>2, PickIn
    <2> QED BY <1>2, <1>r, <2>1 DEF SumStep
  <1>3. SUBSET R \subseteq F
    <2> HIDE DEF F
    <2> QED BY <1>f, <1>1, <1>2, InductSubsets
  <1>4. R \in F
    BY <1>3
  <1> QED BY <1>4, SumIs

(* The sum of nothing, and of a set with one element taken out.            *)
LEMMA SumEmpty ==
    ASSUME NEW c
    PROVE  Sum(c, {}) = 0
  BY FS_EmptySet, SumIs, SumsRecursive DEF SumStep

LEMMA SumPick ==
    ASSUME NEW c, NEW S, IsFiniteSet(S), S # {}
    PROVE  Sum(c, S) = c[Pick(S)].amount + Sum(c, S \ {Pick(S)})
  <1>1. Sum(c, S) = c[Pick(S)].amount + Sums(c, S)[S \ {Pick(S)}]
    BY SumIs, SumsRecursive DEF SumStep
  <1> QED BY <1>1, SumsAgree

-----------------------------------------------------------------------------
(* Sums of integers do not depend on the order of their terms.             *)

LEMMA SumInt ==
    ASSUME NEW c, NEW S, IsFiniteSet(S), \A o \in S : c[o].amount \in Int
    PROVE  Sum(c, S) \in Int
  <1> DEFINE F == {T \in SUBSET S : Sum(c, T) \in Int}
  <1>1. {} \in F
    BY SumEmpty
  <1>2. ASSUME NEW T \in SUBSET S, T # {}, \A x \in T : T \ {x} \in F
        PROVE  T \in F
    <2>1. IsFiniteSet(T) /\ Pick(T) \in T
      BY <1>2, FS_Subset, PickIn
    <2>2. Sum(c, T) = c[Pick(T)].amount + Sum(c, T \ {Pick(T)})
      BY <1>2, <2>1, SumPick
    <2> QED BY <1>2, <2>1, <2>2
  <1>3. SUBSET S \subseteq F
    <2> HIDE DEF F
    <2> QED BY <1>1, <1>2, InductSubsets
  <1> QED BY <1>3

(* Any call can be taken out first.                                        *)
LEMMA SumRemove ==
    ASSUME NEW c, NEW S, IsFiniteSet(S), \A o \in S : c[o].amount \in Int,
           NEW y \in S
    PROVE  Sum(c, S) = c[y].amount + Sum(c, S \ {y})
  <1> DEFINE F == {T \in SUBSET S : \A z \in T :
                      Sum(c, T) = c[z].amount + Sum(c, T \ {z})}
  <1>1. {} \in F
    OBVIOUS
  <1>2. ASSUME NEW T \in SUBSET S, T # {}, \A x \in T : T \ {x} \in F
        PROVE  T \in F
    <2> SUFFICES ASSUME NEW z \in T
                 PROVE  Sum(c, T) = c[z].amount + Sum(c, T \ {z})
      OBVIOUS
    <2> DEFINE x == Pick(T)
    <2>1. IsFiniteSet(T) /\ x \in T
      BY <1>2, FS_Subset, PickIn
    <2>2. Sum(c, T) = c[x].amount + Sum(c, T \ {x})
      BY <1>2, <2>1, SumPick
    <2>3. CASE z = x
      BY <2>2, <2>3
    <2>4. CASE z # x
      <3> HIDE DEF x
      <3> DEFINE rest == (T \ {x}) \ {z}
      <3>1. rest = (T \ {z}) \ {x}
        OBVIOUS
      <3>2. Sum(c, T \ {x}) = c[z].amount + Sum(c, rest)
        BY <1>2, <2>1, <2>4
      <3>3. Sum(c, T \ {z}) = c[x].amount + Sum(c, rest)
        BY <1>2, <2>1, <2>4, <3>1
      <3>4. Sum(c, rest) \in Int
        <4>1. rest \in SUBSET S
          OBVIOUS
        <4> HIDE DEF rest
        <4> QED BY <4>1, FS_Subset, SumInt
      <3>5. c[x].amount \in Int /\ c[z].amount \in Int
        BY <2>1
      <3> HIDE DEF rest
      <3> QED BY <2>2, <3>2, <3>3, <3>4, <3>5
    <2> QED BY <2>3, <2>4
  <1>3. SUBSET S \subseteq F
    <2> HIDE DEF F
    <2> QED BY <1>1, <1>2, InductSubsets
  <1>4. S \in F
    BY <1>3
  <1> QED BY <1>4

(* One more call adds its amount.                                          *)
LEMMA SumAdd ==
    ASSUME NEW c, NEW S, IsFiniteSet(S), NEW y, y \notin S,
           \A o \in S \cup {y} : c[o].amount \in Int
    PROVE  Sum(c, S \cup {y}) = Sum(c, S) + c[y].amount
  <1>1. IsFiniteSet(S \cup {y})
    BY FS_AddElement
  <1>2. Sum(c, S \cup {y}) = c[y].amount + Sum(c, (S \cup {y}) \ {y})
    BY <1>1, SumRemove
  <1>3. (S \cup {y}) \ {y} = S
    OBVIOUS
  <1>4. Sum(c, S) \in Int /\ c[y].amount \in Int
    BY SumInt
  <1>5. Sum(c, S \cup {y}) = c[y].amount + Sum(c, S)
    BY <1>2, <1>3, Zenon
  <1> QED BY <1>4, <1>5

(* Two sets without a common call add up.                                  *)
LEMMA SumUnion ==
    ASSUME NEW c, NEW A, NEW B, IsFiniteSet(A), IsFiniteSet(B), A \cap B = {},
           \A o \in A \cup B : c[o].amount \in Int
    PROVE  Sum(c, A \cup B) = Sum(c, A) + Sum(c, B)
  <1> DEFINE F == {T \in SUBSET B : Sum(c, A \cup T) = Sum(c, A) + Sum(c, T)}
  <1>a. Sum(c, A) \in Int
    BY SumInt
  <1>1. {} \in F
    <2>1. A \cup {} = A
      OBVIOUS
    <2> QED BY <1>a, <2>1, SumEmpty
  <1>2. ASSUME NEW T \in SUBSET B, T # {}, \A x \in T : T \ {x} \in F
        PROVE  T \in F
    <2>1. PICK x \in T : TRUE
      BY <1>2
    <2> DEFINE R == T \ {x}
    <2>2. IsFiniteSet(T) /\ IsFiniteSet(R) /\ IsFiniteSet(A \cup R)
      BY FS_Subset, FS_Union
    <2>3. T = R \cup {x} /\ A \cup T = (A \cup R) \cup {x} /\ x \notin A \cup R
      OBVIOUS
    <2>4. Sum(c, A \cup R) = Sum(c, A) + Sum(c, R)
      BY <1>2
    <2>5. Sum(c, R) \in Int /\ c[x].amount \in Int
      BY <2>2, SumInt
    <2>6. Sum(c, (A \cup R) \cup {x}) = Sum(c, A \cup R) + c[x].amount
      BY <2>2, <2>3, SumAdd
    <2>7. Sum(c, R \cup {x}) = Sum(c, R) + c[x].amount
      BY <2>2, <2>3, SumAdd
    <2>8. /\ Sum(c, A \cup T) = (Sum(c, A) + Sum(c, R)) + c[x].amount
          /\ Sum(c, T) = Sum(c, R) + c[x].amount
      <3> HIDE DEF R
      <3> QED BY <2>3, <2>4, <2>6, <2>7, Zenon
    <2>9. Sum(c, A \cup T) = Sum(c, A) + Sum(c, T)
      BY <1>a, <2>5, <2>8
    <2> QED BY <2>9
  <1>3. SUBSET B \subseteq F
    <2> HIDE DEF F
    <2> QED BY <1>1, <1>2, InductSubsets
  <1>4. B \in F
    BY <1>3
  <1> QED BY <1>4

=============================================================================
