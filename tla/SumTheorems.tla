----------------------------- MODULE SumTheorems -----------------------------
(***************************************************************************)
(* Sums of the values of a function over a finite set, the way the          *)
(* community modules fold them: a sum exists, does not depend on the order  *)
(* of its terms, and grows by the term that is added.                       *)
(***************************************************************************)
EXTENDS Functions, FiniteSetTheorems, WellFoundedInduction, TLAPS

LEMMA LeastNat == ASSUME NEW T \in SUBSET Nat, T # {} PROVE \E n \in T : \A m \in T : n <= m
<1> DEFINE Less == {ss \in Nat \X Nat : ss[1] < ss[2]}
<1>1. IsWellFoundedOn(Less, Nat)
  BY NatLessThanWellFounded DEF OpToRel
<1> HIDE DEF Less
<1>2. PICK n \in T : \A m \in T : ~(<<m, n>> \in Less)
  BY <1>1, WFMin
<1>3. ASSUME NEW m \in T PROVE ~(m < n)
  <2>1. <<m, n>> \in Nat \X Nat /\ <<m, n>>[1] = m /\ <<m, n>>[2] = n
    OBVIOUS
  <2> QED
    BY <1>2, <2>1 DEF Less
<1>4. \A m \in T : n <= m
  BY <1>3
<1> QED
  BY <1>4

(* Induction over the subsets of a finite set, for a set of them.           *)
LEMMA SubsetInduction ==
  ASSUME NEW D, IsFiniteSet(D), NEW P \in SUBSET SUBSET D, {} \in P,
         \A s \in SUBSET D : s # {} /\ (\A x \in s : s \ {x} \in P) => s \in P
  PROVE  P = SUBSET D
<1> SUFFICES ASSUME NEW r \in SUBSET D, r \notin P PROVE FALSE
  OBVIOUS
<1>1. \A s \in SUBSET D : IsFiniteSet(s) /\ Cardinality(s) \in Nat
  BY FS_Subset, FS_CardinalityType
<1> DEFINE T == {Cardinality(s) : s \in (SUBSET D) \ P}
<1>2. T \in SUBSET Nat /\ T # {}
  BY <1>1
<1>3. PICK n \in T : \A m \in T : n <= m
  BY <1>2, LeastNat
<1>4. PICK s \in (SUBSET D) \ P : Cardinality(s) = n
  BY <1>3
<1>5. PICK x \in s : s \ {x} \notin P
  BY <1>4
<1>6. Cardinality(s \ {x}) = n - 1
  BY <1>1, <1>4, FS_RemoveElement
<1>7. n - 1 \in T /\ n \in Nat
  BY <1>1, <1>4, <1>5, <1>6
<1> QED
  BY <1>3, <1>7

Chosen(s) == CHOOSE x \in s : TRUE
IsSum(it, w, D) ==
  it = [s \in SUBSET D |-> IF s = {} THEN 0 ELSE w[Chosen(s)] + it[s \ {Chosen(s)}]]

LEMMA ChosenIsMember == ASSUME NEW s, s # {} PROVE Chosen(s) \in s
  BY DEF Chosen

LEMMA SumIsChosen ==
  ASSUME NEW w, NEW D PROVE SumFunctionOnSet(w, D) = (CHOOSE it : IsSum(it, w, D))[D]
  BY DEF SumFunctionOnSet, FoldFunctionOnSet, MapThenFoldSet, IsSum, Chosen

LEMMA SumOfNone == ASSUME NEW w, NEW D, NEW it, IsSum(it, w, D) PROVE it[{}] = 0
  BY DEF IsSum

LEMMA SumUnfolds ==
  ASSUME NEW w, NEW D, NEW it, IsSum(it, w, D), NEW s \in SUBSET D, s # {}
  PROVE  Chosen(s) \in s /\ it[s] = w[Chosen(s)] + it[s \ {Chosen(s)}]
  BY ChosenIsMember DEF IsSum

(* Two sums of the same terms are equal.                                    *)
LEMMA SumsAgree ==
  ASSUME NEW S, IsFiniteSet(S), NEW D, NEW E, S \subseteq D, S \subseteq E,
         NEW w, NEW v, \A x \in S : w[x] = v[x],
         NEW a, IsSum(a, w, D), NEW b, IsSum(b, v, E)
  PROVE  \A s \in SUBSET S : a[s] = b[s]
<1> DEFINE P == {s \in SUBSET S : a[s] = b[s]}
<1>1. {} \in P
  BY SumOfNone
<1>2. ASSUME NEW s \in SUBSET S, s # {}, \A x \in s : s \ {x} \in P PROVE s \in P
  <2>1. Chosen(s) \in s /\ Chosen(s) \in S
    BY <1>2, ChosenIsMember
  <2>2. a[s \ {Chosen(s)}] = b[s \ {Chosen(s)}] /\ w[Chosen(s)] = v[Chosen(s)]
    BY <1>2, <2>1
  <2>3. s \in SUBSET D /\ s \in SUBSET E
    OBVIOUS
  <2>4. s # {}
    BY <1>2
  <2>5. a[s] = w[Chosen(s)] + a[s \ {Chosen(s)}]
    BY <2>3, <2>4, SumUnfolds
  <2>6. b[s] = v[Chosen(s)] + b[s \ {Chosen(s)}]
    BY <2>3, <2>4, SumUnfolds
  <2> QED
    BY <2>2, <2>5, <2>6
<1> HIDE DEF P
<1>3. P = SUBSET S
  <2>1. P \in SUBSET SUBSET S
    BY DEF P
  <2> QED
    BY <1>1, <1>2, <2>1, SubsetInduction
<1> QED
  BY <1>3 DEF P

LEMMA SumExists == ASSUME NEW D, IsFiniteSet(D), NEW w PROVE \E it : IsSum(it, w, D)
<1> DEFINE P == {s \in SUBSET D : \E it : IsSum(it, w, s)}
<1>0. \A s \in SUBSET D : IsFiniteSet(s)
  BY FS_Subset
<1>1. {} \in P
  <2>1. IsSum([s \in SUBSET {} |-> 0], w, {})
    BY DEF IsSum
  <2> QED
    BY <2>1
<1>2. ASSUME NEW s \in SUBSET D, s # {}, \A x \in s : s \ {x} \in P PROVE s \in P
  <2> DEFINE A(y) == CHOOSE a : IsSum(a, w, s \ {y})
             y0 == Chosen(s)
             it == [t \in SUBSET s |-> IF t = s THEN w[y0] + A(y0)[s \ {y0}] ELSE A(Chosen(s \ t))[t]]
  <2>1. ASSUME NEW y \in s PROVE IsSum(A(y), w, s \ {y})
    BY <1>2
  <2> HIDE DEF A
  <2>2. ASSUME NEW y \in s, NEW z \in s, NEW t \in SUBSET s, y \notin t, z \notin t PROVE A(y)[t] = A(z)[t]
    <3>1. t \subseteq s \ {y} /\ t \subseteq s \ {z} /\ IsFiniteSet(t) /\ t \in SUBSET t
      BY <1>0, <2>2
    <3>2. PICK a, b : a = A(y) /\ b = A(z)
      OBVIOUS
    <3>3. IsSum(a, w, s \ {y}) /\ IsSum(b, w, s \ {z})
      BY <2>1, <3>2
    <3>4. a[t] = b[t]
      BY <3>1, <3>3, SumsAgree
    <3> QED
      BY <3>2, <3>4
  <2>3. ASSUME NEW t \in SUBSET s, NEW y \in s, y \notin t PROVE it[t] = A(y)[t]
    <3>1. t # s /\ Chosen(s \ t) \in s \ t
      BY <2>3, ChosenIsMember
    <3> QED
      BY <2>2, <2>3, <3>1
  <2>4. ASSUME NEW t \in SUBSET s
        PROVE it[t] = IF t = {} THEN 0 ELSE w[Chosen(t)] + it[t \ {Chosen(t)}]
    <3>0. y0 \in s
      BY <1>2, ChosenIsMember
    <3>1. CASE t = s
      <4>1. it[s] = w[y0] + A(y0)[s \ {y0}]
        OBVIOUS
      <4>2. it[s \ {y0}] = A(y0)[s \ {y0}]
        BY <2>3, <3>0
      <4> QED
        BY <1>2, <3>1, <4>1, <4>2
    <3>2. CASE t # s
      <4>1. PICK y \in s : y \notin t
        BY <3>2
      <4>2. it[t] = A(y)[t] /\ t \in SUBSET (s \ {y})
        BY <2>3, <4>1
      <4>3. CASE t = {}
        BY <2>1, <4>2, <4>3, SumOfNone
      <4>4. CASE t # {}
        <5>1. A(y)[t] = w[Chosen(t)] + A(y)[t \ {Chosen(t)}]
          <6>1. PICK a : a = A(y)
            OBVIOUS
          <6>2. IsSum(a, w, s \ {y})
            BY <2>1, <6>1
          <6>3. PICK r : r = s \ {y}
            OBVIOUS
          <6>4. IsSum(a, w, r) /\ t \in SUBSET r /\ t # {}
            BY <4>2, <4>4, <6>2, <6>3
          <6>5. a[t] = w[Chosen(t)] + a[t \ {Chosen(t)}]
            BY <6>4, SumUnfolds
          <6> QED
            BY <6>1, <6>5
        <5>2. it[t \ {Chosen(t)}] = A(y)[t \ {Chosen(t)}]
          BY <2>3, <4>1
        <5> QED
          BY <4>2, <4>4, <5>1, <5>2
      <4> QED
        BY <4>3, <4>4
    <3> QED
      BY <3>1, <3>2
  <2> DEFINE other == [t \in SUBSET s |-> IF t = {} THEN 0 ELSE w[Chosen(t)] + it[t \ {Chosen(t)}]]
  <2>5. it = other
    BY <2>4
  <2>6. IsSum(it, w, s)
    BY <2>5 DEF IsSum
  <2> QED
    BY <2>6
<1> HIDE DEF P
<1>3. P = SUBSET D
  <2>1. P \in SUBSET SUBSET D
    BY DEF P
  <2> QED
    BY <1>1, <1>2, <2>1, SubsetInduction
<1> QED
  BY <1>3 DEF P

(* What a sum is.                                                           *)
LEMMA SumIsSum ==
  ASSUME NEW D, IsFiniteSet(D), NEW w
  PROVE  \E it : IsSum(it, w, D) /\ SumFunctionOnSet(w, D) = it[D]
<1>1. IsSum(CHOOSE it : IsSum(it, w, D), w, D)
  BY SumExists
<1> QED
  BY <1>1, SumIsChosen

LEMMA SumAgrees ==
  ASSUME NEW D, IsFiniteSet(D), NEW w, NEW v, \A x \in D : w[x] = v[x]
  PROVE  SumFunctionOnSet(w, D) = SumFunctionOnSet(v, D)
<1>1. PICK a : IsSum(a, w, D) /\ SumFunctionOnSet(w, D) = a[D]
  BY SumIsSum
<1>2. PICK b : IsSum(b, v, D) /\ SumFunctionOnSet(v, D) = b[D]
  BY SumIsSum
<1>3. \A s \in SUBSET D : a[s] = b[s]
  BY <1>1, <1>2, SumsAgree
<1>4. a[D] = b[D]
  BY <1>3
<1> QED
  BY <1>1, <1>2, <1>4

LEMMA SumEmpty == ASSUME NEW w PROVE SumFunctionOnSet(w, {}) = 0
<1>1. PICK a : IsSum(a, w, {}) /\ SumFunctionOnSet(w, {}) = a[{}]
  BY SumIsSum, FS_EmptySet
<1> QED
  BY <1>1, SumOfNone

LEMMA SumsAreNat ==
  ASSUME NEW D, IsFiniteSet(D), NEW w, \A x \in D : w[x] \in Nat, NEW it, IsSum(it, w, D)
  PROVE  \A s \in SUBSET D : it[s] \in Nat
<1> DEFINE P == {s \in SUBSET D : it[s] \in Nat}
<1>1. {} \in P
  BY SumOfNone
<1>2. ASSUME NEW s \in SUBSET D, s # {}, \A x \in s : s \ {x} \in P PROVE s \in P
  <2>1. Chosen(s) \in s /\ it[s] = w[Chosen(s)] + it[s \ {Chosen(s)}]
    BY <1>2, SumUnfolds
  <2> QED
    BY <1>2, <2>1
<1> HIDE DEF P
<1>3. P = SUBSET D
  <2>1. P \in SUBSET SUBSET D
    BY DEF P
  <2> QED
    BY <1>1, <1>2, <2>1, SubsetInduction
<1> QED
  BY <1>3 DEF P

(* Whichever term is taken first.                                           *)
LEMMA AnyOrder ==
  ASSUME NEW D, IsFiniteSet(D), NEW w, \A x \in D : w[x] \in Nat, NEW it, IsSum(it, w, D)
  PROVE  \A s \in SUBSET D : \A x \in s : it[s] = w[x] + it[s \ {x}]
<1> DEFINE P == {s \in SUBSET D : \A x \in s : it[s] = w[x] + it[s \ {x}]}
<1>1. {} \in P
  OBVIOUS
<1>2. ASSUME NEW s \in SUBSET D, s # {}, \A x \in s : s \ {x} \in P PROVE s \in P
  <2> SUFFICES ASSUME NEW x \in s PROVE it[s] = w[x] + it[s \ {x}]
    OBVIOUS
  <2>0. s # {}
    BY <1>2
  <2>a. Chosen(s) \in s /\ it[s] = w[Chosen(s)] + it[s \ {Chosen(s)}]
    BY <2>0, SumUnfolds
  <2>1. PICK y \in s : it[s] = w[y] + it[s \ {y}]
    BY <2>a
  <2>2. CASE x = y
    BY <2>1, <2>2
  <2>3. CASE x # y
    <3>1. (s \ {y}) \ {x} = (s \ {x}) \ {y} /\ x \in s \ {y} /\ y \in s \ {x}
      BY <2>3
    <3>2. it[s \ {y}] = w[x] + it[(s \ {y}) \ {x}] /\ it[s \ {x}] = w[y] + it[(s \ {y}) \ {x}]
      BY <1>2, <3>1
    <3>3. it[(s \ {y}) \ {x}] \in Nat
      BY SumsAreNat
    <3>4. w[x] \in Nat /\ w[y] \in Nat
      OBVIOUS
    <3> HIDE DEF P
    <3> QED
      BY <2>1, <3>2, <3>3, <3>4
  <2> QED
    BY <2>2, <2>3
<1> HIDE DEF P
<1>3. P = SUBSET D
  <2>1. P \in SUBSET SUBSET D
    BY DEF P
  <2> QED
    BY <1>1, <1>2, <2>1, SubsetInduction
<1> QED
  BY <1>3 DEF P

LEMMA SumAdd ==
  ASSUME NEW D, IsFiniteSet(D), NEW x, x \notin D, NEW w, \A y \in D \cup {x} : w[y] \in Nat
  PROVE  /\ SumFunctionOnSet(w, D) \in Nat
         /\ SumFunctionOnSet(w, D \cup {x}) = SumFunctionOnSet(w, D) + w[x]
<1> DEFINE E == D \cup {x}
<1>0. IsFiniteSet(E)
  BY FS_AddElement
<1>1. PICK a : IsSum(a, w, D) /\ SumFunctionOnSet(w, D) = a[D]
  BY SumIsSum
<1>2. PICK b : IsSum(b, w, E) /\ SumFunctionOnSet(w, E) = b[E]
  BY <1>0, SumIsSum
<1>3. b[E] = w[x] + b[E \ {x}]
  BY <1>0, <1>2, AnyOrder
<1>4. E \ {x} = D
  OBVIOUS
<1>5. a[D] = b[D]
  BY <1>1, <1>2, SumsAgree
<1>6. a[D] \in Nat /\ w[x] \in Nat
  BY <1>1, SumsAreNat
<1>7. SumFunctionOnSet(w, E) = SumFunctionOnSet(w, D) + w[x]
  <2>1. b[E] = w[x] + a[D]
    BY <1>3, <1>4, <1>5
  <2>2. w[x] + a[D] = a[D] + w[x]
    BY <1>6
  <2> QED
    BY <1>1, <1>2, <2>1, <2>2
<1> QED
  BY <1>1, <1>6, <1>7

(* One term that is new, or larger than it was.                             *)
LEMMA SumGrows ==
  ASSUME NEW D, IsFiniteSet(D), NEW w, \A y \in D : w[y] \in Nat, NEW x, NEW n \in Nat,
         NEW v, \A y \in D \ {x} : v[y] = w[y], v[x] = (IF x \in D THEN w[x] ELSE 0) + n
  PROVE  /\ SumFunctionOnSet(w, D) \in Nat
         /\ SumFunctionOnSet(v, D \cup {x}) = SumFunctionOnSet(w, D) + n
<1> DEFINE E == D \ {x}
<1>1. IsFiniteSet(E) /\ x \notin E /\ D \cup {x} = E \cup {x}
  BY FS_Subset
<1>2. v[x] \in Nat /\ \A y \in E : v[y] = w[y] /\ w[y] \in Nat
  OBVIOUS
<1>3. SumFunctionOnSet(v, E) = SumFunctionOnSet(w, E)
  BY <1>1, <1>2, SumAgrees
<1>4. /\ SumFunctionOnSet(v, E) \in Nat
      /\ SumFunctionOnSet(v, E \cup {x}) = SumFunctionOnSet(v, E) + v[x]
  BY <1>1, <1>2, SumAdd
<1>5. CASE x \in D
  <2>1. E \cup {x} = D /\ w[x] \in Nat /\ v[x] = w[x] + n
    BY <1>5
  <2>2. SumFunctionOnSet(w, E \cup {x}) = SumFunctionOnSet(w, E) + w[x]
    BY <1>1, <1>2, <2>1, SumAdd
  <2>3. SumFunctionOnSet(w, D) = SumFunctionOnSet(v, E) + w[x]
    BY <1>3, <2>1, <2>2
  <2> QED
    BY <1>1, <1>4, <2>1, <2>3
<1>6. CASE x \notin D
  <2>1. E = D /\ v[x] = n
    BY <1>6
  <2> QED
    BY <1>1, <1>3, <1>4, <2>1
<1> QED
  BY <1>5, <1>6
=============================================================================
