------------------------------ MODULE RxPathProofs ------------------------------
(***************************************************************************)
(* Proofs about the buffers of RxPath and the reassembly of IpReass, for   *)
(* every size of the pool and of datagrams, every number of connections,   *)
(* ARP entries and entries of reassembly, and every limit of age.          *)
(***************************************************************************)
EXTENDS RxPath, FiniteSetTheorems, SequenceTheorems, WellFoundedInduction, TLAPS

-----------------------------------------------------------------------------
(* Folds over a finite set, which take the elements in the order Pick      *)
(* gives: F says what an element adds to the result of the others.         *)

Pick(s) == CHOOSE x \in s : TRUE

IsFold(g, S, base, F) ==
  g = [s \in SUBSET S |-> IF s = {} THEN base ELSE F[<<s, g[s \ {Pick(s)}]>>]]

\* A set of naturals has a least member.
LEMMA LeastElement ==
  ASSUME NEW T, T \subseteq Nat, T # {}
  PROVE  \E i \in T : \A j \in T : i <= j
<1>1. PICK i \in T : \A j \in T : <<j, i>> \notin OpToRel(<, Nat)
  BY NatLessThanWellFounded, WFMin
<1>2. \A j \in T : ~(j < i)
  BY <1>1 DEF OpToRel
<1> QED BY <1>2

\* What Pick takes out of a finite set.
LEMMA PickFacts ==
  ASSUME NEW S, IsFiniteSet(S), NEW s \in SUBSET S, s # {}
  PROVE  /\ Pick(s) \in s /\ Pick(s) \in S
         /\ s \ {Pick(s)} \in SUBSET S
         /\ IsFiniteSet(s) /\ Cardinality(s) \in Nat /\ Cardinality(s) >= 1
         /\ Cardinality(s \ {Pick(s)}) = Cardinality(s) - 1
<1>1. Pick(s) \in s
  BY DEF Pick
<1>2. IsFiniteSet(s)
  BY FS_Subset
<1>3. Cardinality(s) \in Nat /\ Cardinality(s) # 0
  BY <1>2, FS_CardinalityType, FS_EmptySet
<1>4. Cardinality(s \ {Pick(s)}) = Cardinality(s) - 1
  BY <1>1, <1>2, FS_RemoveElement
<1> QED BY <1>1, <1>2, <1>3, <1>4

\* Of some subsets of a finite set, one has no smaller one among them.
LEMMA SmallestSet ==
  ASSUME NEW S, IsFiniteSet(S), NEW B, B \subseteq SUBSET S, B # {}
  PROVE  \E s \in B : \A c \in s : s \ {c} \notin B
<1> DEFINE N == {Cardinality(s) : s \in B}
<1>1. N \subseteq Nat /\ N # {}
  <2>1. \A s \in SUBSET S : Cardinality(s) \in Nat
    BY FS_Subset, FS_CardinalityType
  <2> QED BY <2>1
<1>2. PICK n \in N : \A k \in N : n <= k
  BY <1>1, LeastElement
<1>3. PICK s \in B : Cardinality(s) = n
  BY <1>2
<1>4. ASSUME NEW c \in s, s \ {c} \in B PROVE FALSE
  <2>1. Cardinality(s \ {c}) \in N
    BY <1>4
  <2>2. IsFiniteSet(s)
    BY FS_Subset
  <2>3. Cardinality(s \ {c}) = Cardinality(s) - 1 /\ Cardinality(s) \in Nat
    BY <2>2, FS_RemoveElement, FS_CardinalityType
  <2> HIDE DEF N
  <2> QED BY <1>2, <1>3, <2>1, <2>3
<1> QED BY <1>4

\* What one element after the other preserves holds of the whole fold.
LEMMA FoldStays ==
  ASSUME NEW S, IsFiniteSet(S), NEW T, NEW g, g[{}] \in T[{}],
         \A s \in SUBSET S :
           s # {} /\ g[s \ {Pick(s)}] \in T[s \ {Pick(s)}] => g[s] \in T[s]
  PROVE  \A s \in SUBSET S : g[s] \in T[s]
<1> DEFINE B == {s \in SUBSET S : g[s] \notin T[s]}
<1> SUFFICES ASSUME B # {} PROVE FALSE
  OBVIOUS
<1>1. PICK s \in B : \A c \in s : s \ {c} \notin B
  BY SmallestSet
<1>2. s # {}
  BY <1>1
<1>3. Pick(s) \in s /\ s \ {Pick(s)} \in SUBSET S
  BY <1>1, <1>2, PickFacts
<1>4. s \ {Pick(s)} \notin B
  BY <1>1, <1>3
<1> QED BY <1>1, <1>2, <1>3, <1>4

\* The function that a fold computes exists.
LEMMA FoldExists ==
  ASSUME NEW S, IsFiniteSet(S), NEW base, NEW F
  PROVE  \E g : IsFold(g, S, base, F)
<1> DEFINE L(k) == {s \in SUBSET S : Cardinality(s) <= k}
           Upto(k, g) == g = [s \in L(k) |-> IF s = {} THEN base ELSE F[<<s, g[s \ {Pick(s)}]>>]]
           B == {k \in Nat : ~\E g : Upto(k, g)}
<1>1. B = {}
  <2> SUFFICES ASSUME B # {} PROVE FALSE
    OBVIOUS
  <2>1. PICK k \in B : \A j \in B : k <= j
    BY LeastElement
  <2>2. CASE k = 0
    <3>1. \A s \in L(0) : s = {}
      <4> SUFFICES ASSUME NEW s \in L(0), s # {} PROVE FALSE
        OBVIOUS
      <4>1. Cardinality(s) \in Nat /\ Cardinality(s) >= 1
        BY PickFacts
      <4> QED BY <4>1
    <3>2. Upto(0, [s \in L(0) |-> base])
      BY <3>1
    <3> QED BY <2>1, <2>2, <3>2
  <2>3. CASE k # 0
    <3>1. k \in Nat /\ k - 1 \in Nat /\ ~(k <= k - 1)
      BY <2>1, <2>3
    <3>2. PICK g : Upto(k - 1, g)
      BY <2>1, <3>1
    <3> DEFINE f == [s \in L(k) |-> IF s = {} THEN base ELSE F[<<s, g[s \ {Pick(s)}]>>]]
    <3>3. \A s \in L(k - 1) : s \in L(k) /\ f[s] = g[s]
      <4>1. \A s \in L(k - 1) : s \in L(k)
        <5>1. \A s \in SUBSET S : Cardinality(s) \in Nat
          BY FS_Subset, FS_CardinalityType
        <5> QED BY <3>1, <5>1
      <4>2. \A s \in L(k - 1) : g[s] = IF s = {} THEN base ELSE F[<<s, g[s \ {Pick(s)}]>>]
        BY <3>2
      <4> QED BY <4>1, <4>2
    <3>4. \A s \in L(k) : s # {} => f[s \ {Pick(s)}] = g[s \ {Pick(s)}]
      <4> SUFFICES ASSUME NEW s \in L(k), s # {} PROVE s \ {Pick(s)} \in L(k - 1)
        BY <3>3
      <4>1. s \ {Pick(s)} \in SUBSET S /\ Cardinality(s \ {Pick(s)}) = Cardinality(s) - 1
            /\ Cardinality(s) \in Nat
        BY PickFacts
      <4> QED BY <3>1, <4>1
    <3>5. f = [s \in L(k) |-> IF s = {} THEN base ELSE F[<<s, f[s \ {Pick(s)}]>>]]
      BY <3>4
    <3> HIDE DEF f
    <3>6. Upto(k, f)
      BY <3>5
    <3> QED BY <2>1, <3>6
  <2> QED BY <2>2, <2>3
<1>2. Cardinality(S) \in Nat /\ L(Cardinality(S)) = SUBSET S
  BY FS_CardinalityType, FS_Subset
<1>3. \E g : Upto(Cardinality(S), g)
  BY <1>1, <1>2
<1> QED BY <1>2, <1>3 DEF IsFold

\* The fold of a set, by its first element.
LEMMA FoldPoint ==
  ASSUME NEW S, IsFiniteSet(S), NEW T, NEW base \in T[{}], NEW F,
         \A s \in SUBSET S : s # {} => \A v \in T[s \ {Pick(s)}] : F[<<s, v>>] \in T[s]
  PROVE  \E g : /\ IsFold(g, S, base, F)
                /\ \A s \in SUBSET S : g[s] \in T[s]
<1>1. PICK g : IsFold(g, S, base, F)
  BY FoldExists
<1>2. g[{}] = base
  <2>1. {} \in SUBSET S
    OBVIOUS
  <2> QED BY <1>1, <2>1 DEF IsFold
<1>3. \A s \in SUBSET S : s # {} => g[s] = F[<<s, g[s \ {Pick(s)}]>>]
  BY <1>1 DEF IsFold
<1>4. \A s \in SUBSET S : s # {} /\ g[s \ {Pick(s)}] \in T[s \ {Pick(s)}] => g[s] \in T[s]
  BY <1>3
<1>5. \A s \in SUBSET S : g[s] \in T[s]
  BY <1>2, <1>4, FoldStays
<1> QED BY <1>1, <1>5

-----------------------------------------------------------------------------
(* Sums over a finite set.                                                 *)

IsSum(g, f, S) ==
  g = [s \in SUBSET S |-> IF s = {} THEN 0 ELSE f[Pick(s)] + g[s \ {Pick(s)}]]

Total(f, S) == (CHOOSE g : IsSum(g, f, S))[S]

\* There is a function of the sums of all subsets.
LEMMA SumExists ==
  ASSUME NEW S, IsFiniteSet(S), NEW f, \A c \in S : f[c] \in Nat
  PROVE  \E g : IsSum(g, f, S)
<1> DEFINE T == [s \in SUBSET S |-> Nat]
           F == [x \in (SUBSET S) \X Nat |-> f[Pick(x[1])] + x[2]]
<1>1. \A s \in SUBSET S : s # {} =>
        \A v \in Nat : F[<<s, v>>] = f[Pick(s)] + v /\ F[<<s, v>>] \in Nat
  <2> SUFFICES ASSUME NEW s \in SUBSET S, s # {}, NEW v \in Nat
               PROVE  F[<<s, v>>] = f[Pick(s)] + v /\ F[<<s, v>>] \in Nat
    OBVIOUS
  <2>1. f[Pick(s)] \in Nat
    BY PickFacts
  <2>2. F[<<s, v>>] = f[Pick(s)] + v
    OBVIOUS
  <2> QED BY <2>1, <2>2
<1>2. \A s \in SUBSET S : T[s] = Nat /\ T[s \ {Pick(s)}] = Nat
  OBVIOUS
<1>3. 0 \in T[{}] /\ \A s \in SUBSET S : s # {} => \A v \in T[s \ {Pick(s)}] : F[<<s, v>>] \in T[s]
  BY <1>1, <1>2
<1> HIDE DEF T, F
<1>4. PICK g : IsFold(g, S, 0, F) /\ \A s \in SUBSET S : g[s] \in T[s]
  BY <1>3, FoldPoint
<1>5. \A s \in SUBSET S : s # {} => F[<<s, g[s \ {Pick(s)}]>>] = f[Pick(s)] + g[s \ {Pick(s)}]
  <2> SUFFICES ASSUME NEW s \in SUBSET S, s # {}
               PROVE  F[<<s, g[s \ {Pick(s)}]>>] = f[Pick(s)] + g[s \ {Pick(s)}]
    OBVIOUS
  <2>1. s \ {Pick(s)} \in SUBSET S
    OBVIOUS
  <2>2. g[s \ {Pick(s)}] \in Nat
    BY <1>2, <1>4, <2>1
  <2> QED BY <1>1, <2>2
<1>6. IsSum(g, f, S)
  BY <1>4, <1>5 DEF IsFold, IsSum
<1> QED BY <1>6

\* A sum, by the first element.
LEMMA SumPoint ==
  ASSUME NEW S, NEW f, NEW g, IsSum(g, f, S)
  PROVE  /\ g[{}] = 0
         /\ \A s \in SUBSET S : s # {} => g[s] = f[Pick(s)] + g[s \ {Pick(s)}]
<1>1. {} \in SUBSET S
  OBVIOUS
<1> QED BY <1>1 DEF IsSum

\* Sums of naturals are naturals.
LEMMA SumNat ==
  ASSUME NEW S, IsFiniteSet(S), NEW f, \A c \in S : f[c] \in Nat, NEW g, IsSum(g, f, S)
  PROVE  \A s \in SUBSET S : g[s] \in Nat
<1> DEFINE T == [s \in SUBSET S |-> Nat]
<1>1. \A s \in SUBSET S : T[s] = Nat
  OBVIOUS
<1>2. g[{}] \in T[{}]
  BY <1>1, SumPoint
<1>3. ASSUME NEW s \in SUBSET S, s # {}, g[s \ {Pick(s)}] \in T[s \ {Pick(s)}]
      PROVE  g[s] \in T[s]
  <2>1. g[s \ {Pick(s)}] \in Nat /\ f[Pick(s)] \in Nat
    BY <1>1, <1>3, PickFacts
  <2>2. g[s] = f[Pick(s)] + g[s \ {Pick(s)}]
    <3>1. \A r \in SUBSET S : r # {} => g[r] = f[Pick(r)] + g[r \ {Pick(r)}]
      BY SumPoint
    <3> QED BY <1>3, <3>1
  <2> QED BY <1>1, <2>1, <2>2
<1> HIDE DEF T
<1>4. \A s \in SUBSET S : g[s] \in T[s]
  BY <1>2, <1>3, FoldStays
<1> QED BY <1>1, <1>4

\* Sums depend on the terms alone.
LEMMA SumSame ==
  ASSUME NEW S, IsFiniteSet(S), NEW R, NEW f, NEW e, \A c \in S \cap R : f[c] = e[c],
         NEW g, IsSum(g, f, S), NEW h, IsSum(h, e, R)
  PROVE  \A s \in SUBSET (S \cap R) : g[s] = h[s]
<1> DEFINE U == S \cap R
           T == [s \in SUBSET U |-> {h[s]}]
<1>1. IsFiniteSet(U)
  BY FS_Subset
<1>2. \A s \in SUBSET U : T[s] = {h[s]}
  OBVIOUS
<1>3. g[{}] \in T[{}]
  <2>1. {} \in SUBSET U
    OBVIOUS
  <2>2. g[{}] = 0 /\ h[{}] = 0
    BY SumPoint
  <2> QED BY <1>2, <2>1, <2>2
<1>4. ASSUME NEW s \in SUBSET U, s # {}, g[s \ {Pick(s)}] \in T[s \ {Pick(s)}]
      PROVE  g[s] \in T[s]
  <2>1. Pick(s) \in U /\ s \ {Pick(s)} \in SUBSET U
    BY <1>1, <1>4, PickFacts
  <2>2. g[s \ {Pick(s)}] = h[s \ {Pick(s)}] /\ f[Pick(s)] = e[Pick(s)]
    BY <1>2, <1>4, <2>1
  <2>3. g[s] = f[Pick(s)] + g[s \ {Pick(s)}] /\ h[s] = e[Pick(s)] + h[s \ {Pick(s)}]
    <3>1. s \in SUBSET S /\ s \in SUBSET R
      OBVIOUS
    <3>2. \A r \in SUBSET S : r # {} => g[r] = f[Pick(r)] + g[r \ {Pick(r)}]
      BY SumPoint
    <3>3. \A r \in SUBSET R : r # {} => h[r] = e[Pick(r)] + h[r \ {Pick(r)}]
      BY SumPoint
    <3> QED BY <1>4, <3>1, <3>2, <3>3
  <2> QED BY <1>2, <2>2, <2>3
<1> HIDE DEF T
<1>5. \A s \in SUBSET U : g[s] \in T[s]
  BY <1>1, <1>3, <1>4, FoldStays
<1> QED BY <1>2, <1>5

\* Any element may be taken first.
LEMMA SumAny ==
  ASSUME NEW S, IsFiniteSet(S), NEW f, \A c \in S : f[c] \in Nat, NEW g, IsSum(g, f, S)
  PROVE  \A s \in SUBSET S : \A c \in s : g[s] = f[c] + g[s \ {c}]
<1> DEFINE B == {s \in SUBSET S : ~\A c \in s : g[s] = f[c] + g[s \ {c}]}
<1> SUFFICES ASSUME B # {} PROVE FALSE
  OBVIOUS
<1>1. PICK s \in B : \A c \in s : s \ {c} \notin B
  BY SmallestSet
<1>2. PICK c \in s : g[s] # f[c] + g[s \ {c}]
  BY <1>1
<1> DEFINE x == Pick(s)
           r == s \ {c, x}
<1>3. s \in SUBSET S /\ s # {} /\ x \in s /\ x \in S /\ c \in S
  BY <1>1, <1>2, PickFacts
<1>4. g[s] = f[x] + g[s \ {x}]
  BY <1>3, SumPoint
<1>5. c # x
  BY <1>2, <1>4
<1> HIDE DEF x
<1>6. g[s \ {x}] = f[c] + g[r]
  <2>1. s \ {x} \notin B /\ s \ {x} \in SUBSET S /\ c \in s \ {x} /\ (s \ {x}) \ {c} = r
    BY <1>1, <1>3, <1>5
  <2> QED BY <2>1
<1>7. g[s \ {c}] = f[x] + g[r]
  <2>1. s \ {c} \notin B /\ s \ {c} \in SUBSET S /\ x \in s \ {c} /\ (s \ {c}) \ {x} = r
    BY <1>1, <1>2, <1>3, <1>5
  <2> QED BY <2>1
<1>8. g[r] \in Nat /\ f[x] \in Nat /\ f[c] \in Nat
  <2>1. r \in SUBSET S
    BY <1>3
  <2> QED BY <1>3, <2>1, SumNat
<1> HIDE DEF r
<1> QED BY <1>2, <1>4, <1>6, <1>7, <1>8

\* A total is the value of such a function.
LEMMA TotalIs ==
  ASSUME NEW S, IsFiniteSet(S), NEW f, \A c \in S : f[c] \in Nat
  PROVE  \E g : IsSum(g, f, S) /\ Total(f, S) = g[S]
<1> DEFINE g == CHOOSE g : IsSum(g, f, S)
<1>1. IsSum(g, f, S)
  BY SumExists
<1> QED BY <1>1 DEF Total

\* A total is a natural, and any element can be taken out of it.
LEMMA TotalFacts ==
  ASSUME NEW S, IsFiniteSet(S), NEW f, \A c \in S : f[c] \in Nat
  PROVE  /\ Total(f, S) \in Nat
         /\ \A c \in S : /\ Total(f, S \ {c}) \in Nat
                         /\ Total(f, S) = f[c] + Total(f, S \ {c})
<1>1. PICK g : IsSum(g, f, S) /\ Total(f, S) = g[S]
  BY TotalIs
<1>2. Total(f, S) \in Nat
  BY <1>1, SumNat
<1>3. ASSUME NEW c \in S PROVE Total(f, S \ {c}) \in Nat /\ Total(f, S) = f[c] + Total(f, S \ {c})
  <2> DEFINE R == S \ {c}
  <2>1. IsFiniteSet(R) /\ R \in SUBSET S /\ S \cap R = R /\ R \in SUBSET (S \cap R)
    BY FS_RemoveElement
  <2>2. PICK h : IsSum(h, f, R) /\ Total(f, R) = h[R]
    BY <2>1, TotalIs
  <2>3. g[R] = h[R]
    BY <1>1, <2>1, <2>2, SumSame
  <2>4. g[S] = f[c] + g[R]
    BY <1>1, SumAny
  <2>5. g[R] \in Nat
    BY <1>1, <2>1, SumNat
  <2> QED BY <1>1, <2>2, <2>3, <2>4, <2>5
<1> QED BY <1>2, <1>3

\* Nothing adds up to nothing.
LEMMA TotalEmpty ==
  ASSUME NEW f PROVE Total(f, {}) = 0
<1>1. IsFiniteSet({})
  BY FS_EmptySet
<1>2. PICK g : IsSum(g, f, {}) /\ Total(f, {}) = g[{}]
  BY <1>1, TotalIs
<1> QED BY <1>2, SumPoint

\* Equal terms make equal totals.
LEMMA TotalSame ==
  ASSUME NEW S, IsFiniteSet(S), NEW f, NEW e,
         \A c \in S : f[c] \in Nat /\ e[c] = f[c]
  PROVE  Total(e, S) = Total(f, S)
<1>1. PICK g : IsSum(g, f, S) /\ Total(f, S) = g[S]
  BY TotalIs
<1>2. PICK h : IsSum(h, e, S) /\ Total(e, S) = h[S]
  BY TotalIs
<1>3. \A c \in S \cap S : f[c] = e[c]
  OBVIOUS
<1>4. \A s \in SUBSET (S \cap S) : g[s] = h[s]
  BY <1>1, <1>2, <1>3, SumSame
<1> QED BY <1>1, <1>2, <1>4

\* A sum is not less than any of its terms.
LEMMA TotalTerm ==
  ASSUME NEW S, IsFiniteSet(S), NEW f, \A c \in S : f[c] \in Nat, NEW c \in S
  PROVE  Total(f, S) >= f[c]
<1>1. Total(f, S \ {c}) \in Nat /\ Total(f, S) = f[c] + Total(f, S \ {c}) /\ f[c] \in Nat
  BY TotalFacts
<1> QED BY <1>1

\* Part of a set and the rest of it.
LEMMA TotalSplit ==
  ASSUME NEW S, IsFiniteSet(S), NEW f, \A c \in S : f[c] \in Nat, NEW R \in SUBSET S
  PROVE  /\ Total(f, S) = Total(f, R) + Total(f, S \ R)
         /\ Total(f, R) \in Nat /\ Total(f, S \ R) \in Nat
<1> DEFINE B == {s \in SUBSET R : Total(f, S) # Total(f, s) + Total(f, S \ s)}
<1>1. \A s \in SUBSET S : IsFiniteSet(s) /\ (\A c \in s : f[c] \in Nat) /\ Total(f, s) \in Nat
  <2> SUFFICES ASSUME NEW s \in SUBSET S
               PROVE  IsFiniteSet(s) /\ (\A c \in s : f[c] \in Nat) /\ Total(f, s) \in Nat
    OBVIOUS
  <2>1. IsFiniteSet(s) /\ \A c \in s : f[c] \in Nat
    BY FS_Subset
  <2> QED BY <2>1, TotalFacts
<1>2. B = {}
  <2> SUFFICES ASSUME B # {} PROVE FALSE
    OBVIOUS
  <2>1. IsFiniteSet(R) /\ B \subseteq SUBSET R
    BY <1>1
  <2>2. PICK s \in B : \A c \in s : s \ {c} \notin B
    BY <2>1, SmallestSet
  <2>3. s # {}
    <3>1. S \ {} = S /\ Total(f, {}) = 0 /\ Total(f, S) \in Nat
      BY <1>1, TotalEmpty
    <3> QED BY <2>2, <3>1
  <2>4. PICK c \in s : TRUE
    BY <2>3
  <2> DEFINE r == s \ {c}
  <2>5. /\ r \in SUBSET R /\ r \notin B /\ s \in SUBSET S /\ r \in SUBSET S
        /\ S \ s \in SUBSET S /\ S \ r \in SUBSET S /\ (S \ r) \ {c} = S \ s
        /\ c \in S \ r /\ c \in S
    BY <2>2, <2>4
  <2>6. Total(f, S) = Total(f, r) + Total(f, S \ r)
    BY <2>5
  <2>7. Total(f, s) = f[c] + Total(f, r)
    BY <1>1, <2>4, <2>5, TotalFacts
  <2>8. Total(f, S \ r) = f[c] + Total(f, S \ s)
    <3> DEFINE q == S \ r
    <3>1. IsFiniteSet(q) /\ (\A d \in q : f[d] \in Nat) /\ c \in q
      BY <1>1, <2>5
    <3> HIDE DEF q
    <3>2. Total(f, q) = f[c] + Total(f, q \ {c})
      BY <3>1, TotalFacts
    <3> QED BY <2>5, <3>2 DEF q
  <2>9. f[c] \in Nat /\ Total(f, r) \in Nat /\ Total(f, S \ s) \in Nat
    BY <1>1, <2>5
  <2> HIDE DEF r
  <2> QED BY <2>2, <2>6, <2>7, <2>8, <2>9
<1>3. R \notin B /\ S \ R \in SUBSET S
  BY <1>2
<1> QED BY <1>1, <1>3

\* Larger terms make a larger sum.
LEMMA TotalGrows ==
  ASSUME NEW S, IsFiniteSet(S), NEW f, NEW e,
         \A c \in S : f[c] \in Nat /\ e[c] \in Nat /\ f[c] <= e[c]
  PROVE  Total(f, S) <= Total(e, S)
<1> DEFINE B == {s \in SUBSET S : ~(Total(f, s) <= Total(e, s))}
<1>1. \A s \in SUBSET S : /\ IsFiniteSet(s)
                          /\ \A c \in s : f[c] \in Nat /\ e[c] \in Nat /\ f[c] <= e[c]
                          /\ Total(f, s) \in Nat /\ Total(e, s) \in Nat
  <2> SUFFICES ASSUME NEW s \in SUBSET S
               PROVE  /\ IsFiniteSet(s)
                      /\ \A c \in s : f[c] \in Nat /\ e[c] \in Nat /\ f[c] <= e[c]
                      /\ Total(f, s) \in Nat /\ Total(e, s) \in Nat
    OBVIOUS
  <2>1. IsFiniteSet(s) /\ \A c \in s : f[c] \in Nat /\ e[c] \in Nat /\ f[c] <= e[c]
    BY FS_Subset
  <2>2. Total(f, s) \in Nat
    BY <2>1, TotalFacts
  <2>3. Total(e, s) \in Nat
    BY <2>1, TotalFacts
  <2> QED BY <2>1, <2>2, <2>3
<1>2. B = {}
  <2> SUFFICES ASSUME B # {} PROVE FALSE
    OBVIOUS
  <2>1. PICK s \in B : \A c \in s : s \ {c} \notin B
    BY SmallestSet
  <2>2. s # {}
    BY <2>1, TotalEmpty
  <2>3. PICK c \in s : TRUE
    BY <2>2
  <2> DEFINE r == s \ {c}
  <2>4. r \in SUBSET S /\ r \notin B /\ s \in SUBSET S /\ c \in s
    BY <2>1, <2>3
  <2>5. Total(f, s) = f[c] + Total(f, r)
    BY <1>1, <2>4, TotalFacts
  <2>6. Total(e, s) = e[c] + Total(e, r)
    BY <1>1, <2>4, TotalFacts
  <2>7. Total(f, r) <= Total(e, r) /\ Total(f, r) \in Nat /\ Total(e, r) \in Nat
    BY <1>1, <2>4
  <2>8. f[c] \in Nat /\ e[c] \in Nat /\ f[c] <= e[c]
    BY <1>1, <2>4
  <2> HIDE DEF r
  <2> QED BY <2>1, <2>5, <2>6, <2>7, <2>8
<1> QED BY <1>2

\* One term changes.
DiffersAt(f, e, S, a) ==
  \A c \in S : f[c] \in Nat /\ e[c] \in Nat /\ (c # a => e[c] = f[c])

\* Two sums with one different term have the rest in common.
LEMMA TotalChange ==
  ASSUME NEW S, IsFiniteSet(S), NEW f, NEW e, NEW a \in S,
         DiffersAt(f, e, S, a)
  PROVE  \E x \in Nat : Total(f, S) = f[a] + x /\ Total(e, S) = e[a] + x
<1> DEFINE R == S \ {a}
<1>0. \A c \in S : f[c] \in Nat /\ e[c] \in Nat /\ (c # a => e[c] = f[c])
  BY DEF DiffersAt
<1>1. IsFiniteSet(R) /\ \A c \in R : f[c] \in Nat /\ e[c] = f[c]
  BY <1>0, FS_RemoveElement
<1>2. Total(e, R) = Total(f, R)
  BY <1>1, TotalSame
<1>3. Total(f, R) \in Nat /\ Total(f, S) = f[a] + Total(f, R)
  BY <1>0, TotalFacts
<1>4. Total(e, S) = e[a] + Total(e, R)
  BY <1>0, TotalFacts
<1>5. f[a] \in Nat /\ e[a] \in Nat
  BY <1>0
<1> HIDE DEF R
<1> QED BY <1>2, <1>3, <1>4, <1>5

\* What the holders of q hold.
NOf(q) == [x \in DOMAIN q |-> q[x].n]

\* HeldIn is a sum over the holders.
LEMMA HeldInTotal ==
  ASSUME NEW q, IsFiniteSet(DOMAIN q), \A x \in DOMAIN q : q[x].n \in Nat
  PROVE  HeldIn(q) = Total(NOf(q), DOMAIN q) /\ HeldIn(q) \in Nat
<1> DEFINE S == DOMAIN q
           f == NOf(q)
           G(g) == g = [s \in SUBSET S |->
                          IF s = {} THEN 0 ELSE q[Pick(s)].n + g[s \ {Pick(s)}]]
<1>1. \A c \in S : f[c] = q[c].n /\ f[c] \in Nat
  BY DEF NOf
<1>2. \A s \in SUBSET S : s # {} => f[Pick(s)] = q[Pick(s)].n
  BY <1>1, PickFacts
<1>3. PICK g : IsSum(g, f, S) /\ Total(f, S) = g[S]
  BY <1>1, TotalIs
<1>4. G(g)
  BY <1>2, <1>3 DEF IsSum
<1> DEFINE h == CHOOSE h : G(h)
<1>5. G(h)
  BY <1>4
<1>6. HeldIn(q) = h[S]
  BY DEF HeldIn, MapThenSumSet, MapThenFoldSet, Pick
<1> HIDE DEF h
<1>7. IsSum(h, f, S)
  BY <1>2, <1>5 DEF IsSum
<1>8. \A s \in SUBSET (S \cap S) : g[s] = h[s]
  BY <1>3, <1>7, SumSame
<1>9. g[S] = h[S]
  BY <1>8
<1>10. Total(f, S) \in Nat
  BY <1>1, TotalFacts
<1> QED BY <1>3, <1>6, <1>9, <1>10

-----------------------------------------------------------------------------
(* Fragments, and the buffers they hold.                                   *)

FlenOf == [f \in Fragments |-> f.end - f.start]

\* A fragment has a length, of one buffer at least.
LEMMA FragmentFacts ==
  ASSUME NEW f \in Fragments
  PROVE  /\ f.start \in 0 .. Size - 1 /\ f.end \in 1 .. Size /\ f.start < f.end
         /\ FlenOf[f] = f.end - f.start /\ FlenOf[f] \in Nat /\ FlenOf[f] >= 1
<1>1. f.start \in 0 .. Size - 1 /\ f.end \in 1 .. Size /\ f.start < f.end
  BY DEF Fragments
<1>2. Size \in Nat
  BY ReassConstantsOK
<1>3. FlenOf[f] = f.end - f.start
  BY DEF FlenOf
<1> QED BY <1>1, <1>2, <1>3

\* A datagram can be cut in finitely many ways.
LEMMA FragmentsFinite == IsFiniteSet(Fragments)
<1> DEFINE A == 0 .. Size - 1
           B == 1 .. Size
           P == A \X B
           h == [f \in Fragments |-> <<f.start, f.end>>]
<1>1. IsFiniteSet(A) /\ IsFiniteSet(B)
  BY ReassConstantsOK, FS_Interval
<1>2. \A f \in Fragments : /\ f.start \in A /\ f.end \in B
                           /\ f = [start |-> f.start, end |-> f.end]
  BY DEF Fragments
<1> HIDE DEF A, B
<1>3. IsFiniteSet(P)
  BY <1>1, FS_Product
<1>4. h \in [Fragments -> P]
  BY <1>2
<1>5. \A f, g \in Fragments : h[f] = h[g] => f = g
  <2> SUFFICES ASSUME NEW f \in Fragments, NEW g \in Fragments, h[f] = h[g] PROVE f = g
    OBVIOUS
  <2>1. <<f.start, f.end>> = <<g.start, g.end>>
    OBVIOUS
  <2>2. f.start = g.start /\ f.end = g.end
    BY <2>1
  <2> QED BY <1>2, <2>2
<1> HIDE DEF h, P
<1>6. h \in Injection(Fragments, P)
  BY <1>4, <1>5 DEF Injection, IsInjective
<1> QED BY <1>3, <1>6, FS_Injection

\* The buffers of some fragments are the sum of their lengths.
LEMMA ClenTotal ==
  ASSUME NEW S \in SUBSET Fragments
  PROVE  /\ IsFiniteSet(S) /\ \A f \in S : FlenOf[f] \in Nat
         /\ Clen(S) = Total(FlenOf, S) /\ Clen(S) \in Nat
<1> DEFINE G(g) == g = [s \in SUBSET S |->
                          IF s = {} THEN 0
                          ELSE (Pick(s).end - Pick(s).start) + g[s \ {Pick(s)}]]
<1>1. IsFiniteSet(S) /\ \A f \in S : FlenOf[f] = f.end - f.start /\ FlenOf[f] \in Nat
  BY FragmentsFinite, FragmentFacts, FS_Subset
<1>2. \A s \in SUBSET S : s # {} => FlenOf[Pick(s)] = Pick(s).end - Pick(s).start
  BY <1>1, PickFacts
<1>3. PICK g : IsSum(g, FlenOf, S) /\ Total(FlenOf, S) = g[S]
  BY <1>1, TotalIs
<1>4. G(g)
  BY <1>2, <1>3 DEF IsSum
<1> DEFINE h == CHOOSE h : G(h)
<1>5. G(h)
  BY <1>4
<1>6. Clen(S) = h[S]
  BY DEF Clen, MapThenSumSet, MapThenFoldSet, Pick
<1> HIDE DEF h
<1>7. IsSum(h, FlenOf, S)
  BY <1>2, <1>5 DEF IsSum
<1>8. \A s \in SUBSET (S \cap S) : g[s] = h[s]
  BY <1>1, <1>3, <1>7, SumSame
<1>9. g[S] = h[S]
  BY <1>8
<1>10. Total(FlenOf, S) \in Nat
  BY <1>1, TotalFacts
<1> QED BY <1>1, <1>3, <1>6, <1>9, <1>10

\* One fragment more.
LEMMA ClenMore ==
  ASSUME NEW S \in SUBSET Fragments, NEW f \in Fragments, f \notin S
  PROVE  /\ Clen(S \cup {f}) = Clen(S) + Clen({f})
         /\ Clen({f}) \in Nat /\ Clen({f}) >= 1
<1> DEFINE T == S \cup {f}
<1>1. T \in SUBSET Fragments /\ f \in T /\ T \ {f} = S /\ {f} \in SUBSET Fragments
  OBVIOUS
<1> HIDE DEF T
<1>2. Clen(T) = FlenOf[f] + Clen(S)
  <2>1. IsFiniteSet(T) /\ (\A g \in T : FlenOf[g] \in Nat) /\ Clen(T) = Total(FlenOf, T)
    BY <1>1, ClenTotal
  <2>2. Total(FlenOf, T) = FlenOf[f] + Total(FlenOf, T \ {f})
    BY <1>1, <2>1, TotalFacts
  <2>3. Clen(S) = Total(FlenOf, S)
    BY ClenTotal
  <2> QED BY <1>1, <2>1, <2>2, <2>3
<1>3. Clen({f}) = FlenOf[f]
  <2> DEFINE U == {f}
  <2>1. IsFiniteSet(U) /\ (\A g \in U : FlenOf[g] \in Nat) /\ Clen(U) = Total(FlenOf, U)
    BY <1>1, ClenTotal
  <2>2. f \in U /\ U \ {f} = {}
    OBVIOUS
  <2> HIDE DEF U
  <2>3. Total(FlenOf, U) = FlenOf[f] + Total(FlenOf, U \ {f})
    BY <2>1, <2>2, TotalFacts
  <2>4. Clen(U) = FlenOf[f] + 0
    BY <2>1, <2>2, <2>3, TotalEmpty
  <2>5. FlenOf[f] \in Nat
    BY FragmentFacts
  <2>6. Clen(U) = FlenOf[f]
    BY <2>4, <2>5
  <2> QED BY <2>6 DEF U
<1>4. FlenOf[f] \in Nat /\ FlenOf[f] >= 1 /\ Clen(S) \in Nat
  BY FragmentFacts, ClenTotal
<1> QED BY <1>2, <1>3, <1>4 DEF T

\* No fragments, no buffers.
LEMMA ClenNone == Clen({}) = 0
<1>1. {} \in SUBSET Fragments
  OBVIOUS
<1>2. Clen({}) = Total(FlenOf, {})
  BY <1>1, ClenTotal
<1> QED BY <1>2, TotalEmpty

-----------------------------------------------------------------------------
(* Lists of datagrams, and the buffers they hold.                          *)

LensOf(l) == [i \in DOMAIN l |-> Clen(l[i].frags)]

\* The fields of a datagram.
LEMMA DatagramFacts ==
  ASSUME NEW d \in Datagrams
  PROVE  /\ d.id \in Ids /\ d.frags \in SUBSET Fragments
         /\ d.timer \in 0 .. ReassMaxAge /\ d.timer \in Nat
         /\ Clen(d.frags) \in Nat
<1>1. d.id \in Ids /\ d.frags \in SUBSET Fragments /\ d.timer \in 0 .. ReassMaxAge
  BY DEF Datagrams
<1> QED BY <1>1, ClenTotal

\* A list of datagrams has finitely many places.
LEMMA ListFacts ==
  ASSUME NEW l \in Seq(Datagrams)
  PROVE  /\ DOMAIN l = 1 .. Len(l) /\ Len(l) \in Nat /\ IsFiniteSet(DOMAIN l)
         /\ \A i \in DOMAIN l : l[i] \in Datagrams
<1>1. DOMAIN l = 1 .. Len(l) /\ Len(l) \in Nat
  BY LenProperties
<1>2. IsFiniteSet(1 .. Len(l))
  BY <1>1, FS_Interval
<1> QED BY <1>1, <1>2, ElementOfSeq

\* The buffers of some datagrams are the sum of those of each.
LEMMA ClensTotal ==
  ASSUME NEW l \in Seq(Datagrams), NEW S \in SUBSET DOMAIN l
  PROVE  /\ IsFiniteSet(S)
         /\ \A i \in S : LensOf(l)[i] = Clen(l[i].frags) /\ LensOf(l)[i] \in Nat
         /\ Clens(l, S) = Total(LensOf(l), S) /\ Clens(l, S) \in Nat
<1> DEFINE f == LensOf(l)
           G(g) == g = [s \in SUBSET S |->
                          IF s = {} THEN 0 ELSE Clen(l[Pick(s)].frags) + g[s \ {Pick(s)}]]
<1>1. IsFiniteSet(S) /\ \A i \in S : f[i] = Clen(l[i].frags) /\ f[i] \in Nat
  <2>1. IsFiniteSet(S)
    BY ListFacts, FS_Subset
  <2>2. ASSUME NEW i \in S PROVE f[i] = Clen(l[i].frags) /\ f[i] \in Nat
    <3>1. l[i] \in Datagrams
      BY ListFacts
    <3>2. f[i] = Clen(l[i].frags)
      BY DEF LensOf
    <3> QED BY <3>1, <3>2, DatagramFacts
  <2> QED BY <2>1, <2>2
<1>2. \A s \in SUBSET S : s # {} => f[Pick(s)] = Clen(l[Pick(s)].frags)
  BY <1>1, PickFacts
<1> HIDE DEF f
<1>3. PICK g : IsSum(g, f, S) /\ Total(f, S) = g[S]
  BY <1>1, TotalIs
<1>4. G(g)
  BY <1>2, <1>3 DEF IsSum
<1> DEFINE h == CHOOSE h : G(h)
<1>5. G(h)
  BY <1>4
<1>6. Clens(l, S) = h[S]
  BY DEF Clens, MapThenSumSet, MapThenFoldSet, Pick
<1> HIDE DEF h
<1>7. IsSum(h, f, S)
  BY <1>2, <1>5 DEF IsSum
<1>8. \A s \in SUBSET (S \cap S) : g[s] = h[s]
  BY <1>1, <1>3, <1>7, SumSame
<1>9. g[S] = h[S]
  BY <1>8
<1>10. Total(f, S) \in Nat
  BY <1>1, TotalFacts
<1> QED BY <1>1, <1>3, <1>6, <1>9, <1>10 DEF f

\* What reassembly holds is a sum over its list.
LEMMA HeldTotal ==
  ASSUME NEW l \in Seq(Datagrams)
  PROVE  /\ ReassHeld(l) = Total(LensOf(l), DOMAIN l) /\ ReassHeld(l) \in Nat
         /\ IsFiniteSet(DOMAIN l)
         /\ \A i \in DOMAIN l : LensOf(l)[i] = Clen(l[i].frags) /\ LensOf(l)[i] \in Nat
<1> DEFINE S == DOMAIN l
<1>1. S \in SUBSET DOMAIN l
  OBVIOUS
<1> HIDE DEF S
<1>2. /\ IsFiniteSet(S)
      /\ \A i \in S : LensOf(l)[i] = Clen(l[i].frags) /\ LensOf(l)[i] \in Nat
      /\ Clens(l, S) = Total(LensOf(l), S) /\ Clens(l, S) \in Nat
  BY <1>1, ClensTotal
<1> QED BY <1>2 DEF S, ReassHeld

\* An empty list holds nothing.
LEMMA HeldNone == ReassHeld(<<>>) = 0
<1>1. <<>> \in Seq(Datagrams) /\ DOMAIN <<>> = {}
  OBVIOUS
<1>2. ReassHeld(<<>>) = Total(LensOf(<<>>), DOMAIN <<>>)
  BY <1>1, HeldTotal
<1> QED BY <1>1, <1>2, TotalEmpty

\* Only the fragments count.
LEMMA HeldSame ==
  ASSUME NEW l \in Seq(Datagrams), NEW m \in Seq(Datagrams), DOMAIN m = DOMAIN l,
         \A i \in DOMAIN l : m[i].frags = l[i].frags
  PROVE  ReassHeld(m) = ReassHeld(l)
<1> DEFINE S == DOMAIN l
           f == LensOf(l)
           e == LensOf(m)
<1>1. \A i \in S : f[i] \in Nat /\ e[i] = f[i]
  BY HeldTotal
<1>2. IsFiniteSet(S) /\ ReassHeld(l) = Total(f, S) /\ ReassHeld(m) = Total(e, S)
  BY HeldTotal
<1> HIDE DEF S, f, e
<1>3. Total(e, S) = Total(f, S)
  BY <1>1, <1>2, TotalSame
<1> QED BY <1>2, <1>3

\* The fragments of one datagram change.
LEMMA HeldChange ==
  ASSUME NEW l \in Seq(Datagrams), NEW m \in Seq(Datagrams), DOMAIN m = DOMAIN l,
         NEW a \in DOMAIN l, \A i \in DOMAIN l : i # a => m[i].frags = l[i].frags
  PROVE  \E x \in Nat : /\ ReassHeld(l) = Clen(l[a].frags) + x
                        /\ ReassHeld(m) = Clen(m[a].frags) + x
<1> DEFINE S == DOMAIN l
           f == LensOf(l)
           e == LensOf(m)
<1>1. /\ \A i \in S : f[i] = Clen(l[i].frags) /\ f[i] \in Nat
      /\ \A i \in S : e[i] = Clen(m[i].frags) /\ e[i] \in Nat
      /\ IsFiniteSet(S) /\ ReassHeld(l) = Total(f, S) /\ ReassHeld(m) = Total(e, S)
  BY HeldTotal
<1>2. \A i \in S : i # a => e[i] = f[i]
  BY <1>1
<1>3. a \in S
  OBVIOUS
<1> HIDE DEF S, f, e
<1>4. DiffersAt(f, e, S, a)
  BY <1>1, <1>2 DEF DiffersAt
<1>5. IsFiniteSet(S)
  BY <1>1
<1>6. PICK x \in Nat : Total(f, S) = f[a] + x /\ Total(e, S) = e[a] + x
  BY <1>3, <1>4, <1>5, TotalChange
<1>7. f[a] = Clen(l[a].frags) /\ e[a] = Clen(m[a].frags)
  BY <1>1, <1>3
<1>8. ReassHeld(l) = f[a] + x /\ ReassHeld(m) = e[a] + x
  BY <1>1, <1>6
<1> QED BY <1>7, <1>8

\* One datagram more, at the end.
LEMMA HeldAppend ==
  ASSUME NEW l \in Seq(Datagrams), NEW d \in Datagrams
  PROVE  ReassHeld(Append(l, d)) = ReassHeld(l) + Clen(d.frags)
<1> DEFINE m == Append(l, d)
           n == Len(l)
           f == LensOf(l)
           e == LensOf(m)
           S == DOMAIN l
           T == DOMAIN m
<1>1. n \in Nat /\ DOMAIN l = 1 .. n
  BY ListFacts
<1>2. /\ m \in Seq(Datagrams) /\ DOMAIN m = 1 .. n + 1 /\ m[n + 1] = d
      /\ \A i \in 1 .. n : m[i] = l[i]
  BY <1>1, AppendProperties
<1> HIDE DEF m, n
<1>3. /\ \A i \in S : f[i] = Clen(l[i].frags) /\ f[i] \in Nat
      /\ \A i \in T : e[i] = Clen(m[i].frags) /\ e[i] \in Nat
      /\ IsFiniteSet(S) /\ IsFiniteSet(T)
      /\ ReassHeld(l) = Total(f, S) /\ ReassHeld(m) = Total(e, T)
  BY <1>2, HeldTotal
<1>4. n + 1 \in T /\ T \ {n + 1} = S /\ \A i \in S : i \in T
  BY <1>1, <1>2
<1>5. \A i \in S : f[i] \in Nat /\ e[i] = f[i]
  BY <1>1, <1>2, <1>3, <1>4
<1>6. e[n + 1] = Clen(d.frags)
  BY <1>2, <1>3, <1>4
<1> HIDE DEF f, e, S, T
<1>7. Total(e, T) = e[n + 1] + Total(e, T \ {n + 1})
  BY <1>3, <1>4, TotalFacts
<1>8. Total(e, S) = Total(f, S)
  BY <1>3, <1>5, TotalSame
<1>9. Total(f, S) \in Nat
  BY <1>3, TotalFacts
<1>10. Clen(d.frags) \in Nat
  BY DatagramFacts
<1> DEFINE x == Total(f, S)
           y == Clen(d.frags)
<1>11. Total(e, T) = y + x /\ x \in Nat /\ y \in Nat
  BY <1>4, <1>6, <1>7, <1>8, <1>9, <1>10
<1>12. ReassHeld(l) = x /\ ReassHeld(m) = Total(e, T)
  BY <1>3
<1> HIDE DEF x, y
<1>13. ReassHeld(m) = ReassHeld(l) + y
  BY <1>11, <1>12
<1> QED BY <1>13 DEF m, y

-----------------------------------------------------------------------------
(* What Without keeps.                                                     *)

Uniq(l) == \A i, j \in DOMAIN l : l[i].id = l[j].id => i = j

\* m has the first k datagrams of l but those at s.
Kept(l, s, k, m) ==
  /\ m \in Seq(Datagrams)
  /\ \A j \in DOMAIN m : \E i \in (1 .. k) \ s : m[j] = l[i]
  /\ \A i \in (1 .. k) \ s : \E j \in DOMAIN m : m[j] = l[i]
  /\ Uniq(l) => Uniq(m)
  /\ ReassHeld(m) + Clens(l, (1 .. k) \cap s) = Clens(l, 1 .. k)

IsScan(g, l, s, n) ==
  g = [k \in 0 .. n |-> IF k = 0 THEN <<>>
                        ELSE IF k \in s THEN g[k - 1] ELSE Append(g[k - 1], l[k])]

\* The function that Without defines exists, for a list of any length.
LEMMA ScanExists ==
  ASSUME NEW l \in Seq(Datagrams), NEW s
  PROVE  \E g : IsScan(g, l, s, Len(l))
<1> DEFINE N == Len(l)
           B == {n \in 0 .. N : ~ \E g : IsScan(g, l, s, n)}
<1>1. N \in Nat /\ B \subseteq Nat
  BY ListFacts
<1>2. B = {}
  <2> SUFFICES ASSUME B # {} PROVE FALSE
    OBVIOUS
  <2>1. PICK n \in B : \A j \in B : n <= j
    BY <1>1, LeastElement
  <2>2. n # 0
    <3> DEFINE g == [k \in 0 .. 0 |-> <<>>]
    <3>1. IsScan(g, l, s, 0)
      BY DEF IsScan
    <3> QED BY <2>1, <3>1
  <2>3. n - 1 \in 0 .. N /\ n - 1 \notin B /\ n \in Nat /\ n \in 0 .. N
    BY <1>1, <2>1, <2>2
  <2>4. PICK h : IsScan(h, l, s, n - 1)
    BY <2>3
  <2> DEFINE g == [k \in 0 .. n |->
                     IF k \in 0 .. n - 1 THEN h[k]
                     ELSE IF n \in s THEN h[n - 1] ELSE Append(h[n - 1], l[n])]
  <2>5. \A k \in 0 .. n - 1 : g[k] = h[k]
    BY <2>3
  <2>6. \A k \in 0 .. n - 1 :
           h[k] = IF k = 0 THEN <<>>
                  ELSE IF k \in s THEN h[k - 1] ELSE Append(h[k - 1], l[k])
    BY <2>4 DEF IsScan
  <2>7. \A k \in 0 .. n :
           g[k] = IF k = 0 THEN <<>>
                  ELSE IF k \in s THEN g[k - 1] ELSE Append(g[k - 1], l[k])
    <3> SUFFICES ASSUME NEW k \in 0 .. n
                 PROVE  g[k] = IF k = 0 THEN <<>>
                               ELSE IF k \in s THEN g[k - 1] ELSE Append(g[k - 1], l[k])
      OBVIOUS
    <3>1. CASE k \in 0 .. n - 1
      <4>1. g[k] = h[k] /\ (k # 0 => k - 1 \in 0 .. n - 1)
        BY <2>3, <2>5, <3>1
      <4>2. k # 0 => g[k - 1] = h[k - 1]
        BY <2>5, <4>1
      <4> HIDE DEF g
      <4> QED BY <2>6, <3>1, <4>1, <4>2
    <3>2. CASE k \notin 0 .. n - 1
      <4>1. k = n /\ n # 0 /\ n - 1 \in 0 .. n - 1
        BY <2>2, <2>3, <3>2
      <4>2. g[n - 1] = h[n - 1]
        BY <2>5, <4>1
      <4>3. g[n] = IF n \in s THEN h[n - 1] ELSE Append(h[n - 1], l[n])
        BY <2>3, <3>2, <4>1
      <4> HIDE DEF g
      <4> QED BY <4>1, <4>2, <4>3
    <3> QED BY <3>1, <3>2
  <2>8. g = [k \in 0 .. n |-> g[k]]
    OBVIOUS
  <2> HIDE DEF g
  <2>9. IsScan(g, l, s, n)
    BY <2>7, <2>8 DEF IsScan
  <2> QED BY <2>1, <2>9
<1>3. N \in 0 .. N
  BY <1>1
<1> QED BY <1>2, <1>3

\* Before the first datagram nothing is kept.
LEMMA KeptNone ==
  ASSUME NEW l \in Seq(Datagrams), NEW s
  PROVE  Kept(l, s, 0, <<>>)
<1>1. 1 .. 0 = {} /\ (1 .. 0) \cap s = {} /\ DOMAIN <<>> = {} /\ <<>> \in Seq(Datagrams)
  OBVIOUS
<1>2. {} \in SUBSET DOMAIN l
  OBVIOUS
<1>3. Clens(l, {}) = 0
  BY <1>2, ClensTotal, TotalEmpty
<1>4. Uniq(<<>>)
  BY <1>1 DEF Uniq
<1> QED BY <1>1, <1>3, <1>4, HeldNone DEF Kept

\* One datagram more to sum.
LEMMA ClensMore ==
  ASSUME NEW l \in Seq(Datagrams), NEW S \in SUBSET DOMAIN l, NEW a \in DOMAIN l, a \notin S
  PROVE  Clens(l, S \cup {a}) = Clens(l, S) + Clen(l[a].frags)
<1> DEFINE T == S \cup {a}
           f == LensOf(l)
<1>1. T \in SUBSET DOMAIN l /\ a \in T /\ T \ {a} = S
  OBVIOUS
<1> HIDE DEF T, f
<1>2. IsFiniteSet(T) /\ (\A i \in T : f[i] = Clen(l[i].frags) /\ f[i] \in Nat) /\ Clens(l, T) = Total(f, T)
  BY <1>1, ClensTotal DEF f
<1>3. Clens(l, S) = Total(f, S) /\ Clens(l, S) \in Nat
  BY ClensTotal DEF f
<1>4. Total(f, T) = f[a] + Total(f, S)
  BY <1>1, <1>2, TotalFacts
<1>5. f[a] = Clen(l[a].frags) /\ f[a] \in Nat
  BY <1>1, <1>2
<1> DEFINE x == Total(f, S)
           y == f[a]
<1>6. Clens(l, T) = y + x /\ x \in Nat /\ y \in Nat /\ Clens(l, S) = x
  BY <1>2, <1>3, <1>4, <1>5
<1> HIDE DEF x, y
<1>7. Clens(l, T) = x + y
  BY <1>6
<1> QED BY <1>5, <1>6, <1>7 DEF T, y

\* A datagram at s is left out.
LEMMA KeptSkip ==
  ASSUME NEW l \in Seq(Datagrams), NEW s, NEW k \in DOMAIN l, k \in s,
         NEW m, Kept(l, s, k - 1, m)
  PROVE  Kept(l, s, k, m)
<1> DEFINE P == 1 .. (k - 1)
           Q == 1 .. k
<1>1. k \in Nat /\ k >= 1 /\ DOMAIN l = 1 .. Len(l) /\ k <= Len(l)
  BY ListFacts
<1>2. Q = P \cup {k} /\ k \notin P /\ P \in SUBSET DOMAIN l /\ Q \ s = P \ s
  BY <1>1
<1>3. /\ m \in Seq(Datagrams)
      /\ \A j \in DOMAIN m : \E i \in P \ s : m[j] = l[i]
      /\ \A i \in P \ s : \E j \in DOMAIN m : m[j] = l[i]
      /\ Uniq(l) => Uniq(m)
      /\ ReassHeld(m) + Clens(l, P \cap s) = Clens(l, P)
  BY DEF Kept
<1> HIDE DEF P, Q
<1> DEFINE R == P \cap s
<1>4. R \in SUBSET DOMAIN l /\ k \notin R /\ Q \cap s = R \cup {k}
  BY <1>2
<1> HIDE DEF R
<1>5. Clens(l, R \cup {k}) = Clens(l, R) + Clen(l[k].frags)
  BY <1>4, ClensMore
<1>6. Clens(l, P \cup {k}) = Clens(l, P) + Clen(l[k].frags)
  BY <1>2, ClensMore
<1>7. Clens(l, R) \in Nat /\ Clens(l, P) \in Nat /\ ReassHeld(m) \in Nat
  BY <1>2, <1>3, <1>4, ClensTotal, HeldTotal
<1>8. Clen(l[k].frags) \in Nat
  BY ListFacts, DatagramFacts
<1>9. ReassHeld(m) + Clens(l, Q \cap s) = Clens(l, Q)
  <2> DEFINE a == Clens(l, R)
             b == Clens(l, P)
             c == Clen(l[k].frags)
             h == ReassHeld(m)
  <2>1. h + a = b /\ a \in Nat /\ b \in Nat /\ h \in Nat /\ c \in Nat
    BY <1>3, <1>7, <1>8 DEF R
  <2>2. Clens(l, Q \cap s) = a + c /\ Clens(l, Q) = b + c
    BY <1>2, <1>4, <1>5, <1>6
  <2> HIDE DEF a, b, c
  <2>3. h + (a + c) = b + c
    BY <2>1
  <2> QED BY <2>2, <2>3
<1> QED BY <1>2, <1>3, <1>9 DEF Kept, Q

\* A datagram that is not at s is appended.
LEMMA KeptMore ==
  ASSUME NEW l \in Seq(Datagrams), NEW s, NEW k \in DOMAIN l, k \notin s,
         NEW m, Kept(l, s, k - 1, m)
  PROVE  Kept(l, s, k, Append(m, l[k]))
<1> DEFINE P == 1 .. (k - 1)
           Q == 1 .. k
           w == Append(m, l[k])
           n == Len(m)
<1>1. k \in Nat /\ k >= 1 /\ DOMAIN l = 1 .. Len(l) /\ k <= Len(l) /\ l[k] \in Datagrams
  BY ListFacts
<1>2. /\ Q = P \cup {k} /\ k \notin P /\ P \in SUBSET DOMAIN l
      /\ Q \ s = (P \ s) \cup {k} /\ Q \cap s = P \cap s
  BY <1>1
<1>3. /\ m \in Seq(Datagrams)
      /\ \A j \in DOMAIN m : \E i \in P \ s : m[j] = l[i]
      /\ \A i \in P \ s : \E j \in DOMAIN m : m[j] = l[i]
      /\ Uniq(l) => Uniq(m)
      /\ ReassHeld(m) + Clens(l, P \cap s) = Clens(l, P)
  BY DEF Kept
<1>4. n \in Nat /\ DOMAIN m = 1 .. n
  BY <1>3, ListFacts
<1>5. /\ w \in Seq(Datagrams) /\ DOMAIN w = 1 .. n + 1 /\ w[n + 1] = l[k]
      /\ \A j \in 1 .. n : w[j] = m[j]
  BY <1>1, <1>3, <1>4, AppendProperties
<1>6. DOMAIN w = DOMAIN m \cup {n + 1} /\ n + 1 \notin DOMAIN m
  BY <1>4, <1>5
<1>7. ReassHeld(w) = ReassHeld(m) + Clen(l[k].frags)
  BY <1>1, <1>3, HeldAppend
<1> HIDE DEF P, Q, w, n
<1>8. \A j \in DOMAIN w : \E i \in Q \ s : w[j] = l[i]
  BY <1>2, <1>3, <1>4, <1>5, <1>6
<1>9. \A i \in Q \ s : \E j \in DOMAIN w : w[j] = l[i]
  <2> SUFFICES ASSUME NEW i \in Q \ s PROVE \E j \in DOMAIN w : w[j] = l[i]
    OBVIOUS
  <2>1. CASE i = k
    BY <1>5, <1>6, <2>1
  <2>2. CASE i \in P \ s
    BY <1>3, <1>4, <1>5, <1>6, <2>2
  <2> QED BY <1>2, <2>1, <2>2
<1>10. ASSUME Uniq(l) PROVE Uniq(w)
  <2>1. \A j \in DOMAIN m : w[j].id # l[k].id
    <3> SUFFICES ASSUME NEW j \in DOMAIN m PROVE w[j].id # l[k].id
      OBVIOUS
    <3>1. PICK i \in P \ s : m[j] = l[i]
      BY <1>3
    <3>2. i \in DOMAIN l /\ i # k /\ w[j] = l[i]
      BY <1>2, <1>4, <1>5, <3>1
    <3> QED BY <1>10, <3>2 DEF Uniq
  <2>2. \A i, j \in DOMAIN m : w[i].id = w[j].id => i = j
    BY <1>3, <1>4, <1>5, <1>10 DEF Uniq
  <2>3. w[n + 1] = l[k]
    BY <1>5
  <2> SUFFICES ASSUME NEW i \in DOMAIN w, NEW j \in DOMAIN w, w[i].id = w[j].id PROVE i = j
    BY DEF Uniq
  <2>4. CASE i = n + 1
    BY <1>6, <2>1, <2>3, <2>4
  <2>5. CASE j = n + 1
    BY <1>6, <2>1, <2>3, <2>5
  <2>6. CASE i \in DOMAIN m /\ j \in DOMAIN m
    BY <2>2, <2>6
  <2> QED BY <1>6, <2>4, <2>5, <2>6
<1>11. Clens(l, P \cup {k}) = Clens(l, P) + Clen(l[k].frags)
  BY <1>2, ClensMore
<1>12. ReassHeld(w) + Clens(l, Q \cap s) = Clens(l, Q)
  <2> DEFINE a == Clens(l, P \cap s)
             b == Clens(l, P)
             c == Clen(l[k].frags)
             h == ReassHeld(m)
             R == P \cap s
  <2>0. R \in SUBSET DOMAIN l
    BY <1>2
  <2>1. h + a = b
    BY <1>3
  <2>2. Clens(l, Q \cap s) = a /\ Clens(l, Q) = b + c /\ ReassHeld(w) = h + c
    BY <1>2, <1>7, <1>11
  <2>3. Clens(l, R) \in Nat /\ b \in Nat /\ h \in Nat
    BY <1>2, <1>3, <2>0, ClensTotal, HeldTotal
  <2>4. a \in Nat /\ c \in Nat
    BY <1>1, <2>3, DatagramFacts
  <2> HIDE DEF a, b, c, h
  <2>5. (h + c) + a = b + c
    BY <2>1, <2>3, <2>4
  <2> QED BY <2>2, <2>5
<1> QED BY <1>5, <1>8, <1>9, <1>10, <1>12 DEF Kept, Q, w

\* Without keeps what it should: no place of the list is the first to fail.
LEMMA WithoutKept ==
  ASSUME NEW l \in Seq(Datagrams), NEW s
  PROVE  Kept(l, s, Len(l), Without(l, s))
<1> DEFINE N == Len(l)
           g == CHOOSE g : IsScan(g, l, s, N)
<1>1. IsScan(g, l, s, N)
  BY ScanExists
<1>2. Without(l, s) = g[N]
  BY DEF Without, IsScan
<1> HIDE DEF g
<1>3. N \in Nat /\ DOMAIN l = 1 .. N
  BY ListFacts
<1> DEFINE B == {k \in 0 .. N : ~ Kept(l, s, k, g[k])}
<1>4. B = {}
  <2> SUFFICES ASSUME B # {} PROVE FALSE
    OBVIOUS
  <2>0. B \subseteq Nat
    BY <1>3
  <2>1. PICK k \in B : \A j \in B : k <= j
    BY <2>0, LeastElement
  <2>2. k # 0
    <3>1. 0 \in 0 .. N
      BY <1>3
    <3>2. g[0] = <<>>
      BY <1>1, <3>1 DEF IsScan
    <3> QED BY <2>1, <3>2, KeptNone
  <2>3. k \in 1 .. N /\ k \in 0 .. N /\ k - 1 \in 0 .. N /\ k - 1 \notin B
    BY <1>3, <2>1, <2>2
  <2>4. Kept(l, s, k - 1, g[k - 1])
    BY <2>3
  <2>5. g[k] = IF k \in s THEN g[k - 1] ELSE Append(g[k - 1], l[k])
    BY <1>1, <2>2, <2>3 DEF IsScan
  <2>6. k \in DOMAIN l
    BY <1>3, <2>3
  <2>7. CASE k \in s
    <3>1. Kept(l, s, k, g[k - 1])
      BY <2>4, <2>6, <2>7, KeptSkip
    <3> QED BY <2>1, <2>5, <2>7, <3>1
  <2>8. CASE k \notin s
    <3>1. Kept(l, s, k, Append(g[k - 1], l[k]))
      BY <2>4, <2>6, <2>8, KeptMore
    <3> QED BY <2>1, <2>5, <2>8, <3>1
  <2> QED BY <2>7, <2>8
<1>5. N \in 0 .. N /\ N \notin B
  BY <1>3, <1>4
<1> QED BY <1>2, <1>5

\* Of several datagrams, those at s go and the others stay.
LEMMA WithoutFacts ==
  ASSUME NEW l \in Seq(Datagrams), NEW s \in SUBSET DOMAIN l
  PROVE  LET m == Without(l, s) IN
         /\ m \in Seq(Datagrams)
         /\ \A j \in DOMAIN m : \E i \in DOMAIN l \ s : m[j] = l[i]
         /\ \A i \in DOMAIN l \ s : \E j \in DOMAIN m : m[j] = l[i]
         /\ Uniq(l) => Uniq(m)
         /\ ReassHeld(m) + Clens(l, s) = ReassHeld(l)
         /\ ReassHeld(m) \in Nat /\ Clens(l, s) \in Nat
<1> DEFINE m == Without(l, s)
           D == DOMAIN l
<1>1. D = 1 .. Len(l) /\ D \cap s = s
  BY ListFacts
<1>2. Kept(l, s, Len(l), m)
  BY WithoutKept
<1> HIDE DEF m
<1>3. /\ m \in Seq(Datagrams)
      /\ \A j \in DOMAIN m : \E i \in D \ s : m[j] = l[i]
      /\ \A i \in D \ s : \E j \in DOMAIN m : m[j] = l[i]
      /\ Uniq(l) => Uniq(m)
      /\ ReassHeld(m) + Clens(l, D \cap s) = Clens(l, D)
  BY <1>1, <1>2 DEF Kept
<1>4. ReassHeld(m) \in Nat /\ Clens(l, s) \in Nat
  BY <1>3, HeldTotal, ClensTotal
<1> QED BY <1>1, <1>3, <1>4 DEF m, ReassHeld

\* The buffers of one datagram, and of fewer datagrams.
LEMMA ClensOne ==
  ASSUME NEW l \in Seq(Datagrams), NEW a \in DOMAIN l
  PROVE  Clens(l, {a}) = Clen(l[a].frags)
<1> DEFINE S == {}
<1>1. S \in SUBSET DOMAIN l /\ a \notin S /\ S \cup {a} = {a}
  OBVIOUS
<1>2. Clens(l, S) = 0
  <2>1. Clens(l, S) = Total(LensOf(l), S)
    BY <1>1, ClensTotal
  <2> QED BY <2>1, TotalEmpty
<1> HIDE DEF S
<1>3. Clens(l, S \cup {a}) = Clens(l, S) + Clen(l[a].frags)
  BY <1>1, ClensMore
<1>4. Clen(l[a].frags) \in Nat
  BY ListFacts, DatagramFacts
<1>5. Clens(l, {a}) = 0 + Clen(l[a].frags)
  BY <1>1, <1>2, <1>3
<1> QED BY <1>4, <1>5

\* Fewer datagrams hold no more.
LEMMA ClensFewer ==
  ASSUME NEW l \in Seq(Datagrams), NEW S \in SUBSET DOMAIN l, NEW R \in SUBSET S
  PROVE  Clens(l, R) <= Clens(l, S)
<1> DEFINE f == LensOf(l)
<1>1. R \in SUBSET DOMAIN l
  OBVIOUS
<1>2. /\ IsFiniteSet(S) /\ \A i \in S : f[i] \in Nat
      /\ Clens(l, S) = Total(f, S) /\ Clens(l, R) = Total(f, R)
  BY <1>1, ClensTotal
<1> HIDE DEF f
<1>3. /\ Total(f, S) = Total(f, R) + Total(f, S \ R)
      /\ Total(f, R) \in Nat /\ Total(f, S \ R) \in Nat
  BY <1>2, TotalSplit
<1> QED BY <1>2, <1>3

\* One datagram more, at the front, with no fragments yet.
LEMMA FrontFacts ==
  ASSUME NEW l \in Seq(Datagrams), NEW d \in Datagrams
  PROVE  LET m == <<d>> \o l IN
         /\ m \in Seq(Datagrams) /\ DOMAIN m = 1 .. Len(l) + 1
         /\ m[1] = d /\ \A i \in DOMAIN l : i + 1 \in DOMAIN m /\ m[i + 1] = l[i]
         /\ \A j \in DOMAIN m : j = 1 \/ (j - 1 \in DOMAIN l /\ m[j] = l[j - 1])
<1> DEFINE m == <<d>> \o l
           n == Len(l)
<1>1. n \in Nat /\ DOMAIN l = 1 .. n
  BY ListFacts
<1>2. <<d>> \in Seq(Datagrams) /\ Len(<<d>>) = 1
  OBVIOUS
<1>3. /\ m \in Seq(Datagrams) /\ Len(m) = 1 + n
      /\ \A j \in 1 .. 1 + n : m[j] = IF j <= 1 THEN <<d>>[j] ELSE l[j - 1]
  BY <1>2, ConcatProperties
<1>4. DOMAIN m = 1 .. n + 1
  BY <1>1, <1>3, LenProperties
<1> HIDE DEF m, n
<1>5. m[1] = d
  BY <1>1, <1>3
<1>6. \A i \in DOMAIN l : i + 1 \in DOMAIN m /\ m[i + 1] = l[i]
  BY <1>1, <1>3, <1>4
<1>7. \A j \in DOMAIN m : j = 1 \/ (j - 1 \in DOMAIN l /\ m[j] = l[j - 1])
  BY <1>1, <1>3, <1>4
<1> QED BY <1>3, <1>4, <1>5, <1>6, <1>7 DEF m, n

\* A term of zero in front does not change a sum.
LEMMA TotalShift ==
  ASSUME NEW n \in Nat, NEW f, NEW e,
         \A i \in 1 .. n : f[i] \in Nat,
         \A i \in 1 .. n + 1 : e[i] = IF i = 1 THEN 0 ELSE f[i - 1]
  PROVE  Total(e, 1 .. n + 1) = Total(f, 1 .. n)
<1> DEFINE S(k) == 1 .. k
           B == {k \in 0 .. n : Total(e, S(k + 1)) # Total(f, S(k))}
<1>1. \A i \in 1 .. n + 1 : e[i] \in Nat
  OBVIOUS
<1>2. \A k \in Nat : IsFiniteSet(S(k))
  BY FS_Interval
<1>3. Total(e, S(1)) = Total(f, S(0))
  <2>a. S(0) = {} /\ S(1) = {1} /\ {1} \ {1} = {}
    OBVIOUS
  <2>b. 1 \in 1 .. n + 1
    OBVIOUS
  <2>c. e[1] = 0
    BY <2>b
  <2>d. IsFiniteSet(S(1))
    BY <1>2
  <2>1. /\ S(0) = {} /\ 1 \in S(1) /\ S(1) \ {1} = {} /\ e[1] = 0
        /\ IsFiniteSet(S(1)) /\ \A i \in S(1) : e[i] \in Nat
    BY <2>a, <2>c, <2>d
  <2> DEFINE R == S(1)
  <2> HIDE DEF R
  <2>2. Total(e, R) = e[1] + Total(e, R \ {1})
    BY <2>1, TotalFacts DEF R
  <2>3. Total(e, {}) = 0 /\ Total(f, {}) = 0
    BY TotalEmpty
  <2>4. Total(e, R) = 0 + 0
    BY <2>1, <2>2, <2>3 DEF R
  <2> QED BY <2>1, <2>3, <2>4 DEF R
<1>4. B = {}
  <2> SUFFICES ASSUME B # {} PROVE FALSE
    OBVIOUS
  <2>0. B \subseteq Nat
    OBVIOUS
  <2>1. PICK k \in B : \A j \in B : k <= j
    BY <2>0, LeastElement
  <2>2. k # 0
    <3>1. 0 + 1 = 1
      OBVIOUS
    <3> QED BY <1>3, <2>1, <3>1
  <2>3. k \in 1 .. n /\ k - 1 \in 0 .. n /\ k - 1 \notin B /\ k \in Nat
    BY <2>1, <2>2
  <2>4. Total(e, S(k)) = Total(f, S(k - 1))
    BY <2>3
  <2> DEFINE P == S(k)
             Q == S(k + 1)
             R == S(k - 1)
  <2>5. /\ k + 1 \in Q /\ Q \ {k + 1} = P /\ k \in P /\ P \ {k} = R
        /\ IsFiniteSet(P) /\ IsFiniteSet(Q)
        /\ (\A i \in Q : e[i] \in Nat) /\ (\A i \in P : f[i] \in Nat)
        /\ e[k + 1] = f[k]
    BY <1>1, <1>2, <2>3
  <2> HIDE DEF P, Q, R
  <2>6. Total(e, Q) = e[k + 1] + Total(e, P)
    <3> DEFINE x == k + 1
    <3>1. IsFiniteSet(Q) /\ (\A i \in Q : e[i] \in Nat) /\ x \in Q /\ Q \ {x} = P
      BY <2>5
    <3> HIDE DEF x
    <3>2. Total(e, Q) = e[x] + Total(e, Q \ {x})
      BY <3>1, TotalFacts
    <3> QED BY <3>1, <3>2 DEF x
  <2>7. Total(f, P) = f[k] + Total(f, R)
    <3>1. IsFiniteSet(P) /\ (\A i \in P : f[i] \in Nat) /\ k \in P
      BY <2>5
    <3>2. Total(f, P) = f[k] + Total(f, P \ {k})
      BY <3>1, TotalFacts
    <3> QED BY <2>5, <3>2
  <2>8. Total(e, Q) = Total(f, P)
    BY <2>4, <2>5, <2>6, <2>7 DEF P, R
  <2> QED BY <2>1, <2>8 DEF P, Q
<1>5. n \in 0 .. n
  OBVIOUS
<1> QED BY <1>4, <1>5

\* An entry without fragments holds nothing.
LEMMA HeldFront ==
  ASSUME NEW l \in Seq(Datagrams), NEW d \in Datagrams, d.frags = {}
  PROVE  ReassHeld(<<d>> \o l) = ReassHeld(l)
<1> DEFINE m == <<d>> \o l
           n == Len(l)
           f == LensOf(l)
           e == LensOf(m)
<1>1. n \in Nat /\ DOMAIN l = 1 .. n
  BY ListFacts
<1>2. /\ m \in Seq(Datagrams) /\ DOMAIN m = 1 .. n + 1 /\ m[1] = d
      /\ \A j \in DOMAIN m : j = 1 \/ (j - 1 \in DOMAIN l /\ m[j] = l[j - 1])
  BY FrontFacts
<1> HIDE DEF m, n
<1>3. /\ \A i \in 1 .. n : f[i] = Clen(l[i].frags) /\ f[i] \in Nat
      /\ \A i \in 1 .. n + 1 : e[i] = Clen(m[i].frags)
      /\ ReassHeld(l) = Total(f, 1 .. n) /\ ReassHeld(m) = Total(e, 1 .. n + 1)
  BY <1>1, <1>2, HeldTotal
<1>4. \A i \in 1 .. n + 1 : e[i] = IF i = 1 THEN 0 ELSE f[i - 1]
  <2> SUFFICES ASSUME NEW i \in 1 .. n + 1 PROVE e[i] = IF i = 1 THEN 0 ELSE f[i - 1]
    OBVIOUS
  <2> HIDE DEF e, f
  <2>1. CASE i = 1
    BY <1>2, <1>3, <2>1, ClenNone
  <2>2. CASE i # 1
    <3>1. i - 1 \in 1 .. n /\ m[i] = l[i - 1]
      BY <1>1, <1>2, <2>2
    <3> QED BY <1>3, <2>2, <3>1
  <2> QED BY <2>1, <2>2
<1> HIDE DEF f, e
<1>5. \A i \in 1 .. n : f[i] \in Nat
  BY <1>3
<1>6. Total(e, 1 .. n + 1) = Total(f, 1 .. n)
  BY <1>1, <1>4, <1>5, TotalShift
<1> QED BY <1>3, <1>6 DEF m

-----------------------------------------------------------------------------
(* The steps of reassembly.                                                *)

Apart(S) == \A f, g \in S : f.start < g.end /\ g.start < f.end => f = g

Sound(l) ==
  /\ l \in Seq(Datagrams)
  /\ Uniq(l)
  /\ \A i \in DOMAIN l : Apart(l[i].frags) /\ ~Whole(l[i].frags)

States == [l : Seq(Datagrams), count : Nat, freed : Nat]

\* The count is exact, and t buffers are held or have been freed.
Balanced(st, t) ==
  /\ st \in States
  /\ st.count = ReassHeld(st.l)
  /\ ReassHeld(st.l) + st.freed = t

\* From l to m, no datagram but id is new or changes, id stays, and no
\* datagram goes before one that has less time.
Evicts(l, m, id) ==
  /\ \A j \in DOMAIN m : m[j].id # id => \E i \in DOMAIN l : m[j] = l[i]
  /\ \A i \in DOMAIN l : l[i].id = id => \E j \in DOMAIN m : m[j] = l[i]
  /\ \A i, h \in DOMAIN l :
       /\ l[i].id # id /\ l[h].id # id /\ l[h].timer < l[i].timer
       /\ Entry(m, l[i].id) = {}
       => Entry(m, l[h].id) = {}

SomeOf(l, m) == \A j \in DOMAIN m : \E i \in DOMAIN l : m[j] = l[i]

\* Freeing datagrams moves their buffers from held to freed.
LEMMA FreeBalanced ==
  ASSUME NEW t, NEW st, Balanced(st, t), NEW s \in SUBSET DOMAIN st.l
  PROVE  Balanced(Free(st, s), t)
<1> DEFINE l == st.l
           m == Without(l, s)
           k == Clens(l, s)
           h == ReassHeld(l)
           x == ReassHeld(m)
<1>1. l \in Seq(Datagrams) /\ st.count = h /\ h + st.freed = t /\ st.freed \in Nat /\ st.count \in Nat
  BY DEF Balanced, States
<1>2. m \in Seq(Datagrams) /\ x + k = h /\ x \in Nat /\ k \in Nat
  BY <1>1, WithoutFacts
<1>3. Free(st, s) = [l |-> m, count |-> st.count - k, freed |-> st.freed + k]
  BY DEF Free
<1> HIDE DEF l, m, k, h
<1>4. st.count - k = x /\ x + (st.freed + k) = t /\ st.freed + k \in Nat
  BY <1>1, <1>2
<1> QED BY <1>2, <1>3, <1>4 DEF Balanced, States

\* What is left of a sound list is sound.
LEMMA WithoutSound ==
  ASSUME NEW l, Sound(l), NEW s \in SUBSET DOMAIN l
  PROVE  Sound(Without(l, s)) /\ SomeOf(l, Without(l, s))
<1> DEFINE m == Without(l, s)
<1>1. l \in Seq(Datagrams) /\ Uniq(l) /\ \A i \in DOMAIN l : Apart(l[i].frags) /\ ~Whole(l[i].frags)
  BY DEF Sound
<1>2. m \in Seq(Datagrams) /\ Uniq(m) /\ \A j \in DOMAIN m : \E i \in DOMAIN l : m[j] = l[i]
  BY <1>1, WithoutFacts
<1> HIDE DEF m
<1> QED BY <1>1, <1>2 DEF Sound, SomeOf, m

\* The datagrams that have less time than a victim are victims.
LEMMA VictimsOldest ==
  ASSUME NEW l \in Seq(Datagrams), NEW id, NEW n \in Nat,
         NEW i \in Victims(l, id, n), NEW h \in DOMAIN l,
         l[h].id # id, l[h].timer < l[i].timer
  PROVE  h \in Victims(l, id, n)
<1> DEFINE others == {j \in DOMAIN l : l[j].id # id}
           I == {j \in others : Older(l, j, i)}
           H == {j \in others : Older(l, j, h)}
<1>1. i \in DOMAIN l /\ Clens(l, I) < n /\ h \in others
  BY DEF Victims
<1>2. \A j \in DOMAIN l : l[j].timer \in Nat
  BY ListFacts, DatagramFacts
<1>3. H \subseteq I
  <2> SUFFICES ASSUME NEW j \in others, Older(l, j, h) PROVE Older(l, j, i)
    OBVIOUS
  <2>1. l[j].timer <= l[h].timer /\ l[j].timer \in Nat /\ l[h].timer \in Nat /\ l[i].timer \in Nat
    BY <1>1, <1>2 DEF Older
  <2>2. l[j].timer < l[i].timer
    BY <2>1
  <2> QED BY <2>2 DEF Older
<1>4. I \in SUBSET DOMAIN l /\ H \in SUBSET DOMAIN l
  OBVIOUS
<1>5. Clens(l, H) \in Nat /\ Clens(l, I) \in Nat
  <2>1. Clens(l, H) \in Nat
    BY <1>4, ClensTotal
  <2>2. Clens(l, I) \in Nat
    BY <1>4, ClensTotal
  <2> QED BY <2>1, <2>2
<1> DEFINE a == Clens(l, H)
           b == Clens(l, I)
<1>6. a <= b
  BY <1>3, <1>4, ClensFewer
<1>7. a < n
  <2>1. b < n /\ a \in Nat /\ b \in Nat
    BY <1>1, <1>5
  <2> HIDE DEF a, b
  <2> QED BY <1>6, <2>1
<1> QED BY <1>1, <1>7 DEF Victims

\* Freeing the victims evicts the oldest of the others.
LEMMA FreeEvicts ==
  ASSUME NEW l, Sound(l), NEW id, NEW n \in Nat
  PROVE  /\ Victims(l, id, n) \in SUBSET DOMAIN l
         /\ Evicts(l, Without(l, Victims(l, id, n)), id)
<1> DEFINE s == Victims(l, id, n)
           m == Without(l, s)
<1>1. s \in SUBSET DOMAIN l /\ \A i \in s : l[i].id # id
  BY DEF Victims
<1>2. l \in Seq(Datagrams) /\ Uniq(l)
  BY DEF Sound
<1>3. /\ \A j \in DOMAIN m : \E i \in DOMAIN l \ s : m[j] = l[i]
      /\ \A i \in DOMAIN l \ s : \E j \in DOMAIN m : m[j] = l[i]
  BY <1>1, <1>2, WithoutFacts
<1>4. \A i, h \in DOMAIN l :
        i \in s /\ l[h].id # id /\ l[h].timer < l[i].timer => h \in s
  BY <1>2, VictimsOldest
<1> HIDE DEF s, m
<1>5. ASSUME NEW i \in DOMAIN l, NEW h \in DOMAIN l,
             l[i].id # id, l[h].id # id, l[h].timer < l[i].timer,
             Entry(m, l[i].id) = {}
      PROVE  Entry(m, l[h].id) = {}
  <2>1. i \in s
    BY <1>3, <1>5 DEF Entry
  <2>2. h \in s
    BY <1>4, <1>5, <2>1
  <2> SUFFICES ASSUME NEW j \in DOMAIN m, m[j].id = l[h].id PROVE FALSE
    BY DEF Entry
  <2>3. PICK x \in DOMAIN l \ s : m[j] = l[x]
    BY <1>3
  <2>4. x = h
    BY <1>2, <2>3 DEF Uniq
  <2> QED BY <2>2, <2>3, <2>4
<1> QED BY <1>1, <1>3, <1>5 DEF Evicts, s, m

\* Where nothing happens nothing is evicted.
LEMMA EvictsNone ==
  ASSUME NEW l, NEW id
  PROVE  Evicts(l, l, id) /\ SomeOf(l, l)
<1>1. \A i \in DOMAIN l : Entry(l, l[i].id) # {}
  BY DEF Entry
<1> QED BY <1>1 DEF Evicts, SomeOf

\* Two evictions in a row still spare those with more time.
LEMMA EvictsTwice ==
  ASSUME NEW l, NEW m, NEW p, NEW id, Uniq(l), Evicts(l, m, id), Evicts(m, p, id)
  PROVE  Evicts(l, p, id)
<1>1. \A j \in DOMAIN p : p[j].id # id => \E i \in DOMAIN l : p[j] = l[i]
  BY DEF Evicts
<1>2. \A i \in DOMAIN l : l[i].id = id => \E j \in DOMAIN p : p[j] = l[i]
  BY DEF Evicts
<1>3. ASSUME NEW i \in DOMAIN l, NEW h \in DOMAIN l,
             l[i].id # id, l[h].id # id, l[h].timer < l[i].timer,
             Entry(p, l[i].id) = {}
      PROVE  Entry(p, l[h].id) = {}
  <2>1. ASSUME Entry(m, l[h].id) = {} PROVE Entry(p, l[h].id) = {}
    BY <1>3, <2>1 DEF Evicts, Entry
  <2>2. \A x \in DOMAIN l : l[x].id # id /\ Entry(m, l[x].id) # {} => \E y \in DOMAIN m : m[y] = l[x]
    <3> SUFFICES ASSUME NEW x \in DOMAIN l, l[x].id # id, NEW y \in DOMAIN m, m[y].id = l[x].id
                 PROVE  m[y] = l[x]
      BY DEF Entry
    <3>1. PICK z \in DOMAIN l : m[y] = l[z]
      BY DEF Evicts
    <3>2. z = x
      BY <3>1 DEF Uniq
    <3> QED BY <3>1, <3>2
  <2>3. CASE Entry(m, l[i].id) = {}
    BY <1>3, <2>1, <2>3 DEF Evicts
  <2>4. CASE Entry(m, l[h].id) = {}
    BY <2>1, <2>4
  <2>5. CASE Entry(m, l[i].id) # {} /\ Entry(m, l[h].id) # {}
    <3>1. PICK y \in DOMAIN m : m[y] = l[i]
      BY <1>3, <2>2, <2>5
    <3>2. PICK z \in DOMAIN m : m[z] = l[h]
      BY <1>3, <2>2, <2>5
    <3> QED BY <1>3, <3>1, <3>2 DEF Evicts
  <2> QED BY <2>3, <2>4, <2>5
<1> QED BY <1>1, <1>2, <1>3 DEF Evicts

\* A new datagram has an entry without fragments.
Fronted(st, id) ==
  [st EXCEPT !.l = <<[id |-> id, frags |-> {}, timer |-> ReassMaxAge]>> \o @]

\* What holds of e, which has an entry for id, and of st before it.
EntryOf(st, e, t, id) ==
  /\ Balanced(e, t) /\ Sound(e.l) /\ Evicts(st.l, e.l, id)
  /\ \A j \in DOMAIN e.l : e.l[j].id = id \/ \E i \in DOMAIN st.l : e.l[j] = st.l[i]

\* A new entry disturbs no other.
LEMMA FrontKeeps ==
  ASSUME NEW t, NEW st, Balanced(st, t), Sound(st.l), NEW id \in Ids, Entry(st.l, id) = {}
  PROVE  EntryOf(st, Fronted(st, id), t, id)
<1> DEFINE d == [id |-> id, frags |-> {}, timer |-> ReassMaxAge]
           l == st.l
           m == <<d>> \o l
           e == Fronted(st, id)
<1>1. l \in Seq(Datagrams) /\ st \in States /\ st.count = ReassHeld(l) /\ ReassHeld(l) + st.freed = t
  BY DEF Balanced, States
<1>2. d \in Datagrams
  BY ReassConstantsOK DEF Datagrams
<1>3. d.id = id /\ d.frags = {}
  OBVIOUS
<1> HIDE DEF d
<1>4. /\ m \in Seq(Datagrams) /\ DOMAIN m = 1 .. Len(l) + 1
      /\ m[1] = d /\ \A i \in DOMAIN l : i + 1 \in DOMAIN m /\ m[i + 1] = l[i]
      /\ \A j \in DOMAIN m : j = 1 \/ (j - 1 \in DOMAIN l /\ m[j] = l[j - 1])
  BY <1>1, <1>2, FrontFacts
<1>5. ReassHeld(m) = ReassHeld(l)
  BY <1>1, <1>2, <1>3, HeldFront
<1>6. e.l = m /\ e \in States /\ e.count = st.count /\ e.freed = st.freed
  BY <1>1, <1>4 DEF States, Fronted, d
<1> HIDE DEF m, e, l
<1>7. Balanced(e, t)
  BY <1>1, <1>5, <1>6 DEF Balanced
<1>8. 1 \in DOMAIN m
  <2>1. Len(l) \in Nat
    BY <1>1, ListFacts
  <2> QED BY <1>4, <2>1
<1>9. \A i \in DOMAIN l : l[i].id # id
  BY DEF Entry, l
<1>10. /\ \A i \in DOMAIN l : i \in Nat
       /\ \A j \in DOMAIN m : j \in Nat
       /\ Uniq(l) /\ \A i \in DOMAIN l : Apart(l[i].frags) /\ ~Whole(l[i].frags)
  <2>1. \A i \in DOMAIN l : i \in Nat
    BY <1>1, ListFacts
  <2>2. \A j \in DOMAIN m : j \in Nat
    BY <1>4, ListFacts
  <2> QED BY <2>1, <2>2 DEF Sound, l
<1>11. Uniq(m)
  <2> SUFFICES ASSUME NEW j \in DOMAIN m, NEW h \in DOMAIN m, m[j].id = m[h].id PROVE j = h
    BY DEF Uniq
  <2>1. CASE j = 1
    BY <1>3, <1>4, <1>9, <2>1
  <2>2. CASE h = 1
    BY <1>3, <1>4, <1>9, <2>2
  <2>3. CASE j # 1 /\ h # 1
    <3>1. j - 1 \in DOMAIN l /\ m[j] = l[j - 1] /\ h - 1 \in DOMAIN l /\ m[h] = l[h - 1]
      BY <1>4, <2>3
    <3>2. j - 1 = h - 1
      BY <1>10, <3>1 DEF Uniq
    <3> QED BY <1>10, <3>2
  <2> QED BY <2>1, <2>2, <2>3
<1>12. \A j \in DOMAIN m : m[j].id = id \/ \E i \in DOMAIN l : m[j] = l[i]
  BY <1>3, <1>4
<1>13. Sound(m)
  <2>1. Apart({}) /\ ~Whole({})
    BY DEF Apart, Whole
  <2>2. \A j \in DOMAIN m : Apart(m[j].frags) /\ ~Whole(m[j].frags)
    <3> SUFFICES ASSUME NEW j \in DOMAIN m PROVE Apart(m[j].frags) /\ ~Whole(m[j].frags)
      OBVIOUS
    <3>1. CASE j = 1
      BY <1>3, <1>4, <2>1, <3>1
    <3>2. CASE j # 1
      BY <1>4, <1>10, <3>2
    <3> QED BY <3>1, <3>2
  <2> QED BY <1>4, <1>11, <2>2 DEF Sound
<1>14. Evicts(l, m, id)
  <2>1. \A i \in DOMAIN l : Entry(m, l[i].id) # {}
    <3> SUFFICES ASSUME NEW i \in DOMAIN l PROVE Entry(m, l[i].id) # {}
      OBVIOUS
    <3>1. i + 1 \in DOMAIN m /\ m[i + 1].id = l[i].id
      BY <1>4
    <3> QED BY <3>1 DEF Entry
  <2> QED BY <1>9, <1>12, <2>1 DEF Evicts
<1> QED BY <1>6, <1>7, <1>12, <1>13, <1>14 DEF e, l, EntryOf

\* Making room keeps the list sound and the buffers balanced.
LEMMA WithRoomKeeps ==
  ASSUME NEW t, NEW st, Balanced(st, t), Sound(st.l), NEW id, NEW n \in Nat
  PROVE  LET r == WithRoom(st, id, n) IN
         Balanced(r, t) /\ Sound(r.l) /\ Evicts(st.l, r.l, id) /\ SomeOf(st.l, r.l)
<1> DEFINE s == Victims(st.l, id, n)
<1>1. s \in SUBSET DOMAIN st.l /\ Evicts(st.l, Without(st.l, s), id)
  BY FreeEvicts
<1> HIDE DEF s
<1>2. Sound(Without(st.l, s)) /\ SomeOf(st.l, Without(st.l, s))
  BY <1>1, WithoutSound
<1>3. Balanced(Free(st, s), t)
  BY <1>1, FreeBalanced
<1>4. Free(st, s).l = Without(st.l, s)
  BY DEF Free
<1>5. Evicts(st.l, st.l, id) /\ SomeOf(st.l, st.l)
  BY EvictsNone
<1> QED BY <1>1, <1>2, <1>3, <1>4, <1>5 DEF WithRoom, s

\* So does finding or making the entry, which may evict once more.
LEMMA WithEntryKeeps ==
  ASSUME NEW t, NEW st, Balanced(st, t), Sound(st.l), NEW id \in Ids, NEW n \in Nat
  PROVE  EntryOf(st, WithEntry(st, id, n), t, id)
<1> DEFINE s == Victims(st.l, id, n)
           k == Free(st, s)
           w == WithEntry(st, id, n)
<1>1. CASE Entry(st.l, id) # {}
  <2>1. w = st
    BY <1>1 DEF WithEntry
  <2>2. Evicts(st.l, st.l, id)
    BY EvictsNone
  <2> HIDE DEF w
  <2>3. EntryOf(st, st, t, id)
    BY <2>2 DEF EntryOf
  <2> QED BY <2>1, <2>3 DEF w
<1>2. CASE Entry(st.l, id) = {} /\ Len(st.l) < NumReass
  <2>1. w = Fronted(st, id)
    BY <1>2 DEF WithEntry, Fronted
  <2> HIDE DEF w
  <2> QED BY <1>2, <2>1, FrontKeeps DEF w
<1>3. CASE Entry(st.l, id) = {} /\ ~(Len(st.l) < NumReass)
  <2>1. s \in SUBSET DOMAIN st.l /\ Evicts(st.l, Without(st.l, s), id)
    BY FreeEvicts
  <2>2. w = IF Clens(st.l, s) >= n THEN Fronted(k, id) ELSE k
    BY <1>3 DEF WithEntry, Fronted
  <2>3. k.l = Without(st.l, s)
    BY DEF Free
  <2> HIDE DEF s, w
  <2>4. Sound(Without(st.l, s)) /\ SomeOf(st.l, Without(st.l, s))
    BY <2>1, WithoutSound
  <2>5. Balanced(k, t)
    BY <2>1, FreeBalanced
  <2> HIDE DEF k
  <2>6. Sound(k.l) /\ SomeOf(st.l, k.l) /\ Evicts(st.l, k.l, id)
    BY <2>1, <2>3, <2>4
  <2>7. Entry(k.l, id) = {}
    BY <1>3, <2>6 DEF SomeOf, Entry
  <2> DEFINE e == Fronted(k, id)
  <2>8. EntryOf(k, e, t, id)
    BY <2>5, <2>6, <2>7, FrontKeeps
  <2> HIDE DEF e
  <2>9. Uniq(st.l)
    BY DEF Sound
  <2>10. Evicts(k.l, e.l, id)
    BY <2>8 DEF EntryOf
  <2>11. Evicts(st.l, e.l, id)
    BY <2>6, <2>9, <2>10, EvictsTwice
  <2>12. EntryOf(st, e, t, id)
    BY <2>6, <2>8, <2>11 DEF SomeOf, EntryOf
  <2>13. EntryOf(st, k, t, id)
    BY <2>5, <2>6 DEF SomeOf, EntryOf
  <2> QED BY <2>2, <2>12, <2>13 DEF e, w
<1> QED BY <1>1, <1>2, <1>3

\* From l to m, the fragments of the datagram at i become u, or it goes.
Becomes(l, m, i, u) ==
  /\ \A j \in DOMAIN m : \/ m[j].id = l[i].id /\ m[j].frags = u
                         \/ \E h \in DOMAIN l \ {i} : m[j] = l[h]
  /\ \A h \in DOMAIN l \ {i} : \E j \in DOMAIN m : m[j] = l[h]
  /\ Whole(u) \/ \E j \in DOMAIN m : m[j].id = l[i].id /\ m[j].frags = u

\* The fragments of a datagram that is whole leave.
Leaves(u) == IF Whole(u) THEN u ELSE {}

\* A fragment that overlaps none is new and keeps them apart.
LEMMA ApartMore ==
  ASSUME NEW S \in SUBSET Fragments, NEW f \in Fragments, Apart(S),
         \A g \in S : ~ Overlap(f, g)
  PROVE  f \notin S /\ Apart(S \cup {f}) /\ S \cup {f} \in SUBSET Fragments
<1>1. f.start < f.end
  BY FragmentFacts
<1>2. f \notin S
  BY <1>1 DEF Overlap
<1> QED BY <1>2 DEF Apart, Overlap

\* A fragment that completes its datagram: all of it leaves.
LEMMA QueuedLeaves ==
  ASSUME NEW t \in Nat, NEW st, Balanced(st, t), Sound(st.l), NEW i \in DOMAIN st.l,
         NEW f \in Fragments, \A g \in st.l[i].frags : ~ Overlap(f, g),
         Whole(st.l[i].frags \cup {f})
  PROVE  LET u == st.l[i].frags \cup {f}
             q == Queued(st, i, f) IN
         /\ q \in States /\ q.count = ReassHeld(q.l) /\ Sound(q.l)
         /\ (ReassHeld(q.l) + q.freed) + Clen(u) = t + Clen({f})
         /\ Becomes(st.l, q.l, i, u)
<1> DEFINE l == st.l
           v == l[i].frags
           u == v \cup {f}
           s == {i}
           m == Without(l, s)
           q == Queued(st, i, f)
<1>1. l \in Seq(Datagrams) /\ st \in States /\ st.count = ReassHeld(l) /\ ReassHeld(l) + st.freed = t
      /\ st.freed \in Nat
  BY DEF Balanced, States
<1>2. v \in SUBSET Fragments /\ Apart(v)
  BY <1>1, ListFacts, DatagramFacts DEF Sound
<1>3. Clen(u) = Clen(v) + Clen({f}) /\ Clen(v) \in Nat /\ Clen({f}) \in Nat
  <2>1. f \notin v
    BY <1>2, ApartMore
  <2>2. Clen(v) \in Nat
    BY <1>2, ClenTotal
  <2> HIDE DEF v
  <2> QED BY <1>2, <2>1, <2>2, ClenMore
<1>4. s \in SUBSET DOMAIN l
  OBVIOUS
<1>5. Clens(l, s) = Clen(v)
  BY <1>1, ClensOne
<1>6. q.l = m /\ q.count = st.count - Clen(v) /\ q.freed = st.freed
      /\ q = [l |-> m, count |-> st.count - Clen(v), freed |-> st.freed]
  BY <1>1 DEF Queued, States
<1> HIDE DEF s
<1>7. /\ m \in Seq(Datagrams)
      /\ \A j \in DOMAIN m : \E h \in DOMAIN l \ s : m[j] = l[h]
      /\ \A h \in DOMAIN l \ s : \E j \in DOMAIN m : m[j] = l[h]
      /\ ReassHeld(m) + Clens(l, s) = ReassHeld(l) /\ ReassHeld(m) \in Nat
  <2> HIDE DEF l
  <2> QED BY <1>1, <1>4, WithoutFacts
<1>8. Sound(m)
  BY <1>4, WithoutSound
<1> HIDE DEF m, q
<1>9. Becomes(l, m, i, u)
  BY <1>7 DEF Becomes, s
<1> HIDE DEF l, u, v
<1>10. st.count - Clen(v) = ReassHeld(m) /\ (ReassHeld(m) + st.freed) + Clen(u) = t + Clen({f})
  <2> DEFINE a == Clen(v)
             b == Clen({f})
             x == ReassHeld(m)
             y == st.count
             z == st.freed
  <2>1. x + a = y /\ y + z = t /\ Clen(u) = a + b
    BY <1>1, <1>3, <1>5, <1>7
  <2>2. x \in Nat /\ a \in Nat /\ b \in Nat /\ z \in Nat
    BY <1>1, <1>3, <1>7
  <2> HIDE DEF a, b, x, y, z
  <2>3. y - a = x /\ (x + z) + (a + b) = t + b
    BY <2>1, <2>2
  <2> QED BY <2>1, <2>3 DEF a, b, x, y, z
<1>11. q \in States
  BY <1>1, <1>6, <1>7, <1>10 DEF States
<1> QED BY <1>6, <1>8, <1>9, <1>10, <1>11 DEF l, u, v, q

\* A fragment that does not: it is held with the others.
LEMMA QueuedStays ==
  ASSUME NEW t \in Nat, NEW st, Balanced(st, t), Sound(st.l), NEW i \in DOMAIN st.l,
         NEW f \in Fragments, \A g \in st.l[i].frags : ~ Overlap(f, g),
         ~ Whole(st.l[i].frags \cup {f})
  PROVE  LET u == st.l[i].frags \cup {f}
             q == Queued(st, i, f) IN
         /\ q \in States /\ q.count = ReassHeld(q.l) /\ Sound(q.l)
         /\ (ReassHeld(q.l) + q.freed) + 0 = t + Clen({f})
         /\ Becomes(st.l, q.l, i, u)
<1> DEFINE l == st.l
           v == l[i].frags
           u == v \cup {f}
           m == [l EXCEPT ![i].frags = u]
           q == Queued(st, i, f)
<1>1. l \in Seq(Datagrams) /\ st \in States /\ st.count = ReassHeld(l) /\ ReassHeld(l) + st.freed = t
      /\ st.freed \in Nat
  BY DEF Balanced, States
<1>2. v \in SUBSET Fragments /\ Apart(v)
  BY <1>1, ListFacts, DatagramFacts DEF Sound
<1>3. f \notin v /\ Apart(u) /\ u \in SUBSET Fragments
  BY <1>2, ApartMore
<1>4. Clen(u) = Clen(v) + Clen({f}) /\ Clen(v) \in Nat /\ Clen({f}) \in Nat
  <2>1. Clen(v) \in Nat
    BY <1>2, ClenTotal
  <2> HIDE DEF v
  <2> QED BY <1>2, <1>3, <2>1, ClenMore
<1>5. q.l = m /\ q.count = st.count + Clen({f}) /\ q.freed = st.freed
      /\ q = [l |-> m, count |-> st.count + Clen({f}), freed |-> st.freed]
  BY <1>1 DEF Queued, States
<1>6. \A h \in DOMAIN l : l[h] \in Datagrams
  BY <1>1, ListFacts
<1>7. [l[i] EXCEPT !.frags = u] \in Datagrams
  BY <1>3, <1>6 DEF Datagrams
<1>8. /\ DOMAIN m = DOMAIN l
      /\ \A h \in DOMAIN l : m[h] = IF h = i THEN [l[i] EXCEPT !.frags = u] ELSE l[h]
  OBVIOUS
<1>9. m[i].id = l[i].id /\ m[i].frags = u /\ m[i] \in Datagrams
  BY <1>6, <1>7, <1>8 DEF Datagrams
<1>10. m \in Seq(Datagrams)
  BY <1>1, <1>7, ExceptSeq
<1> HIDE DEF m, q
<1>11. \A h \in DOMAIN l : m[h].id = l[h].id
  BY <1>8, <1>9
<1>12. Sound(m)
  <2>1. Uniq(m)
    BY <1>8, <1>11 DEF Sound, Uniq
  <2>2. \A h \in DOMAIN m : Apart(m[h].frags) /\ ~Whole(m[h].frags)
    BY <1>3, <1>8, <1>9 DEF Sound
  <2> QED BY <1>10, <2>1, <2>2 DEF Sound
<1>13. Becomes(l, m, i, u)
  BY <1>8, <1>9 DEF Becomes
<1>14. PICK x \in Nat : ReassHeld(l) = Clen(l[i].frags) + x /\ ReassHeld(m) = Clen(m[i].frags) + x
  <2>1. \A h \in DOMAIN l : h # i => m[h].frags = l[h].frags
    BY <1>8
  <2> QED BY <1>1, <1>8, <1>10, <2>1, HeldChange
<1>15. ReassHeld(l) = Clen(v) + x /\ ReassHeld(m) = Clen(u) + x
  BY <1>9, <1>14
<1> HIDE DEF l, u, v
<1>16. st.count + Clen({f}) = ReassHeld(m) /\ (ReassHeld(m) + st.freed) + 0 = t + Clen({f})
       /\ ReassHeld(m) \in Nat
  <2> DEFINE a == Clen(v)
             b == Clen({f})
  <2>1. st.count = a + x /\ st.count + st.freed = t /\ ReassHeld(m) = (a + b) + x
    BY <1>1, <1>4, <1>15
  <2>2. a \in Nat /\ b \in Nat
    BY <1>4
  <2> HIDE DEF a, b
  <2>3. st.count + b = ReassHeld(m) /\ (ReassHeld(m) + st.freed) + 0 = t + b
    BY <1>1, <1>14, <2>1, <2>2
  <2>4. ReassHeld(m) \in Nat
    BY <1>14, <2>1, <2>2
  <2> QED BY <2>3, <2>4 DEF b
<1>17. q \in States
  BY <1>1, <1>4, <1>5, <1>10, <1>16 DEF States
<1> QED BY <1>5, <1>12, <1>13, <1>16, <1>17 DEF l, u, v, q

\* Both cases of a fragment that is queued.
LEMMA QueuedFacts ==
  ASSUME NEW t \in Nat, NEW st, Balanced(st, t), Sound(st.l), NEW i \in DOMAIN st.l,
         NEW f \in Fragments, \A g \in st.l[i].frags : ~ Overlap(f, g)
  PROVE  LET u == st.l[i].frags \cup {f}
             q == Queued(st, i, f) IN
         /\ q \in States /\ q.count = ReassHeld(q.l) /\ Sound(q.l)
         /\ (ReassHeld(q.l) + q.freed) + Clen(Leaves(u)) = t + Clen({f})
         /\ Becomes(st.l, q.l, i, u)
         /\ u \in SUBSET Fragments /\ Apart(u)
<1> DEFINE u == st.l[i].frags \cup {f}
           q == Queued(st, i, f)
<1>1. u \in SUBSET Fragments /\ Apart(u)
  <2>1. st.l[i].frags \in SUBSET Fragments /\ Apart(st.l[i].frags)
    BY ListFacts, DatagramFacts DEF Sound
  <2> QED BY <2>1, ApartMore
<1>2. CASE Whole(u)
  <2>1. Leaves(u) = u
    BY <1>2 DEF Leaves
  <2> QED BY <1>1, <1>2, <2>1, QueuedLeaves
<1>3. CASE ~Whole(u)
  <2>1. Clen(Leaves(u)) = 0
    BY <1>3, ClenNone DEF Leaves
  <2>2. /\ q \in States /\ q.count = ReassHeld(q.l) /\ Sound(q.l)
        /\ (ReassHeld(q.l) + q.freed) + 0 = t + Clen({f})
        /\ Becomes(st.l, q.l, i, u)
    BY <1>3, QueuedStays
  <2> HIDE DEF u, q
  <2> QED BY <1>1, <2>1, <2>2 DEF u, q
<1> QED BY <1>2, <1>3

Filled(l) == \A i \in DOMAIN l : l[i].frags # {}

\* What a fragment for id leaves of the datagrams in l, u being delivered.
Spares(l, m, id, u) ==
  \A i \in DOMAIN l :
    IF l[i].id = id
    THEN u # {} \/ \E j \in DOMAIN m : m[j].id = id /\ l[i].frags \subseteq m[j].frags
    ELSE Entry(m, l[i].id) = {} =>
           \A h \in DOMAIN l :
             l[h].id # id /\ l[h].timer < l[i].timer => Entry(m, l[h].id) = {}

Delivered(u) == u = {} \/ (u \in SUBSET Fragments /\ Apart(u) /\ Whole(u))

ReassResult(l, id, n, o) ==
  /\ Sound(o.st.l) /\ Filled(o.st.l)
  /\ o.st.count = ReassHeld(o.st.l) /\ o.st.freed \in Nat
  /\ (ReassHeld(o.st.l) + o.st.freed) + Clen(o.up) = ReassHeld(l) + n
  /\ Delivered(o.up)
  /\ Spares(l, o.st.l, id, o.up)

\* A fragment that is dropped may have evicted others, and not its own.
LEMMA EvictsSpares ==
  ASSUME NEW l, NEW m, NEW id, Evicts(l, m, id)
  PROVE  Spares(l, m, id, {})
<1> SUFFICES ASSUME NEW i \in DOMAIN l
             PROVE  IF l[i].id = id
                    THEN \E j \in DOMAIN m : m[j].id = id /\ l[i].frags \subseteq m[j].frags
                    ELSE Entry(m, l[i].id) = {} =>
                           \A h \in DOMAIN l :
                             l[h].id # id /\ l[h].timer < l[i].timer => Entry(m, l[h].id) = {}
  BY DEF Spares
<1>1. CASE l[i].id = id
  <2>1. PICK j \in DOMAIN m : m[j] = l[i]
    BY <1>1 DEF Evicts
  <2> QED BY <1>1, <2>1
<1>2. CASE l[i].id # id
  BY <1>2 DEF Evicts
<1> QED BY <1>1, <1>2

\* A fragment that is queued has its own datagram grow or leave.
LEMMA BecomesSpares ==
  ASSUME NEW l, NEW e, NEW q, NEW id, NEW a \in DOMAIN e, e[a].id = id, Uniq(e),
         Evicts(l, e, id), NEW f, Becomes(e, q, a, e[a].frags \cup {f})
  PROVE  Spares(l, q, id, Leaves(e[a].frags \cup {f}))
<1> DEFINE u == e[a].frags \cup {f}
<1>1. u # {} /\ e[a].frags \subseteq u
  OBVIOUS
<1>2. Becomes(e, q, a, u)
  OBVIOUS
<1> HIDE DEF u
<1>3. \A x : x # id => (Entry(q, x) = {} <=> Entry(e, x) = {})
  <2> SUFFICES ASSUME NEW x, x # id PROVE Entry(q, x) = {} <=> Entry(e, x) = {}
    OBVIOUS
  <2>1. ASSUME NEW j \in DOMAIN q, q[j].id = x PROVE Entry(e, x) # {}
    <3>1. PICK h \in DOMAIN e \ {a} : q[j] = e[h]
      BY <1>2, <2>1 DEF Becomes
    <3> QED BY <2>1, <3>1 DEF Entry
  <2>2. ASSUME NEW h \in DOMAIN e, e[h].id = x PROVE Entry(q, x) # {}
    <3>1. h # a
      BY <2>2
    <3>2. PICK j \in DOMAIN q : q[j] = e[h]
      BY <1>2, <3>1 DEF Becomes
    <3> QED BY <2>2, <3>2 DEF Entry
  <2> QED BY <2>1, <2>2 DEF Entry
<1> SUFFICES ASSUME NEW i \in DOMAIN l
             PROVE  IF l[i].id = id
                    THEN Leaves(u) # {} \/ \E j \in DOMAIN q : q[j].id = id /\ l[i].frags \subseteq q[j].frags
                    ELSE Entry(q, l[i].id) = {} =>
                           \A h \in DOMAIN l :
                             l[h].id # id /\ l[h].timer < l[i].timer => Entry(q, l[h].id) = {}
  BY DEF Spares, u
<1>4. CASE l[i].id = id
  <2>1. PICK j \in DOMAIN e : e[j] = l[i]
    BY <1>4 DEF Evicts
  <2>2. j = a
    BY <1>4, <2>1 DEF Uniq
  <2>3. CASE Whole(u)
    BY <1>1, <1>4, <2>3 DEF Leaves
  <2>4. CASE ~Whole(u)
    <3>1. PICK z \in DOMAIN q : q[z].id = id /\ q[z].frags = u
      BY <1>2, <2>4 DEF Becomes
    <3> QED BY <1>1, <1>4, <2>1, <2>2, <3>1
  <2> QED BY <2>3, <2>4
<1>5. CASE l[i].id # id
  <2> SUFFICES ASSUME Entry(q, l[i].id) = {}, NEW h \in DOMAIN l,
                      l[h].id # id, l[h].timer < l[i].timer
               PROVE  Entry(q, l[h].id) = {}
    BY <1>5
  <2>1. Entry(e, l[i].id) = {}
    BY <1>3, <1>5
  <2>2. Entry(e, l[h].id) = {}
    BY <1>5, <2>1 DEF Evicts
  <2> QED BY <1>3, <2>2
<1> QED BY <1>4, <1>5

\* The fragment is dropped.
LEMMA DroppedResult ==
  ASSUME NEW l \in Seq(Datagrams), NEW id, NEW n \in Nat, NEW st, Balanced(st, ReassHeld(l)), Sound(st.l),
         Filled(st.l), Evicts(l, st.l, id)
  PROVE  ReassResult(l, id, n, [st |-> Dropped(st, n), up |-> {}])
<1> DEFINE d == Dropped(st, n)
           o == [st |-> d, up |-> {}]
           t == ReassHeld(l)
<1>1. st \in States /\ st.count = ReassHeld(st.l) /\ ReassHeld(st.l) + st.freed = t
      /\ st.freed \in Nat /\ st.l \in Seq(Datagrams) /\ t \in Nat
  BY HeldTotal DEF Balanced, States
<1>2. d.l = st.l /\ d.count = st.count /\ d.freed = st.freed + n
  BY <1>1 DEF Dropped, States
<1>3. o.st = d /\ o.up = {}
  OBVIOUS
<1>4. ReassHeld(st.l) \in Nat /\ st.freed + n \in Nat
  BY <1>1, HeldTotal
<1> HIDE DEF d, o, t
<1>5. (ReassHeld(st.l) + (st.freed + n)) + 0 = t + n
  <2> DEFINE x == ReassHeld(st.l)
             y == st.freed
  <2>1. x + y = t /\ x \in Nat /\ y \in Nat
    BY <1>1, <1>4
  <2> HIDE DEF x, y
  <2>2. (x + (y + n)) + 0 = t + n
    BY <1>1, <2>1
  <2> QED BY <2>2 DEF x, y
<1>6. (ReassHeld(d.l) + d.freed) + Clen(o.up) = t + n
  BY <1>2, <1>3, <1>5, ClenNone
<1>7. Delivered(o.up)
  BY <1>3 DEF Delivered
<1>8. Spares(l, d.l, id, o.up)
  BY <1>2, <1>3, EvictsSpares
<1> QED BY <1>1, <1>2, <1>3, <1>4, <1>6, <1>7, <1>8 DEF ReassResult, o, d, t

\* An entry without fragments goes, and nothing else does.
LEMMA UnmadeKeeps ==
  ASSUME NEW l \in Seq(Datagrams), Filled(l), NEW t, NEW id, NEW st, Balanced(st, t),
         Sound(st.l), Evicts(l, st.l, id),
         \A j \in DOMAIN st.l : st.l[j].id # id => st.l[j].frags # {}
  PROVE  LET k == Unmade(st, id) IN
         Balanced(k, t) /\ Sound(k.l) /\ Filled(k.l) /\ Evicts(l, k.l, id)
<1> DEFINE b == st.l
           s == {i \in Entry(b, id) : b[i].frags = {}}
           m == Without(b, s)
           k == Unmade(st, id)
           h == ReassHeld(b)
           x == ReassHeld(m)
           c == Clens(b, s)
<1>1. /\ b \in Seq(Datagrams) /\ Uniq(b) /\ st \in States
      /\ st.count = h /\ h + st.freed = t
  BY DEF Balanced, States, Sound
<1>2. s \in SUBSET DOMAIN b
  BY DEF Entry
<1>3. \A i \in DOMAIN b : i \in s <=> b[i].id = id /\ b[i].frags = {}
  BY DEF Entry
<1>4. k = [st EXCEPT !.l = m]
  BY DEF Unmade
<1> HIDE DEF s, b
<1>5. /\ m \in Seq(Datagrams)
      /\ \A j \in DOMAIN m : \E i \in DOMAIN b \ s : m[j] = b[i]
      /\ \A i \in DOMAIN b \ s : \E j \in DOMAIN m : m[j] = b[i]
      /\ x + c = h /\ x \in Nat /\ c \in Nat
  BY <1>1, <1>2, WithoutFacts
<1>6. c = 0
  <2>1. CASE s = {}
    <3>1. Clens(b, s) = Total(LensOf(b), s)
      BY <1>1, <1>2, ClensTotal
    <3> QED BY <2>1, <3>1, TotalEmpty
  <2>2. CASE s # {}
    <3>1. PICK a \in s : TRUE
      BY <2>2
    <3>2. s = {a}
      BY <1>1, <1>2, <1>3, <3>1 DEF Uniq
    <3>3. a \in DOMAIN b /\ b[a].frags = {}
      BY <1>2, <1>3, <3>1
    <3>4. Clens(b, {a}) = Clen(b[a].frags)
      BY <1>1, <3>3, ClensOne
    <3> QED BY <3>2, <3>3, <3>4, ClenNone
  <2> QED BY <2>1, <2>2
<1>7. Sound(m)
  BY <1>2, WithoutSound DEF m, b
<1> HIDE DEF m, k, c
<1>8. k.l = m /\ k \in States /\ k.count = st.count /\ k.freed = st.freed
  BY <1>1, <1>4, <1>5 DEF States
<1>9. x = h
  BY <1>5, <1>6
<1>10. Balanced(k, t)
  BY <1>1, <1>8, <1>9 DEF Balanced
<1>11. Filled(m)
  <2> SUFFICES ASSUME NEW j \in DOMAIN m PROVE m[j].frags # {}
    BY DEF Filled
  <2>1. PICK i \in DOMAIN b \ s : m[j] = b[i]
    BY <1>5
  <2> QED BY <1>3, <2>1 DEF b
<1>12. Evicts(l, m, id)
  <2>1. Evicts(l, b, id)
    BY DEF b
  <2>2. ASSUME NEW j \in DOMAIN m, m[j].id # id PROVE \E i \in DOMAIN l : m[j] = l[i]
    BY <1>5, <2>1, <2>2 DEF Evicts
  <2>3. ASSUME NEW i \in DOMAIN l, l[i].id = id PROVE \E j \in DOMAIN m : m[j] = l[i]
    <3>1. PICK j \in DOMAIN b : b[j] = l[i]
      BY <2>1, <2>3 DEF Evicts
    <3>2. j \notin s
      BY <1>3, <3>1 DEF Filled
    <3> QED BY <1>5, <3>1, <3>2
  <2>4. \A y : y # id => (Entry(m, y) = {} <=> Entry(b, y) = {})
    <3> SUFFICES ASSUME NEW y, y # id PROVE Entry(m, y) = {} <=> Entry(b, y) = {}
      OBVIOUS
    <3>1. ASSUME NEW j \in DOMAIN m, m[j].id = y PROVE Entry(b, y) # {}
      BY <1>5, <3>1 DEF Entry
    <3>2. ASSUME NEW i \in DOMAIN b, b[i].id = y PROVE Entry(m, y) # {}
      <4>1. i \notin s
        BY <1>3, <3>2
      <4> QED BY <1>5, <3>2, <4>1 DEF Entry
    <3> QED BY <3>1, <3>2 DEF Entry
  <2>5. ASSUME NEW i \in DOMAIN l, NEW g \in DOMAIN l,
               l[i].id # id, l[g].id # id, l[g].timer < l[i].timer,
               Entry(m, l[i].id) = {}
        PROVE  Entry(m, l[g].id) = {}
    BY <2>1, <2>4, <2>5 DEF Evicts
  <2> QED BY <2>2, <2>3, <2>5 DEF Evicts
<1> QED BY <1>7, <1>8, <1>10, <1>11, <1>12 DEF k

\* The fragment joins the datagram at a.
LEMMA QueuedResult ==
  ASSUME NEW l \in Seq(Datagrams), NEW id, NEW st, Balanced(st, ReassHeld(l)), Sound(st.l),
         NEW a \in DOMAIN st.l, st.l[a].id = id, Evicts(l, st.l, id),
         \A i \in DOMAIN st.l : i # a => st.l[i].frags # {},
         NEW f \in Fragments, \A g \in st.l[a].frags : ~ Overlap(f, g)
  PROVE  ReassResult(l, id, Clen({f}), [st |-> Queued(st, a, f), up |-> Leaves(st.l[a].frags \cup {f})])
<1> DEFINE u == st.l[a].frags \cup {f}
           q == Queued(st, a, f)
           o == [st |-> q, up |-> Leaves(u)]
           t == ReassHeld(l)
           n == Clen({f})
<1>1. /\ q \in States /\ q.count = ReassHeld(q.l) /\ Sound(q.l)
      /\ (ReassHeld(q.l) + q.freed) + Clen(Leaves(u)) = t + n
      /\ Becomes(st.l, q.l, a, u)
      /\ u \in SUBSET Fragments /\ Apart(u)
  <2>1. t \in Nat
    BY HeldTotal
  <2> HIDE DEF t
  <2> QED BY <2>1, QueuedFacts DEF t
<1>2. u # {} /\ o.st = q /\ o.up = Leaves(u)
  OBVIOUS
<1>3. Spares(l, q.l, id, Leaves(u))
  <2>1. Uniq(st.l)
    BY DEF Sound
  <2> HIDE DEF q
  <2> QED BY <1>1, <2>1, BecomesSpares
<1> HIDE DEF u, q, o, t, n
<1>4. Filled(q.l)
  BY <1>1, <1>2 DEF Becomes, Filled
<1>5. Delivered(Leaves(u))
  BY <1>1 DEF Delivered, Leaves
<1>6. q.freed \in Nat
  BY <1>1 DEF States
<1>7. ReassResult(l, id, n, o)
  BY <1>1, <1>2, <1>3, <1>4, <1>5, <1>6 DEF ReassResult, t
<1> QED BY <1>7 DEF u, q, o, n

\* ip4_reass: every way through it has a good result.
LEMMA ReassFacts ==
  ASSUME NEW l, Sound(l), Filled(l), NEW id \in Ids, NEW f \in Fragments,
         NEW ok \in BOOLEAN
  PROVE  ReassResult(l, id, Clen({f}), Reass(l, ReassHeld(l), id, f, ok))
<1> DEFINE n == Clen({f})
           b == [l |-> l, count |-> ReassHeld(l), freed |-> 0]
           r == WithRoom(b, id, n)
           e == WithEntry(r, id, n)
           at == CHOOSE i \in Entry(e.l, id) : TRUE
           u == e.l[at].frags \cup {f}
           t == ReassHeld(l)
           R == Reass(l, ReassHeld(l), id, f, ok)
           gone(st) == [st |-> Dropped(st, n), up |-> {}]
           kept == [st |-> Queued(e, at, f), up |-> Leaves(u)]
<1>1. R = IF r.count + n > MaxPbufs THEN gone(r)
          ELSE IF Entry(e.l, id) = {} THEN gone(e)
          ELSE IF ~ok \/ \E g \in e.l[at].frags : Overlap(f, g) THEN gone(Unmade(e, id))
          ELSE kept
  BY DEF Reass, Leaves
<1>2. l \in Seq(Datagrams) /\ Uniq(l) /\ t \in Nat /\ n \in Nat
  <2>1. {f} \in SUBSET Fragments
    OBVIOUS
  <2>2. n \in Nat
    BY <2>1, ClenTotal
  <2> QED BY <2>2, HeldTotal DEF Sound
<1>3. Balanced(b, t) /\ b.l = l
  BY <1>2 DEF Balanced, States
<1> HIDE DEF b, n, t
<1>4. Balanced(r, t) /\ Sound(r.l) /\ Evicts(l, r.l, id) /\ SomeOf(l, r.l)
  BY <1>2, <1>3, WithRoomKeeps
<1> HIDE DEF r
<1>5. EntryOf(r, e, t, id)
  BY <1>2, <1>4, WithEntryKeeps
<1> HIDE DEF e
<1>6. /\ Balanced(e, t) /\ Sound(e.l) /\ Evicts(r.l, e.l, id)
      /\ \A j \in DOMAIN e.l : e.l[j].id = id \/ \E i \in DOMAIN r.l : e.l[j] = r.l[i]
  BY <1>5 DEF EntryOf
<1>7. Evicts(l, e.l, id)
  BY <1>2, <1>4, <1>6, EvictsTwice
<1>8. Filled(r.l)
  BY <1>4 DEF SomeOf, Filled
<1>9. \A j \in DOMAIN e.l : e.l[j].id # id => e.l[j].frags # {}
  BY <1>6, <1>8 DEF Filled
<1>10. Entry(e.l, id) # {} => /\ at \in DOMAIN e.l /\ e.l[at].id = id
                              /\ \A j \in DOMAIN e.l : j # at => e.l[j].id # id
  <2>1. Uniq(e.l)
    BY <1>6 DEF Sound
  <2>2. Entry(e.l, id) # {} => at \in Entry(e.l, id)
    OBVIOUS
  <2> HIDE DEF at
  <2> QED BY <2>1, <2>2 DEF Entry, Uniq
<1> HIDE DEF at, R
<1>11. ReassResult(l, id, n, gone(r))
  BY <1>2, <1>4, <1>8, DroppedResult DEF t
<1>12. ASSUME Entry(e.l, id) = {}
       PROVE  ReassResult(l, id, n, gone(e))
  <2>1. Filled(e.l)
    BY <1>9, <1>12 DEF Filled, Entry
  <2> QED BY <1>2, <1>6, <1>7, <2>1, DroppedResult DEF t
<1>13. ReassResult(l, id, n, gone(Unmade(e, id)))
  <2> DEFINE k == Unmade(e, id)
  <2>1. Balanced(k, t) /\ Sound(k.l) /\ Filled(k.l) /\ Evicts(l, k.l, id)
    BY <1>2, <1>6, <1>7, <1>9, UnmadeKeeps
  <2> HIDE DEF k
  <2>2. ReassResult(l, id, n, gone(k))
    BY <1>2, <2>1, DroppedResult DEF t
  <2> QED BY <2>2 DEF k
<1>14. ASSUME Entry(e.l, id) # {}, ~ \E g \in e.l[at].frags : Overlap(f, g)
       PROVE  ReassResult(l, id, n, kept)
  <2>1. at \in DOMAIN e.l /\ e.l[at].id = id /\ \A j \in DOMAIN e.l : j # at => e.l[j].frags # {}
    BY <1>9, <1>10, <1>14
  <2> QED BY <1>2, <1>6, <1>7, <1>14, <2>1, QueuedResult DEF t, n
<1> HIDE DEF gone, kept
<1>15. ReassResult(l, id, n, R)
  BY <1>1, <1>11, <1>12, <1>13, <1>14
<1> QED BY <1>15 DEF R, n

\* The timer of reassembly frees what has no time left.
LEMMA ReassTmrFacts ==
  ASSUME NEW l, Sound(l), Filled(l)
  PROVE  LET o == ReassTmr(l, ReassHeld(l)) IN
         /\ Sound(o.l) /\ Filled(o.l)
         /\ o.count = ReassHeld(o.l) /\ o.freed \in Nat
         /\ ReassHeld(o.l) + o.freed = ReassHeld(l)
<1> DEFINE b == [l |-> l, count |-> ReassHeld(l), freed |-> 0]
           t == ReassHeld(l)
           s == {i \in DOMAIN l : l[i].timer = 0}
           k == Free(b, s)
           aged == [i \in DOMAIN k.l |-> [k.l[i] EXCEPT !.timer = @ - 1]]
           o == ReassTmr(l, ReassHeld(l))
<1>1. l \in Seq(Datagrams) /\ t \in Nat
  BY HeldTotal DEF Sound
<1>2. Balanced(b, t) /\ b.l = l
  BY <1>1 DEF Balanced, States
<1>3. s \in SUBSET DOMAIN l
  OBVIOUS
<1>4. Balanced(k, t)
  <2> HIDE DEF b, s, t
  <2> QED BY <1>2, <1>3, FreeBalanced
<1>5. k.l = Without(l, s)
  BY DEF Free
<1>6. Sound(k.l) /\ SomeOf(l, k.l) /\ \A j \in DOMAIN k.l : \E i \in DOMAIN l \ s : k.l[j] = l[i]
  <2> HIDE DEF s, k
  <2>1. Sound(k.l) /\ SomeOf(l, k.l)
    BY <1>3, <1>5, WithoutSound
  <2>2. \A j \in DOMAIN k.l : \E i \in DOMAIN l \ s : k.l[j] = l[i]
    BY <1>1, <1>3, <1>5, WithoutFacts
  <2> QED BY <2>1, <2>2
<1>7. o = [k EXCEPT !.l = aged]
  BY DEF ReassTmr
<1>8. k \in States /\ k.count = ReassHeld(k.l) /\ ReassHeld(k.l) + k.freed = t
  BY <1>4 DEF Balanced
<1>9. \A j \in DOMAIN k.l : k.l[j] \in Datagrams /\ k.l[j].timer # 0
  <2> SUFFICES ASSUME NEW j \in DOMAIN k.l PROVE k.l[j] \in Datagrams /\ k.l[j].timer # 0
    OBVIOUS
  <2>1. PICK i \in DOMAIN l \ s : k.l[j] = l[i]
    BY <1>6
  <2> QED BY <1>1, <2>1, ListFacts
<1> HIDE DEF b, s, k, t, o
<1>10. \A j \in DOMAIN k.l : /\ aged[j] \in Datagrams
                             /\ aged[j].id = k.l[j].id /\ aged[j].frags = k.l[j].frags
  <2> SUFFICES ASSUME NEW j \in DOMAIN k.l
               PROVE  /\ aged[j] \in Datagrams
                      /\ aged[j].id = k.l[j].id /\ aged[j].frags = k.l[j].frags
    OBVIOUS
  <2>1. k.l[j] \in Datagrams /\ k.l[j].timer # 0 /\ k.l[j].timer \in 0 .. ReassMaxAge
    BY <1>9, DatagramFacts
  <2>2. k.l[j].timer - 1 \in 0 .. ReassMaxAge
    BY <2>1, ReassConstantsOK
  <2>3. aged[j] = [k.l[j] EXCEPT !.timer = k.l[j].timer - 1]
    OBVIOUS
  <2> HIDE DEF aged
  <2> QED BY <2>1, <2>2, <2>3 DEF Datagrams
<1>11. aged \in Seq(Datagrams) /\ DOMAIN aged = DOMAIN k.l
  <2>1. k.l \in Seq(Datagrams)
    BY <1>8 DEF States
  <2>2. DOMAIN k.l = 1 .. Len(k.l) /\ Len(k.l) \in Nat
    BY <2>1, ListFacts
  <2>3. \A j \in 1 .. Len(k.l) : aged[j] \in Datagrams
    BY <1>10, <2>2
  <2>4. DOMAIN aged = 1 .. Len(k.l)
    BY <2>2
  <2>5. aged = [j \in 1 .. Len(k.l) |-> aged[j]]
    BY <2>4
  <2> HIDE DEF aged
  <2> QED BY <2>2, <2>3, <2>4, <2>5, IsASeq
<1>12. o.l = aged /\ o.count = k.count /\ o.freed = k.freed /\ k.freed \in Nat /\ k.l \in Seq(Datagrams)
  BY <1>7, <1>8 DEF States
<1> HIDE DEF aged
<1>13. Sound(aged)
  BY <1>6, <1>10, <1>11 DEF Sound, Uniq
<1>14. Filled(aged)
  BY <1>6, <1>10, <1>11 DEF Filled, SomeOf
<1>15. ReassHeld(aged) = ReassHeld(k.l)
  BY <1>10, <1>11, <1>12, HeldSame
<1> QED BY <1>8, <1>12, <1>13, <1>14, <1>15 DEF o, t

\* A datagram that is whole has every byte once.
LEMMA WholeExact ==
  ASSUME NEW u \in SUBSET Fragments, Apart(u), Whole(u), NEW b \in 0 .. Size - 1
  PROVE  Cardinality({f \in u : f.start <= b /\ b < f.end}) = 1
<1> DEFINE has(f) == f.start <= b /\ b < f.end
           C == {f \in u : has(f)}
           after == {f \in u : b < f.start}
           T == {f.start : f \in after}
<1>1. \A f \in u : f.start \in Nat /\ f.end \in Nat /\ f.start < f.end
  BY FragmentFacts, ReassConstantsOK
<1>2. b \in Nat /\ b < Size /\ Size \in Nat
  BY ReassConstantsOK
<1>3. \A f \in u : \A g \in u : has(f) /\ has(g) => f = g
  <2> SUFFICES ASSUME NEW f \in u, NEW g \in u, has(f), has(g) PROVE f = g
    OBVIOUS
  <2>1. f.start < g.end /\ g.start < f.end
    BY <1>1, <1>2
  <2> QED BY <2>1 DEF Apart
<1>4. C # {}
  <2> SUFFICES ASSUME C = {} PROVE FALSE
    OBVIOUS
  <2>1. \A f \in u : b < f.end => b < f.start
    BY <1>1, <1>2
  <2>2. PICK z \in u : z.end = Size
    BY DEF Whole
  <2>3. z \in after
    BY <1>2, <2>1, <2>2
  <2>4. T \subseteq Nat /\ T # {}
    BY <1>1, <2>3
  <2>5. PICK x \in T : \A y \in T : x <= y
    BY <2>4, LeastElement
  <2>6. PICK f \in after : x = f.start
    BY <2>5
  <2>7. f \in u /\ b < f.start /\ f.start # 0
    BY <1>1, <1>2, <2>6
  <2>8. PICK g \in u : g.end = f.start
    BY <2>7 DEF Whole
  <2>9. b < g.start /\ g.start < x
    BY <1>1, <2>1, <2>6, <2>7, <2>8
  <2>10. g.start \in T
    BY <2>9
  <2>11. x <= g.start
    BY <2>5, <2>10
  <2>12. x \in Nat /\ g.start \in Nat
    BY <1>1, <2>4
  <2> HIDE DEF T, after, C
  <2> QED BY <2>9, <2>11, <2>12
<1>5. PICK f \in C : TRUE
  BY <1>4
<1>6. C = {f}
  BY <1>3, <1>5
<1> HIDE DEF C
<1>7. Cardinality(C) = 1
  BY <1>6, FS_Singleton
<1> QED BY <1>7 DEF C

-----------------------------------------------------------------------------
(* The holders of buffers: connections and ARP entries.                    *)

Shares(max) == [n : Nat, age : 0 .. max - 1]

Queues(S, max) == [S -> Shares(max)]

Put(q, a, r) == [q EXCEPT ![a] = r]

\* What the holders hold is a sum, and each holds no more than all.
LEMMA QueueFacts ==
  ASSUME NEW S, IsFiniteSet(S), NEW max \in Nat \ {0}, NEW q \in Queues(S, max)
  PROVE  /\ HeldIn(q) = Total(NOf(q), S) /\ HeldIn(q) \in Nat
         /\ \A x \in S : NOf(q)[x] = q[x].n /\ q[x].n \in Nat /\ q[x].n <= HeldIn(q)
<1> DEFINE f == NOf(q)
<1>1. DOMAIN q = S /\ \A x \in S : q[x].n \in Nat
  BY DEF Queues, Shares
<1>2. HeldIn(q) = Total(f, S) /\ HeldIn(q) \in Nat
  BY <1>1, HeldInTotal
<1>3. \A x \in S : f[x] = q[x].n /\ f[x] \in Nat
  BY <1>1 DEF NOf
<1> HIDE DEF f
<1>4. \A x \in S : Total(f, S) >= f[x]
  BY <1>3, TotalTerm
<1>5. \A x \in S : q[x].n <= HeldIn(q)
  <2> SUFFICES ASSUME NEW x \in S PROVE q[x].n <= HeldIn(q)
    OBVIOUS
  <2>1. HeldIn(q) >= q[x].n /\ q[x].n \in Nat
    BY <1>1, <1>2, <1>3, <1>4
  <2> QED BY <1>2, <2>1
<1> QED BY <1>1, <1>2, <1>3, <1>5 DEF f

\* One holder changes.
LEMMA QueueChange ==
  ASSUME NEW S, IsFiniteSet(S), NEW max \in Nat \ {0}, NEW q \in Queues(S, max),
         NEW a \in S, NEW r \in Shares(max)
  PROVE  /\ Put(q, a, r) \in Queues(S, max)
         /\ \E x \in Nat : HeldIn(q) = q[a].n + x /\ HeldIn(Put(q, a, r)) = r.n + x
<1> DEFINE p == Put(q, a, r)
           f == NOf(q)
           e == NOf(p)
<1>1. p \in Queues(S, max) /\ p[a] = r /\ \A x \in S : x # a => p[x] = q[x]
  BY DEF Queues, Put
<1> HIDE DEF p
<1>2. HeldIn(q) = Total(f, S) /\ \A x \in S : f[x] = q[x].n /\ f[x] \in Nat
  BY QueueFacts
<1>3. HeldIn(p) = Total(e, S) /\ \A x \in S : e[x] = p[x].n /\ e[x] \in Nat
  BY <1>1, QueueFacts
<1> HIDE DEF f, e
<1>4. DiffersAt(f, e, S, a)
  BY <1>1, <1>2, <1>3 DEF DiffersAt
<1>5. PICK x \in Nat : Total(f, S) = f[a] + x /\ Total(e, S) = e[a] + x
  BY <1>4, TotalChange
<1>6. f[a] = q[a].n /\ e[a] = r.n
  BY <1>1, <1>2, <1>3
<1>7. HeldIn(q) = q[a].n + x /\ HeldIn(p) = r.n + x
  BY <1>2, <1>3, <1>5, <1>6
<1> QED BY <1>1, <1>7 DEF p

\* Where each holds nothing or what it held, all hold no more.
LEMMA FewerHeld ==
  ASSUME NEW S, IsFiniteSet(S), NEW max \in Nat \ {0}, NEW q \in Queues(S, max),
         NEW p \in Queues(S, max), \A x \in S : p[x].n = 0 \/ p[x].n = q[x].n
  PROVE  HeldIn(p) \in Nat /\ HeldIn(p) <= HeldIn(q)
<1> DEFINE f == NOf(q)
           e == NOf(p)
<1>1. HeldIn(q) = Total(f, S) /\ \A x \in S : f[x] = q[x].n /\ q[x].n \in Nat
  BY QueueFacts
<1>2. HeldIn(p) = Total(e, S) /\ HeldIn(p) \in Nat /\ \A x \in S : e[x] = p[x].n /\ p[x].n \in Nat
  BY QueueFacts
<1> HIDE DEF f, e
<1>3. \A x \in S : e[x] \in Nat /\ f[x] \in Nat /\ e[x] <= f[x]
  <2> SUFFICES ASSUME NEW x \in S PROVE e[x] \in Nat /\ f[x] \in Nat /\ e[x] <= f[x]
    OBVIOUS
  <2>1. e[x] \in Nat /\ f[x] \in Nat /\ (e[x] = 0 \/ e[x] = f[x])
    BY <1>1, <1>2
  <2> QED BY <2>1
<1>4. Total(e, S) <= Total(f, S)
  BY <1>3, TotalGrows
<1> QED BY <1>1, <1>2, <1>4

\* A tick frees, and never takes.
LEMMA TickedFacts ==
  ASSUME NEW S, IsFiniteSet(S), NEW max \in Nat \ {0}, NEW q \in Queues(S, max)
  PROVE  LET p == Ticked(q, max) IN
         /\ p \in Queues(S, max) /\ HeldIn(p) \in Nat /\ HeldIn(p) <= HeldIn(q)
         /\ \A x \in S : p[x].n = 0 \/ p[x].n = q[x].n
<1> DEFINE p == Ticked(q, max)
<1>1. DOMAIN q = S /\ DOMAIN p = S
  BY DEF Queues, Ticked
<1>2. \A x \in S : /\ p[x] \in Shares(max)
                   /\ p[x].n = 0 \/ p[x].n = q[x].n
  <2> SUFFICES ASSUME NEW x \in S
               PROVE  /\ p[x] \in Shares(max)
                      /\ p[x].n = 0 \/ p[x].n = q[x].n
    OBVIOUS
  <2>1. q[x] \in Shares(max)
    BY DEF Queues
  <2>2. p[x] = IF q[x].n = 0 \/ q[x].age + 1 >= max THEN Nothing
               ELSE [q[x] EXCEPT !.age = q[x].age + 1]
    BY <1>1 DEF Ticked
  <2> HIDE DEF p
  <2>3. CASE q[x].n = 0 \/ q[x].age + 1 >= max
    BY <2>2, <2>3 DEF Nothing, Shares
  <2>4. CASE ~(q[x].n = 0 \/ q[x].age + 1 >= max)
    BY <2>1, <2>2, <2>4 DEF Shares
  <2> QED BY <2>3, <2>4
<1>3. p \in Queues(S, max)
  <2>1. p = [x \in S |-> p[x]]
    BY <1>1 DEF Ticked
  <2> HIDE DEF p
  <2> QED BY <1>2, <2>1 DEF Queues
<1> HIDE DEF p
<1>4. HeldIn(p) \in Nat /\ HeldIn(p) <= HeldIn(q)
  BY <1>2, <1>3, FewerHeld
<1> QED BY <1>2, <1>3, <1>4 DEF p

\* So does what is given back at once.
LEMMA SentFacts ==
  ASSUME NEW S, IsFiniteSet(S), NEW max \in Nat \ {0}, NEW q \in Queues(S, max), NEW s
  PROVE  LET p == Sent(q, s) IN
         /\ p \in Queues(S, max) /\ HeldIn(p) \in Nat /\ HeldIn(p) <= HeldIn(q)
         /\ \A x \in S : p[x].n = 0 \/ p[x].n = q[x].n
<1> DEFINE p == Sent(q, s)
<1>1. DOMAIN q = S /\ DOMAIN p = S
  BY DEF Queues, Sent
<1>2. \A x \in S : /\ p[x] \in Shares(max)
                   /\ p[x].n = 0 \/ p[x].n = q[x].n
  <2> SUFFICES ASSUME NEW x \in S
               PROVE  /\ p[x] \in Shares(max)
                      /\ p[x].n = 0 \/ p[x].n = q[x].n
    OBVIOUS
  <2>1. q[x] \in Shares(max)
    BY DEF Queues
  <2>2. p[x] = IF x \in s THEN [q[x] EXCEPT !.n = 0] ELSE q[x]
    BY <1>1 DEF Sent
  <2> HIDE DEF p
  <2> QED BY <2>1, <2>2 DEF Shares
<1>3. p \in Queues(S, max)
  <2>1. p = [x \in S |-> p[x]]
    BY <1>1 DEF Sent
  <2> HIDE DEF p
  <2> QED BY <1>2, <2>1 DEF Queues
<1> HIDE DEF p
<1>4. HeldIn(p) \in Nat /\ HeldIn(p) <= HeldIn(q)
  BY <1>2, <1>3, FewerHeld
<1> QED BY <1>2, <1>3, <1>4 DEF p

\* The constants of the ARP table.
LEMMA SlotsFacts == IsFiniteSet(Slots) /\ ArpMaxAge \in Nat \ {0}
BY RxPathConstantsOK

\* The queue of answers becomes q, and gives back what it no longer holds.
LEMMA AnswersFacts ==
  ASSUME NEW free \in Nat, arpq \in Queues(Slots, ArpMaxAge),
         NEW q \in Queues(Slots, ArpMaxAge), HeldIn(q) <= free + HeldIn(arpq), Answers(q, free)
  PROVE  /\ arpq' = q /\ HeldIn(arpq) \in Nat /\ HeldIn(arpq') \in Nat
         /\ avail' \in Nat /\ avail' + HeldIn(arpq') = free + HeldIn(arpq)
<1> DEFINE h == HeldIn(arpq)
           k == HeldIn(q)
           v == avail'
<1>1. h \in Nat /\ k \in Nat
  BY SlotsFacts, QueueFacts
<1>2. arpq' = q /\ v = free + h - k /\ k <= free + h
  BY DEF Answers
<1>3. HeldIn(arpq') = k
  BY <1>2
<1> HIDE DEF h, k, v
<1>4. v \in Nat /\ v + k = free + h
  BY <1>1, <1>2
<1> QED BY <1>1, <1>2, <1>3, <1>4 DEF h, v

\* What is sent gives buffers back.
LEMMA SendingFacts ==
  ASSUME NEW free \in Nat, arpq \in Queues(Slots, ArpMaxAge), Sending(free)
  PROVE  /\ arpq' \in Queues(Slots, ArpMaxAge) /\ avail' \in Nat
         /\ avail' + HeldIn(arpq') = free + HeldIn(arpq)
         /\ HeldIn(arpq) \in Nat /\ HeldIn(arpq') \in Nat
<1>1. PICK s \in SUBSET Slots : Answers(Sent(arpq, s), free)
  BY DEF Sending
<1> DEFINE q == Sent(arpq, s)
           h == HeldIn(arpq)
           k == HeldIn(q)
<1>2. q \in Queues(Slots, ArpMaxAge) /\ k \in Nat /\ k <= h
  BY SlotsFacts, SentFacts
<1>3. h \in Nat
  BY SlotsFacts, QueueFacts
<1>4. Answers(q, free)
  BY <1>1
<1> HIDE DEF q
<1>5. k <= free + h
  <2> HIDE DEF k, h
  <2> QED BY <1>2, <1>3
<1> QED BY <1>2, <1>4, <1>5, AnswersFacts

\* An answer that waits holds n buffers, and gives back what waited.
LEMMA PingFacts ==
  ASSUME NEW free \in Nat, NEW n \in Nat, n <= free, NEW a \in Slots,
         arpq \in Queues(Slots, ArpMaxAge), Ping(a, n, free)
  PROVE  /\ arpq' \in Queues(Slots, ArpMaxAge) /\ avail' \in Nat
         /\ avail' + HeldIn(arpq') = free + HeldIn(arpq)
         /\ HeldIn(arpq) \in Nat /\ HeldIn(arpq') \in Nat
<1>1. PICK s \in SUBSET Slots, age \in {0, arpq[a].age} :
        Answers([Sent(arpq, s) EXCEPT ![a] = [n |-> n, age |-> age]], free)
  BY DEF Ping
<1> DEFINE p == Sent(arpq, s)
           r == [n |-> n, age |-> age]
           q == Put(p, a, r)
           h == HeldIn(arpq)
           k == HeldIn(p)
<1>2. arpq[a].age \in 0 .. ArpMaxAge - 1 /\ 0 \in 0 .. ArpMaxAge - 1
  BY SlotsFacts DEF Queues, Shares
<1>3. r \in Shares(ArpMaxAge) /\ r.n = n
  BY <1>1, <1>2 DEF Shares
<1>4. Answers(q, free)
  BY <1>1 DEF Put
<1>5. p \in Queues(Slots, ArpMaxAge) /\ k \in Nat /\ k <= h
  BY SlotsFacts, SentFacts
<1>6. h \in Nat
  BY SlotsFacts, QueueFacts
<1> HIDE DEF r, p
<1>7. q \in Queues(Slots, ArpMaxAge) /\ \E x \in Nat : k = p[a].n + x /\ HeldIn(q) = r.n + x
  BY <1>3, <1>5, SlotsFacts, QueueChange
<1>8. PICK x \in Nat : k = p[a].n + x /\ HeldIn(q) = r.n + x
  BY <1>7
<1>9. p[a].n \in Nat
  BY <1>5, SlotsFacts, QueueFacts
<1> DEFINE m == p[a].n
           z == HeldIn(q)
<1>10. z <= free + h
  <2>1. k = m + x /\ z = n + x /\ m \in Nat
    BY <1>3, <1>8, <1>9
  <2> HIDE DEF k, h, m, z
  <2> QED BY <1>5, <1>6, <2>1
<1> HIDE DEF q
<1> QED BY <1>4, <1>7, <1>10, AnswersFacts

-----------------------------------------------------------------------------
(* The buffers, step by step.                                              *)

BufInv ==
  /\ avail \in Nat
  /\ ooseq \in Queues(Pcbs, OoseqMaxAge) /\ arpq \in Queues(Slots, ArpMaxAge)
  /\ Sound(reassdatagrams) /\ Filled(reassdatagrams)
  /\ ip_reass_pbufcount = ReassHeld(reassdatagrams)
  /\ avail + ReassHeld(reassdatagrams) + HeldIn(ooseq) + HeldIn(arpq) = PoolSize
  /\ Delivered(up)

\* The constants of the connections.
LEMMA PcbsFacts == IsFiniteSet(Pcbs) /\ OoseqMaxAge \in Nat \ {0}
BY RxPathConstantsOK

\* Sums and shares are naturals.
LEMMA BufFacts ==
  ASSUME BufInv
  PROVE  /\ HeldIn(ooseq) \in Nat /\ HeldIn(arpq) \in Nat /\ ReassHeld(reassdatagrams) \in Nat
         /\ \A c \in Pcbs : ooseq[c].n \in Nat /\ ooseq[c].n <= HeldIn(ooseq)
         /\ \A a \in Slots : arpq[a].n \in Nat /\ arpq[a].n <= HeldIn(arpq)
<1>1. HeldIn(ooseq) \in Nat /\ \A c \in Pcbs : ooseq[c].n \in Nat /\ ooseq[c].n <= HeldIn(ooseq)
  BY PcbsFacts, QueueFacts DEF BufInv
<1>2. HeldIn(arpq) \in Nat /\ \A a \in Slots : arpq[a].n \in Nat /\ arpq[a].n <= HeldIn(arpq)
  BY SlotsFacts, QueueFacts DEF BufInv
<1>3. ReassHeld(reassdatagrams) \in Nat
  BY HeldTotal DEF BufInv, Sound
<1> QED BY <1>1, <1>2, <1>3

\* A step that leaves reassembly alone.
LEMMA BufNext ==
  ASSUME BufInv, avail' \in Nat, ooseq' \in Queues(Pcbs, OoseqMaxAge),
         arpq' \in Queues(Slots, ArpMaxAge),
         reassdatagrams' = reassdatagrams, ip_reass_pbufcount' = ip_reass_pbufcount,
         up' = {},
         avail' + HeldIn(ooseq') + HeldIn(arpq') = avail + HeldIn(ooseq) + HeldIn(arpq)
  PROVE  BufInv'
<1> DEFINE r == ReassHeld(reassdatagrams)
           o == HeldIn(ooseq)
           a == HeldIn(arpq)
           p == HeldIn(ooseq')
           b == HeldIn(arpq')
           v == avail
           w == avail'
<1>1. r \in Nat /\ o \in Nat /\ a \in Nat /\ v \in Nat /\ v + r + o + a = PoolSize
  BY BufFacts DEF BufInv
<1>2. p \in Nat /\ b \in Nat
  BY PcbsFacts, SlotsFacts, QueueFacts
<1>3. w \in Nat /\ w + p + b = v + o + a
  OBVIOUS
<1> HIDE DEF r, o, a, p, b, v, w
<1>4. w + r + p + b = PoolSize
  BY <1>1, <1>2, <1>3
<1>5. Delivered(up')
  BY DEF Delivered
<1> QED BY <1>4, <1>5 DEF BufInv, r, p, b, w

\* A step that leaves all buffers where they are.
LEMMA BufSame ==
  ASSUME BufInv, UNCHANGED <<avail, reassVars, ooseq, arpq>>, up' = {}
  PROVE  BufInv'
BY DEF BufInv, Delivered, reassVars

\* One connection's share changes.
LEMMA OoseqPut ==
  ASSUME BufInv, NEW c \in Pcbs, NEW n \in Nat, NEW age \in 0 .. OoseqMaxAge - 1,
         ooseq' = [ooseq EXCEPT ![c] = [n |-> n, age |-> age]]
  PROVE  /\ ooseq' \in Queues(Pcbs, OoseqMaxAge) /\ ooseq[c].n \in Nat
         /\ \E x \in Nat : HeldIn(ooseq) = ooseq[c].n + x /\ HeldIn(ooseq') = n + x
<1> DEFINE r == [n |-> n, age |-> age]
           q == ooseq
<1>1. r \in Shares(OoseqMaxAge) /\ r.n = n
  BY DEF Shares
<1>2. ooseq' = Put(q, c, r)
  BY DEF Put
<1>3. q \in Queues(Pcbs, OoseqMaxAge)
  BY DEF BufInv
<1> HIDE DEF r, q
<1>4. /\ Put(q, c, r) \in Queues(Pcbs, OoseqMaxAge)
      /\ \E x \in Nat : HeldIn(q) = q[c].n + x /\ HeldIn(Put(q, c, r)) = r.n + x
  BY <1>1, <1>3, PcbsFacts, QueueChange
<1>5. q[c].n \in Nat
  BY BufFacts DEF q
<1> QED BY <1>1, <1>2, <1>4, <1>5 DEF q

\* The sizes a step chooses are naturals.
LEMMA FrameSizes ==
  /\ \A n \in 1 .. MaxFrame : n \in Nat
  /\ \A k \in 1 .. PoolSize : k \in Nat
  /\ 0 \in 0 .. OoseqMaxAge - 1
BY RxPathConstantsOK

\* What the holders and the pool have together is what they had, and free.
Settled(free) ==
  /\ ooseq' \in Queues(Pcbs, OoseqMaxAge) /\ arpq' \in Queues(Slots, ArpMaxAge)
  /\ avail' \in Nat
  /\ avail' + HeldIn(ooseq') + HeldIn(arpq') = free + HeldIn(ooseq) + HeldIn(arpq)

\* What connections take or give back is settled by what is sent.
LEMMA SentSettled ==
  ASSUME BufInv, NEW free \in Nat, NEW g \in Nat, Sending(g),
         ooseq' \in Queues(Pcbs, OoseqMaxAge), g + HeldIn(ooseq') = free + HeldIn(ooseq)
  PROVE  Settled(free)
<1>1. arpq \in Queues(Slots, ArpMaxAge)
  BY DEF BufInv
<1>2. /\ arpq' \in Queues(Slots, ArpMaxAge) /\ avail' \in Nat
      /\ avail' + HeldIn(arpq') = g + HeldIn(arpq)
      /\ HeldIn(arpq) \in Nat /\ HeldIn(arpq') \in Nat
  BY <1>1, SendingFacts
<1>3. HeldIn(ooseq) \in Nat /\ HeldIn(ooseq') \in Nat
  BY PcbsFacts, QueueFacts, BufFacts
<1> DEFINE a == HeldIn(arpq)
           b == HeldIn(arpq')
           o == HeldIn(ooseq)
           p == HeldIn(ooseq')
           w == avail'
<1>4. w + p + b = free + o + a
  <2>1. a \in Nat /\ b \in Nat /\ o \in Nat /\ p \in Nat /\ w \in Nat
        /\ w + b = g + a /\ g + p = free + o
    BY <1>2, <1>3
  <2> HIDE DEF a, b, o, p, w
  <2> QED BY <2>1
<1> QED BY <1>2, <1>4 DEF Settled

\* A chain that is freed.
LEMMA ConsumedFacts ==
  ASSUME BufInv, NEW free \in Nat, Consumed(free)
  PROVE  Settled(free)
<1>1. ooseq' \in Queues(Pcbs, OoseqMaxAge) /\ HeldIn(ooseq') = HeldIn(ooseq)
  <2>1. CASE ooseq' = ooseq
    BY <2>1 DEF BufInv
  <2>2. ASSUME NEW c \in Pcbs, ooseq' = [ooseq EXCEPT ![c].age = 0]
        PROVE  ooseq' \in Queues(Pcbs, OoseqMaxAge) /\ HeldIn(ooseq') = HeldIn(ooseq)
    <3> DEFINE n == ooseq[c].n
    <3>1. ooseq[c] \in Shares(OoseqMaxAge)
      BY DEF BufInv, Queues
    <3>2. [ooseq[c] EXCEPT !.age = 0] = [n |-> n, age |-> 0]
      BY <3>1 DEF Shares
    <3>3. ooseq' = [ooseq EXCEPT ![c] = [n |-> n, age |-> 0]]
      BY <2>2, <3>2
    <3>4. n \in Nat
      BY BufFacts
    <3> HIDE DEF n
    <3>5. /\ ooseq' \in Queues(Pcbs, OoseqMaxAge)
          /\ \E x \in Nat : HeldIn(ooseq) = ooseq[c].n + x /\ HeldIn(ooseq') = n + x
      BY <3>3, <3>4, FrameSizes, OoseqPut
    <3> QED BY <3>5 DEF n
  <2> QED BY <2>1, <2>2 DEF Consumed
<1>2. free + HeldIn(ooseq') = free + HeldIn(ooseq)
  BY <1>1
<1> QED BY <1>1, <1>2, SentSettled DEF Consumed

\* A chain that waits for ARP.
LEMMA PingSettled ==
  ASSUME BufInv, NEW free \in Nat, NEW n \in Nat, n <= free, NEW a \in Slots, Ping(a, n, free)
  PROVE  Settled(free)
<1>1. arpq \in Queues(Slots, ArpMaxAge) /\ ooseq \in Queues(Pcbs, OoseqMaxAge) /\ ooseq' = ooseq
  BY DEF BufInv, Ping
<1>2. /\ arpq' \in Queues(Slots, ArpMaxAge) /\ avail' \in Nat
      /\ avail' + HeldIn(arpq') = free + HeldIn(arpq)
      /\ HeldIn(arpq) \in Nat /\ HeldIn(arpq') \in Nat
  BY <1>1, PingFacts
<1>3. HeldIn(ooseq) \in Nat
  BY BufFacts
<1>4. avail' + HeldIn(ooseq') + HeldIn(arpq') = free + HeldIn(ooseq) + HeldIn(arpq)
  BY <1>1, <1>2, <1>3
<1> QED BY <1>1, <1>2, <1>4 DEF Settled

\* A segment out of order.
LEMMA OutOfOrderFacts ==
  ASSUME BufInv, NEW free \in Nat, NEW n \in Nat, n <= free, NEW c \in Pcbs, OutOfOrder(c, n, free)
  PROVE  Settled(free)
<1> DEFINE m == ooseq[c].n + n
           g == free - n
           k == ooseq[c].n
<1>1. Sending(g) /\ ooseq' = [ooseq EXCEPT ![c] = [n |-> m, age |-> 0]]
  BY DEF OutOfOrder
<1>2. g \in Nat /\ g + n = free
  OBVIOUS
<1>3. k \in Nat /\ m \in Nat /\ m = k + n
  BY BufFacts
<1> HIDE DEF g, m
<1>4. /\ ooseq' \in Queues(Pcbs, OoseqMaxAge)
      /\ \E x \in Nat : HeldIn(ooseq) = k + x /\ HeldIn(ooseq') = m + x
  BY <1>1, <1>3, FrameSizes, OoseqPut
<1>5. PICK x \in Nat : HeldIn(ooseq) = k + x /\ HeldIn(ooseq') = m + x
  BY <1>4
<1>6. g + HeldIn(ooseq') = free + HeldIn(ooseq)
  <2> HIDE DEF k
  <2> QED BY <1>2, <1>3, <1>5
<1> QED BY <1>1, <1>2, <1>4, <1>6, SentSettled

\* Segments that are no longer out of order.
LEMMA OoseqTakenFacts ==
  ASSUME BufInv, NEW free \in Nat, NEW c \in Pcbs, NEW k \in 1 .. PoolSize, OoseqTaken(c, k, free)
  PROVE  Settled(free)
<1> DEFINE m == ooseq[c].n - k
           g == free + k
           j == ooseq[c].n
<1>1. Sending(g) /\ ooseq' = [ooseq EXCEPT ![c] = [n |-> m, age |-> 0]] /\ k <= j
  BY DEF OoseqTaken
<1>2. k \in Nat /\ g \in Nat /\ g = free + k
  BY FrameSizes
<1>3. j \in Nat /\ m \in Nat /\ m + k = j
  <2>1. j \in Nat
    BY BufFacts
  <2> QED BY <1>1, <1>2, <2>1
<1> HIDE DEF g, m
<1>4. /\ ooseq' \in Queues(Pcbs, OoseqMaxAge)
      /\ \E x \in Nat : HeldIn(ooseq) = j + x /\ HeldIn(ooseq') = m + x
  BY <1>1, <1>3, FrameSizes, OoseqPut
<1>5. PICK x \in Nat : HeldIn(ooseq) = j + x /\ HeldIn(ooseq') = m + x
  BY <1>4
<1>6. g + HeldIn(ooseq') = free + HeldIn(ooseq)
  <2> HIDE DEF j
  <2> QED BY <1>2, <1>3, <1>5
<1> QED BY <1>1, <1>2, <1>4, <1>6, SentSettled

\* Whatever input() does with a chain.
LEMMA InputFacts ==
  ASSUME BufInv, NEW free \in Nat, NEW n \in Nat, n <= free, Input(n, free)
  PROVE  Settled(free)
<1>1. CASE Consumed(free)
  BY <1>1, ConsumedFacts
<1>2. ASSUME NEW a \in Slots, Ping(a, n, free) PROVE Settled(free)
  BY <1>2, PingSettled
<1>3. ASSUME NEW c \in Pcbs, OutOfOrder(c, n, free) PROVE Settled(free)
  BY <1>3, OutOfOrderFacts
<1>4. ASSUME NEW c \in Pcbs, NEW k \in 1 .. PoolSize, OoseqTaken(c, k, free) PROVE Settled(free)
  BY <1>4, OoseqTakenFacts
<1> QED BY <1>1, <1>2, <1>3, <1>4 DEF Input

\* A packet that is no fragment.
LEMMA PacketBuf ==
  ASSUME BufInv, NEW n \in 1 .. MaxFrame, Packet(n)
  PROVE  BufInv' /\ n <= avail /\ Return(n)
<1>1. avail \in Nat /\ n \in Nat /\ n <= avail /\ Input(n, avail) /\ Return(n)
  BY FrameSizes DEF BufInv, Packet
<1>2. reassdatagrams' = reassdatagrams /\ ip_reass_pbufcount' = ip_reass_pbufcount /\ up' = {}
  BY DEF Packet, reassVars
<1>3. Settled(avail)
  BY <1>1, InputFacts
<1>4. BufInv'
  BY <1>2, <1>3, BufNext DEF Settled
<1> QED BY <1>1, <1>4

\* A fragment, with what it evicts.
LEMMA FragmentBuf ==
  ASSUME BufInv, NEW id \in Ids, NEW f \in Fragments, NEW ok \in BOOLEAN, Fragment(id, f, ok)
  PROVE  /\ BufInv' /\ Spares(reassdatagrams, reassdatagrams', id, up')
         /\ Clen({f}) \in Nat /\ Clen({f}) <= avail /\ Return(Clen({f}))
<1> DEFINE l == reassdatagrams
           n == Clen({f})
           r == Reass(l, ip_reass_pbufcount, id, f, ok)
           free == avail - n + r.st.freed
           u == Clen(r.up)
<1>1. /\ n <= avail /\ reassdatagrams' = r.st.l /\ ip_reass_pbufcount' = r.st.count
      /\ up' = r.up /\ Return(n)
      /\ IF r.up = {} THEN Sending(free) /\ ooseq' = ooseq ELSE Input(u, free + u)
  BY DEF Fragment
<1>2. ReassResult(l, id, n, r)
  <2>1. Sound(l) /\ Filled(l) /\ ip_reass_pbufcount = ReassHeld(l)
    BY DEF BufInv
  <2> QED BY <2>1, ReassFacts
<1>3. n \in Nat
  <2>1. {f} \in SUBSET Fragments
    OBVIOUS
  <2> QED BY <2>1, ClenTotal
<1> HIDE DEF n, r, l
<1>4. /\ Sound(r.st.l) /\ Filled(r.st.l)
      /\ r.st.count = ReassHeld(r.st.l) /\ r.st.freed \in Nat
      /\ (ReassHeld(r.st.l) + r.st.freed) + Clen(r.up) = ReassHeld(l) + n
      /\ Delivered(r.up)
      /\ Spares(l, r.st.l, id, r.up)
  BY <1>2 DEF ReassResult
<1>5. u \in Nat /\ (r.up = {} => u = 0)
  <2>1. r.up \in SUBSET Fragments
    BY <1>4 DEF Delivered
  <2>2. u \in Nat
    BY <2>1, ClenTotal
  <2> QED BY <2>2, ClenNone
<1>6. avail \in Nat /\ free \in Nat /\ free + u \in Nat /\ u <= free + u
      /\ free = avail - n + r.st.freed
  BY <1>1, <1>3, <1>4, <1>5 DEF BufInv
<1> HIDE DEF free, u
<1>7. Settled(free + u)
  <2>1. CASE r.up = {}
    <3>1. Sending(free) /\ ooseq' = ooseq /\ free + u = free
      BY <1>1, <1>5, <1>6, <2>1
    <3>2. Consumed(free)
      BY <3>1 DEF Consumed
    <3> QED BY <1>6, <3>1, <3>2, ConsumedFacts
  <2>2. CASE r.up # {}
    BY <1>1, <1>5, <1>6, <2>2, InputFacts
  <2> QED BY <2>1, <2>2
<1>8. HeldIn(arpq') \in Nat /\ HeldIn(ooseq') \in Nat /\ avail' \in Nat
  BY <1>7, SlotsFacts, PcbsFacts, QueueFacts DEF Settled
<1>9. ReassHeld(r.st.l) \in Nat
  BY <1>4, HeldTotal DEF Sound
<1>10. avail' + ReassHeld(r.st.l) + HeldIn(ooseq') + HeldIn(arpq') = PoolSize
  <2> DEFINE a == HeldIn(arpq)
             b == HeldIn(arpq')
             o == HeldIn(ooseq)
             p == HeldIn(ooseq')
             h == ReassHeld(l)
             k == ReassHeld(r.st.l)
             d == r.st.freed
             v == avail
             w == avail'
  <2>1. a \in Nat /\ o \in Nat /\ h \in Nat /\ v + h + o + a = PoolSize
    BY BufFacts DEF BufInv, l
  <2>2. b \in Nat /\ p \in Nat /\ k \in Nat /\ d \in Nat /\ v \in Nat /\ w \in Nat
    BY <1>4, <1>6, <1>8, <1>9
  <2>3. (k + d) + u = h + n /\ w + p + b = (free + u) + o + a /\ free = v - n + d
    BY <1>4, <1>6, <1>7 DEF u, Settled
  <2>4. free \in Nat /\ u \in Nat /\ n \in Nat
    BY <1>3, <1>5, <1>6
  <2> HIDE DEF a, b, o, p, h, k, d, v, w
  <2>5. free + n = v + d
    BY <2>2, <2>3, <2>4
  <2>6. w + k + p + b = v + h + o + a
    BY <2>1, <2>2, <2>3, <2>4, <2>5
  <2> QED BY <2>1, <2>6 DEF w, k, p, b
<1>11. ooseq' \in Queues(Pcbs, OoseqMaxAge) /\ arpq' \in Queues(Slots, ArpMaxAge) /\ avail' \in Nat
  BY <1>7 DEF Settled
<1>12. BufInv'
  BY <1>1, <1>4, <1>10, <1>11 DEF BufInv
<1> QED BY <1>1, <1>3, <1>4, <1>12 DEF l, n

\* The connections that hold something.
Holding(q) == {c \in Pcbs : q[c].n > 0}

LEMMA HoldingFacts ==
  ASSUME NEW q, NEW p, \A c \in Pcbs : q[c].n \in Nat /\ (p[c].n = 0 \/ p[c].n = q[c].n)
  PROVE  /\ Cardinality(Holding(p)) \in Nat /\ Cardinality(Holding(q)) \in Nat
         /\ Cardinality(Holding(p)) <= Cardinality(Holding(q))
         /\ Cardinality(Holding(q)) <= MaxLosses /\ MaxLosses \in Nat
<1>1. IsFiniteSet(Pcbs) /\ Holding(q) \subseteq Pcbs /\ Holding(p) \subseteq Holding(q)
  BY PcbsFacts DEF Holding
<1>2. /\ IsFiniteSet(Holding(q)) /\ Cardinality(Holding(q)) <= Cardinality(Pcbs)
  BY <1>1, FS_Subset
<1>3. /\ IsFiniteSet(Holding(p)) /\ Cardinality(Holding(p)) <= Cardinality(Holding(q))
  BY <1>1, <1>2, FS_Subset
<1> QED BY <1>1, <1>2, <1>3, FS_CardinalityType DEF MaxLosses

\* PBUF_CHECK_FREE_OOSEQ: a connection holds nothing any more, or none did.
LEMMA FreeOoseqBuf ==
  ASSUME BufInv, FreeOoseq
  PROVE  /\ BufInv'
         /\ ~pending => ooseq' = ooseq
         /\ pending => \/ Holding(ooseq') = {}
                       \/ \E c \in Holding(ooseq) : Holding(ooseq') = Holding(ooseq) \ {c}
<1>1. /\ reassdatagrams' = reassdatagrams
      /\ ip_reass_pbufcount' = ip_reass_pbufcount /\ up' = {} /\ arpq' = arpq
  BY DEF FreeOoseq, reassVars
<1>2. avail \in Nat /\ HeldIn(ooseq) \in Nat
      /\ \A c \in Pcbs : ooseq[c].n \in Nat /\ ooseq[c].n <= HeldIn(ooseq)
  BY BufFacts DEF BufInv
<1>3. CASE ~(pending /\ HeldIn(ooseq) > 0)
  <2>1. ooseq' = ooseq /\ avail' = avail
    BY <1>3 DEF FreeOoseq
  <2>2. UNCHANGED <<avail, reassVars, ooseq, arpq>>
    BY <1>1, <2>1 DEF reassVars
  <2>3. BufInv'
    BY <1>1, <2>2, BufSame
  <2>4. HeldIn(ooseq) = 0 => Holding(ooseq) = {}
    <3> HAVE HeldIn(ooseq) = 0
    <3>1. \A c \in Pcbs : ~(ooseq[c].n > 0)
      BY <1>2
    <3> QED BY <3>1 DEF Holding
  <2> QED BY <1>2, <1>3, <2>1, <2>3, <2>4
<1>4. CASE pending /\ HeldIn(ooseq) > 0
  <2>1. PICK c \in Pcbs : /\ ooseq[c].n > 0
                          /\ ooseq' = [ooseq EXCEPT ![c] = Nothing]
                          /\ avail' = avail + ooseq[c].n
    BY <1>4 DEF FreeOoseq
  <2> DEFINE k == ooseq[c].n
  <2>2. ooseq' = [ooseq EXCEPT ![c] = [n |-> 0, age |-> 0]]
    BY <2>1 DEF Nothing
  <2>3. /\ ooseq' \in Queues(Pcbs, OoseqMaxAge) /\ k \in Nat
        /\ \E x \in Nat : HeldIn(ooseq) = k + x /\ HeldIn(ooseq') = 0 + x
    <3>1. 0 \in Nat /\ 0 \in 0 .. OoseqMaxAge - 1
      BY FrameSizes
    <3> QED BY <2>2, <3>1, OoseqPut
  <2>4. PICK x \in Nat : HeldIn(ooseq) = k + x /\ HeldIn(ooseq') = 0 + x
    BY <2>3
  <2>5. avail' = avail + k
    BY <2>1
  <2> HIDE DEF k
  <2>6. avail' \in Nat
    BY <1>2, <2>3, <2>5
  <2>7. avail' + HeldIn(ooseq') + HeldIn(arpq') = avail + HeldIn(ooseq) + HeldIn(arpq)
    <3>1. HeldIn(arpq') = HeldIn(arpq) /\ HeldIn(arpq) \in Nat
      BY <1>1, BufFacts
    <3> QED BY <1>2, <2>3, <2>4, <2>5, <3>1
  <2>8. arpq' \in Queues(Slots, ArpMaxAge)
    BY <1>1 DEF BufInv
  <2>9. BufInv'
    BY <1>1, <2>3, <2>6, <2>7, <2>8, BufNext
  <2>10. c \in Holding(ooseq) /\ Holding(ooseq') = Holding(ooseq) \ {c}
    <3>1. DOMAIN ooseq = Pcbs
      BY DEF BufInv, Queues
    <3>2. \A d \in Pcbs : ooseq'[d].n = IF d = c THEN 0 ELSE ooseq[d].n
      BY <2>2, <3>1
    <3> QED BY <2>1, <3>2 DEF Holding
  <2> QED BY <1>4, <2>9, <2>10
<1> QED BY <1>3, <1>4

\* The timer of reassembly.
LEMMA IpReassTmrBuf ==
  ASSUME BufInv, IpReassTmr
  PROVE  BufInv'
<1> DEFINE l == reassdatagrams
           r == ReassTmr(l, ip_reass_pbufcount)
           free == avail + r.freed
<1>1. /\ reassdatagrams' = r.l /\ ip_reass_pbufcount' = r.count
      /\ Sending(free) /\ up' = {} /\ ooseq' = ooseq
  BY DEF IpReassTmr
<1>2. /\ Sound(r.l) /\ Filled(r.l)
      /\ r.count = ReassHeld(r.l) /\ r.freed \in Nat
      /\ ReassHeld(r.l) + r.freed = ReassHeld(l)
  <2>1. Sound(l) /\ Filled(l) /\ ip_reass_pbufcount = ReassHeld(l)
    BY DEF BufInv
  <2> QED BY <2>1, ReassTmrFacts
<1> HIDE DEF r, l
<1>3. avail \in Nat /\ free \in Nat /\ free = avail + r.freed
  BY <1>2 DEF BufInv
<1> HIDE DEF free
<1>4. Settled(free)
  <2>1. Consumed(free)
    BY <1>1 DEF Consumed
  <2> QED BY <1>3, <2>1, ConsumedFacts
<1>5. HeldIn(arpq') \in Nat /\ HeldIn(ooseq') \in Nat /\ avail' \in Nat
  BY <1>4, SlotsFacts, PcbsFacts, QueueFacts DEF Settled
<1>6. ReassHeld(r.l) \in Nat
  BY <1>2, HeldTotal DEF Sound
<1>7. avail' + ReassHeld(r.l) + HeldIn(ooseq') + HeldIn(arpq') = PoolSize
  <2> DEFINE a == HeldIn(arpq)
             b == HeldIn(arpq')
             o == HeldIn(ooseq)
             p == HeldIn(ooseq')
             h == ReassHeld(l)
             k == ReassHeld(r.l)
             d == r.freed
             v == avail
             w == avail'
  <2>1. h \in Nat /\ a \in Nat /\ o \in Nat /\ v + h + o + a = PoolSize
    BY BufFacts DEF BufInv, l
  <2>2. b \in Nat /\ p \in Nat /\ k \in Nat /\ d \in Nat /\ v \in Nat /\ w \in Nat
    BY <1>2, <1>3, <1>5, <1>6
  <2>3. k + d = h /\ w + p + b = free + o + a /\ free = v + d
    BY <1>2, <1>3, <1>4 DEF Settled
  <2> HIDE DEF a, b, o, p, h, k, d, v, w
  <2>4. w + k + p + b = PoolSize
    BY <2>1, <2>2, <2>3
  <2> QED BY <2>4 DEF w, k, p, b
<1>8. Delivered(up')
  BY <1>1 DEF Delivered
<1> QED BY <1>1, <1>2, <1>4, <1>7, <1>8 DEF BufInv, Settled

\* The timer of the ARP table.
LEMMA EtharpTmrBuf ==
  ASSUME BufInv, EtharpTmr
  PROVE  BufInv'
<1>1. /\ arpq' = Ticked(arpq, ArpMaxAge) /\ avail' = avail + HeldIn(arpq) - HeldIn(arpq')
      /\ up' = {} /\ ooseq' = ooseq
      /\ reassdatagrams' = reassdatagrams /\ ip_reass_pbufcount' = ip_reass_pbufcount
  BY DEF EtharpTmr, reassVars
<1>2. avail \in Nat /\ arpq \in Queues(Slots, ArpMaxAge) /\ ooseq \in Queues(Pcbs, OoseqMaxAge)
  BY DEF BufInv
<1>3. HeldIn(arpq) \in Nat /\ HeldIn(ooseq) \in Nat
  BY BufFacts
<1>4. arpq' \in Queues(Slots, ArpMaxAge) /\ HeldIn(arpq') \in Nat /\ HeldIn(arpq') <= HeldIn(arpq)
  BY <1>1, <1>2, SlotsFacts, TickedFacts
<1>5. /\ avail' \in Nat
      /\ avail' + HeldIn(ooseq) + HeldIn(arpq') = avail + HeldIn(ooseq) + HeldIn(arpq)
  <2> DEFINE a == HeldIn(arpq)
             b == HeldIn(arpq')
             o == HeldIn(ooseq)
             v == avail
             w == avail'
  <2>1. a \in Nat /\ b \in Nat /\ o \in Nat /\ v \in Nat /\ b <= a /\ w = v + a - b
    BY <1>1, <1>2, <1>3, <1>4
  <2> HIDE DEF a, b, o, v, w
  <2>2. w \in Nat /\ w + o + b = v + o + a
    BY <2>1
  <2> QED BY <2>2 DEF a, b, o, v, w
<1>6. avail' + HeldIn(ooseq') + HeldIn(arpq') = avail + HeldIn(ooseq) + HeldIn(arpq)
  BY <1>1, <1>5
<1> QED BY <1>1, <1>2, <1>4, <1>5, <1>6, BufNext

\* TCP's slow timer.
LEMMA TcpSlowtmrBuf ==
  ASSUME BufInv, TcpSlowtmr
  PROVE  BufInv' /\ \A c \in Pcbs : ooseq'[c].n = 0 \/ ooseq'[c].n = ooseq[c].n
<1> DEFINE free == avail + HeldIn(ooseq) - HeldIn(ooseq')
<1>1. PICK s \in SUBSET Pcbs : ooseq' = Ticked(Sent(ooseq, s), OoseqMaxAge)
  BY DEF TcpSlowtmr
<1> DEFINE q == Sent(ooseq, s)
<1>2. /\ Sending(free) /\ up' = {}
      /\ reassdatagrams' = reassdatagrams /\ ip_reass_pbufcount' = ip_reass_pbufcount
  BY DEF TcpSlowtmr, reassVars
<1>3. avail \in Nat /\ ooseq \in Queues(Pcbs, OoseqMaxAge) /\ HeldIn(ooseq) \in Nat
  BY BufFacts DEF BufInv
<1>4. /\ q \in Queues(Pcbs, OoseqMaxAge) /\ HeldIn(q) \in Nat /\ HeldIn(q) <= HeldIn(ooseq)
      /\ \A c \in Pcbs : q[c].n = 0 \/ q[c].n = ooseq[c].n
  BY <1>3, PcbsFacts, SentFacts
<1>5. ooseq' = Ticked(q, OoseqMaxAge)
  BY <1>1
<1> HIDE DEF q
<1>6. /\ ooseq' \in Queues(Pcbs, OoseqMaxAge) /\ HeldIn(ooseq') \in Nat /\ HeldIn(ooseq') <= HeldIn(q)
      /\ \A c \in Pcbs : ooseq'[c].n = 0 \/ ooseq'[c].n = q[c].n
  BY <1>4, <1>5, PcbsFacts, TickedFacts
<1>7. free \in Nat /\ free + HeldIn(ooseq') = avail + HeldIn(ooseq)
  <2> DEFINE o == HeldIn(ooseq)
             m == HeldIn(q)
             p == HeldIn(ooseq')
             v == avail
             z == free
  <2>1. o \in Nat /\ m \in Nat /\ p \in Nat /\ v \in Nat /\ p <= m /\ m <= o /\ z = v + o - p
    BY <1>3, <1>4, <1>6
  <2> HIDE DEF o, m, p, v, z
  <2>2. z \in Nat /\ z + p = v + o
    BY <2>1
  <2> QED BY <2>2 DEF o, p, v, z
<1> HIDE DEF free
<1>8. Settled(avail)
  BY <1>2, <1>3, <1>6, <1>7, SentSettled
<1>9. BufInv'
  BY <1>2, <1>8, BufNext DEF Settled
<1> QED BY <1>4, <1>6, <1>9

-----------------------------------------------------------------------------
(* The invariant.                                                          *)

\* input() has taken every chain it was given.
CallInv == chain \in 0 .. PoolSize /\ err = "ERR_OK"

\* The flag is taken before the timers run, it is set by the loss of a
\* packet, and it stands for a connection that is still to give way.
FlagInv ==
  /\ pc \in {"receive", "returned", "check", "timer"} /\ pending \in BOOLEAN
  /\ losses \in 0 .. MaxLosses
  /\ pc # "check" => ~pending
  /\ losses + Cardinality(Holding(ooseq)) <= MaxLosses + (IF pending THEN 1 ELSE 0)

RInv == BufInv /\ CallInv /\ FlagInv

\* The invariant holds when the loop begins.
LEMMA RInvInit == Init => RInv
<1> SUFFICES ASSUME Init PROVE RInv
  OBVIOUS
<1>1. PoolSize \in Nat /\ avail = PoolSize
  BY RxPathConstantsOK DEF Init
<1>2. ASSUME NEW S, IsFiniteSet(S), NEW max \in Nat \ {0}
      PROVE  [x \in S |-> Nothing] \in Queues(S, max) /\ HeldIn([x \in S |-> Nothing]) = 0
  <2> DEFINE q == [x \in S |-> Nothing]
  <2>1. q \in Queues(S, max)
    BY <1>2 DEF Queues, Shares, Nothing
  <2>2. \A x \in S : q[x].n = 0
    BY DEF Nothing
  <2> HIDE DEF q
  <2>3. HeldIn(q) = Total(NOf(q), S) /\ \A x \in S : NOf(q)[x] = 0
    BY <1>2, <2>1, <2>2, QueueFacts
  <2>4. Total(NOf(q), S) = 0
    <3> DEFINE f == NOf(q)
               B == {s \in SUBSET S : Total(f, s) # 0}
    <3>1. B \subseteq SUBSET S
      OBVIOUS
    <3>2. B = {}
      <4> SUFFICES ASSUME B # {} PROVE FALSE
        OBVIOUS
      <4>1. PICK s \in B : \A c \in s : s \ {c} \notin B
        BY <1>2, <3>1, SmallestSet
      <4>2. s # {}
        BY <4>1, TotalEmpty
      <4>3. PICK c \in s : TRUE
        BY <4>2
      <4>4. IsFiniteSet(s) /\ \A d \in s : f[d] = 0 /\ f[d] \in Nat
        BY <1>2, <2>3, <4>1, FS_Subset
      <4> DEFINE r == s \ {c}
      <4>5. Total(f, r) = 0
        BY <4>1, <4>3
      <4> HIDE DEF f
      <4>6. Total(f, s) = f[c] + Total(f, s \ {c})
        BY <4>3, <4>4, TotalFacts
      <4>7. Total(f, s) = 0 + 0
        BY <4>3, <4>4, <4>5, <4>6
      <4> QED BY <4>1, <4>7
    <3>3. S \notin B
      BY <3>2
    <3> QED BY <3>3
  <2> QED BY <2>1, <2>3, <2>4 DEF q
<1>3. ooseq \in Queues(Pcbs, OoseqMaxAge) /\ HeldIn(ooseq) = 0
  BY <1>2, PcbsFacts DEF Init
<1>4. arpq \in Queues(Slots, ArpMaxAge) /\ HeldIn(arpq) = 0
  BY <1>2, SlotsFacts DEF Init
<1>5. reassdatagrams = <<>> /\ Sound(<<>>) /\ Filled(<<>>)
  <2>1. <<>> \in Seq(Datagrams) /\ DOMAIN <<>> = {}
    OBVIOUS
  <2> QED BY <2>1 DEF Init, Sound, Uniq, Filled
<1>6. ReassHeld(reassdatagrams) = 0
  BY <1>5, HeldNone
<1>7. /\ ip_reass_pbufcount = 0 /\ up = {} /\ pc = "receive" /\ pending = FALSE
      /\ losses = 0 /\ chain = 0 /\ err = "ERR_OK"
  BY DEF Init
<1>8. avail + ReassHeld(reassdatagrams) + HeldIn(ooseq) + HeldIn(arpq) = PoolSize
  BY <1>1, <1>3, <1>4, <1>6
<1>9. FlagInv
  <2>1. \A c \in Pcbs : ooseq[c].n \in Nat /\ (ooseq[c].n = 0 \/ ooseq[c].n = ooseq[c].n)
    <3>1. \A c \in Pcbs : ooseq[c] \in Shares(OoseqMaxAge)
      BY <1>3 DEF Queues
    <3> QED BY <3>1 DEF Shares
  <2>2. Cardinality(Holding(ooseq)) \in Nat /\ Cardinality(Holding(ooseq)) <= MaxLosses /\ MaxLosses \in Nat
    BY <2>1, HoldingFacts
  <2>3. losses + Cardinality(Holding(ooseq)) <= MaxLosses + (IF pending THEN 1 ELSE 0)
    BY <1>7, <2>2
  <2>4. losses \in 0 .. MaxLosses
    BY <1>7, <2>2
  <2> QED BY <1>7, <2>3, <2>4 DEF FlagInv
<1>10. CallInv
  BY <1>1, <1>7 DEF CallInv
<1> QED BY <1>1, <1>3, <1>4, <1>5, <1>6, <1>7, <1>8, <1>9, <1>10 DEF RInv, BufInv, Delivered

\* Every packet keeps the buffers exact, and input() takes it.
LEMMA FrameBuf ==
  ASSUME BufInv, Frame
  PROVE  BufInv' /\ CallInv'
<1>1. ASSUME NEW n \in Nat, n <= avail, Return(n) PROVE CallInv'
  <2>1. avail \in Nat /\ PoolSize \in Nat /\ avail <= PoolSize
    <3> DEFINE o == HeldIn(ooseq)
               a == HeldIn(arpq)
               h == ReassHeld(reassdatagrams)
    <3>1. o \in Nat /\ a \in Nat /\ h \in Nat /\ avail \in Nat /\ PoolSize \in Nat
          /\ avail + h + o + a = PoolSize
      BY BufFacts, RxPathConstantsOK DEF BufInv
    <3> HIDE DEF o, a, h
    <3> QED BY <3>1
  <2>2. chain' = n /\ err' = "ERR_OK"
    BY <1>1 DEF Return
  <2>3. n \in 0 .. PoolSize
    BY <1>1, <2>1
  <2> QED BY <2>2, <2>3 DEF CallInv
<1>2. ASSUME NEW n \in 1 .. MaxFrame, Packet(n) PROVE BufInv' /\ CallInv'
  <2>1. BufInv' /\ n <= avail /\ Return(n) /\ n \in Nat
    BY <1>2, PacketBuf, FrameSizes
  <2> QED BY <1>1, <2>1
<1>3. ASSUME NEW id \in Ids, NEW f \in Fragments, NEW ok \in BOOLEAN, Fragment(id, f, ok)
      PROVE  BufInv' /\ CallInv'
  <2> DEFINE n == Clen({f})
  <2>1. BufInv' /\ n \in Nat /\ n <= avail /\ Return(n)
    BY <1>3, FragmentBuf
  <2> HIDE DEF n
  <2> QED BY <1>1, <2>1
<1> QED BY <1>2, <1>3 DEF Frame

\* Every step of the loop keeps the invariant.
LEMMA RInvNext == RInv /\ [Next]_vars => RInv'
<1> SUFFICES ASSUME RInv, [Next]_vars PROVE RInv'
  OBVIOUS
<1> DEFINE h == Cardinality(Holding(ooseq))
           k == Cardinality(Holding(ooseq'))
<1>1. BufInv /\ CallInv /\ FlagInv
  BY DEF RInv
<1>2. /\ pending \in BOOLEAN /\ losses \in 0 .. MaxLosses /\ (pc # "check" => ~pending)
      /\ losses + h <= MaxLosses + (IF pending THEN 1 ELSE 0)
  BY <1>1 DEF FlagInv
<1>3. h \in Nat /\ h <= MaxLosses /\ MaxLosses \in Nat
  <2>1. \A c \in Pcbs : ooseq[c].n \in Nat /\ (ooseq[c].n = 0 \/ ooseq[c].n = ooseq[c].n)
    BY <1>1, BufFacts
  <2> QED BY <2>1, HoldingFacts
<1>4. BufInv' => k \in Nat /\ k <= MaxLosses
  <2> HAVE BufInv'
  <2>1. ooseq' \in Queues(Pcbs, OoseqMaxAge)
    BY DEF BufInv
  <2>2. \A c \in Pcbs : ooseq'[c].n \in Nat /\ (ooseq'[c].n = 0 \/ ooseq'[c].n = ooseq'[c].n)
    BY <2>1, PcbsFacts, QueueFacts
  <2> QED BY <2>2, HoldingFacts
<1>5. ooseq' = ooseq => k = h
  OBVIOUS
<1>6. ASSUME BufInv', CallInv', pc' \in {"receive", "returned", "check", "timer"},
             pending' = FALSE, losses' \in 0 .. MaxLosses, losses' + k <= MaxLosses
      PROVE  RInv'
  <2>1. losses' + k <= MaxLosses + (IF pending' THEN 1 ELSE 0)
    BY <1>3, <1>4, <1>6
  <2> QED BY <1>6, <2>1 DEF RInv, FlagInv, k
<1>7. ASSUME BufInv', k <= h, pc # "check", pc' \in {"receive", "returned", "check", "timer"},
             pending' = pending, losses' = losses, CallInv'
      PROVE  RInv'
  <2>1. pending' = FALSE
    BY <1>2, <1>7
  <2>2. losses + h <= MaxLosses + 0
    BY <1>2, <1>7
  <2>3. losses' + k <= MaxLosses
    BY <1>2, <1>3, <1>4, <1>7, <2>2
  <2> QED BY <1>2, <1>6, <1>7, <2>1, <2>3
<1> HIDE DEF h, k
<1>8. call' = call => CallInv'
  BY <1>1 DEF CallInv, call
<1>9. CASE Receive
  <2>1. BufInv' /\ CallInv'
    BY <1>1, <1>9, FrameBuf DEF Receive
  <2>2. pending' = pending /\ pc = "receive" /\ pc' = "returned" /\ losses' = 0
    BY <1>9 DEF Receive
  <2>3. losses' \in 0 .. MaxLosses /\ losses' + k <= MaxLosses
    BY <1>3, <1>4, <2>1, <2>2
  <2> QED BY <1>2, <1>6, <2>1, <2>2, <2>3
<1>10. CASE PoolEmpty
  <2>1. BufInv'
    BY <1>1, <1>10, BufSame DEF PoolEmpty
  <2>2. /\ pc = "receive" /\ pc' = "check" /\ pending' = TRUE /\ k = h /\ call' = call
        /\ losses' = IF losses < MaxLosses THEN losses + 1 ELSE losses
    BY <1>5, <1>10 DEF PoolEmpty
  <2>3. losses + h <= MaxLosses + 0
    BY <1>2, <2>2
  <2>4. losses' \in 0 .. MaxLosses /\ losses' + k <= MaxLosses + 1
    BY <1>2, <1>3, <2>2, <2>3
  <2>5. FlagInv'
    BY <2>2, <2>4 DEF FlagInv, k
  <2> QED BY <1>8, <2>1, <2>2, <2>5 DEF RInv
<1>11. CASE NoPacket
  <2>1. BufInv'
    BY <1>1, <1>11, BufSame DEF NoPacket
  <2>2. /\ pc = "receive" /\ pc' = "check" /\ k = h /\ call' = call
        /\ pending' = pending /\ losses' = losses
    BY <1>5, <1>11 DEF NoPacket
  <2> QED BY <1>3, <1>7, <1>8, <2>1, <2>2
<1>12. CASE Returned
  <2>1. /\ pc = "returned" /\ pc' = "check" /\ ooseq' = ooseq /\ pending' = pending
        /\ losses' = losses /\ chain' = 0 /\ err' = "ERR_OK"
    BY <1>12 DEF Returned
  <2>2. avail' = avail
    BY <1>1, <1>12 DEF Returned, CallInv
  <2>3. BufInv'
    BY <1>1, <1>12, <2>2, BufSame DEF Returned
  <2>4. CallInv'
    BY <2>1, RxPathConstantsOK DEF CallInv
  <2> QED BY <1>3, <1>5, <1>7, <2>1, <2>3, <2>4
<1>13. CASE FreeOoseq
  <2>1. /\ BufInv'
        /\ ~pending => ooseq' = ooseq
        /\ pending => \/ Holding(ooseq') = {}
                      \/ \E c \in Holding(ooseq) : Holding(ooseq') = Holding(ooseq) \ {c}
    BY <1>1, <1>13, FreeOoseqBuf
  <2>2. pc' = "timer" /\ pending' = FALSE /\ losses' = losses /\ call' = call
    BY <1>13 DEF FreeOoseq
  <2>3. CASE ~pending
    <3>1. losses' + k <= MaxLosses
      BY <1>2, <1>3, <1>5, <2>1, <2>2, <2>3
    <3> QED BY <1>2, <1>6, <1>8, <2>1, <2>2, <3>1
  <2>4. CASE pending /\ Holding(ooseq') = {}
    <3>1. k = 0
      BY <2>4, FS_EmptySet DEF k
    <3>2. losses' + k <= MaxLosses
      BY <1>2, <1>3, <2>2, <3>1
    <3> QED BY <1>2, <1>6, <1>8, <2>1, <2>2, <3>2
  <2>5. ASSUME pending, NEW c \in Holding(ooseq), Holding(ooseq') = Holding(ooseq) \ {c}
        PROVE  RInv'
    <3>1. IsFiniteSet(Holding(ooseq))
      <4>1. Holding(ooseq) \subseteq Pcbs
        BY DEF Holding
      <4> QED BY <4>1, PcbsFacts, FS_Subset
    <3>2. k = h - 1
      BY <2>5, <3>1, FS_RemoveElement DEF h, k
    <3>3. losses' + k <= MaxLosses
      BY <1>2, <1>3, <2>2, <2>5, <3>2
    <3> QED BY <1>2, <1>6, <1>8, <2>1, <2>2, <3>3
  <2> QED BY <1>2, <2>1, <2>3, <2>4, <2>5
<1>14. CASE IpReassTmr
  <2>1. BufInv'
    BY <1>1, <1>14, IpReassTmrBuf
  <2>2. /\ pc = "timer" /\ pc' = "check" /\ k = h /\ call' = call
        /\ pending' = pending /\ losses' = losses
    BY <1>5, <1>14 DEF IpReassTmr, call
  <2> QED BY <1>3, <1>7, <1>8, <2>1, <2>2
<1>15. CASE EtharpTmr
  <2>1. BufInv'
    BY <1>1, <1>15, EtharpTmrBuf
  <2>2. /\ pc = "timer" /\ pc' = "check" /\ k = h /\ call' = call
        /\ pending' = pending /\ losses' = losses
    BY <1>5, <1>15 DEF EtharpTmr, call
  <2> QED BY <1>3, <1>7, <1>8, <2>1, <2>2
<1>16. CASE TcpSlowtmr
  <2>1. BufInv' /\ \A c \in Pcbs : ooseq'[c].n = 0 \/ ooseq'[c].n = ooseq[c].n
    BY <1>1, <1>16, TcpSlowtmrBuf
  <2>2. /\ pc = "timer" /\ pc' = "check" /\ call' = call
        /\ pending' = pending /\ losses' = losses
    BY <1>16 DEF TcpSlowtmr, call
  <2>3. \A c \in Pcbs : ooseq[c].n \in Nat
    BY <1>1, BufFacts
  <2>4. k <= h
    BY <2>1, <2>3, HoldingFacts DEF k, h
  <2> QED BY <1>7, <1>8, <2>1, <2>2, <2>4
<1>17. CASE TimersDone
  <2>1. BufInv'
    BY <1>1, <1>17, BufSame DEF TimersDone
  <2>2. /\ pc = "timer" /\ pc' = "receive" /\ k = h /\ call' = call
        /\ pending' = pending /\ losses' = losses
    BY <1>5, <1>17 DEF TimersDone, call
  <2> QED BY <1>3, <1>7, <1>8, <2>1, <2>2
<1>18. CASE UNCHANGED vars
  BY <1>1, <1>18 DEF vars, call, reassVars, RInv, BufInv, CallInv, FlagInv, Holding
<1> QED BY <1>9, <1>10, <1>11, <1>12, <1>13, <1>14, <1>15, <1>16, <1>17, <1>18 DEF Next

\* The parts of the invariant hold together after any number of steps.
THEOREM Invariant == Spec => []RInv
<1>1. Init => RInv
  BY RInvInit
<1>2. RInv /\ [Next]_vars => RInv'
  BY RInvNext
<1> QED BY <1>1, <1>2, PTL DEF Spec

\* The invariant has the types of the variables in it.
LEMMA RInvType == RInv => TypeOK
<1> SUFFICES ASSUME RInv PROVE TypeOK
  OBVIOUS
<1>1. BufInv /\ CallInv /\ FlagInv
  BY DEF RInv
<1> DEFINE o == HeldIn(ooseq)
           a == HeldIn(arpq)
           h == ReassHeld(reassdatagrams)
<1>2. o \in Nat /\ a \in Nat /\ h \in Nat /\ avail \in Nat /\ PoolSize \in Nat
      /\ avail + h + o + a = PoolSize
  BY <1>1, BufFacts, RxPathConstantsOK DEF BufInv
<1>3. /\ \A c \in Pcbs : ooseq[c].n \in Nat /\ ooseq[c].n <= o
      /\ \A x \in Slots : arpq[x].n \in Nat /\ arpq[x].n <= a
  BY <1>1, BufFacts
<1> HIDE DEF o, a, h
<1>4. o <= PoolSize /\ a <= PoolSize /\ h \in 0 .. PoolSize /\ avail \in 0 .. PoolSize
  BY <1>2
<1>5. /\ \A c \in Pcbs : ooseq[c].n \in 0 .. PoolSize
      /\ \A x \in Slots : arpq[x].n \in 0 .. PoolSize
  BY <1>2, <1>3, <1>4
<1>6. ooseq \in [Pcbs -> Holders(OoseqMaxAge)]
  <2>1. ooseq \in [Pcbs -> Shares(OoseqMaxAge)]
    BY <1>1 DEF BufInv, Queues
  <2>2. \A c \in Pcbs : ooseq[c] \in Holders(OoseqMaxAge)
    BY <1>5, <2>1 DEF Shares, Holders
  <2> QED BY <2>1, <2>2
<1>7. arpq \in [Slots -> Holders(ArpMaxAge)]
  <2>1. arpq \in [Slots -> Shares(ArpMaxAge)]
    BY <1>1 DEF BufInv, Queues
  <2>2. \A x \in Slots : arpq[x] \in Holders(ArpMaxAge)
    BY <1>5, <2>1 DEF Shares, Holders
  <2> QED BY <2>1, <2>2
<1>8. reassdatagrams \in Seq(Datagrams) /\ ip_reass_pbufcount = h /\ up \subseteq Fragments
  BY <1>1 DEF BufInv, Sound, Delivered, h
<1>9. /\ pc \in {"receive", "returned", "check", "timer"} /\ pending \in BOOLEAN
      /\ losses \in 0 .. MaxLosses /\ chain \in 0 .. PoolSize /\ err = "ERR_OK"
  BY <1>1 DEF FlagInv, CallInv
<1> QED BY <1>4, <1>6, <1>7, <1>8, <1>9 DEF TypeOK

(***************************************************************************)
(* Every buffer of the pool is free or held in one place, and              *)
(* ip_reass_pbufcount is the number reassembly holds, through every step   *)
(* of the main loop (main.c 141-149, ip4_frag.c 213, 609, 670).            *)
(***************************************************************************)
THEOREM BuffersStayExact == Spec => []BuffersExact
<1>1. RInv => BuffersExact
  BY RInvType DEF RInv, BufInv, BuffersExact
<1> QED BY <1>1, Invariant, PTL

(***************************************************************************)
(* Reassembly holds no datagram twice, none that is whole and none with    *)
(* fragments that overlap, and what it delivers has every byte once        *)
(* (ip4_frag.c 382-492, 619-675).                                          *)
(***************************************************************************)
THEOREM DatagramsStayWhole == Spec => []WholeDatagrams
<1>1. ASSUME RInv PROVE WholeDatagrams
  <2>1. Sound(reassdatagrams) /\ Filled(reassdatagrams) /\ Delivered(up)
    BY <1>1 DEF RInv, BufInv
  <2>2. ReassSound
    BY <2>1 DEF ReassSound, Sound, Filled, Apart, Uniq
  <2>3. ASSUME up # {}, NEW b \in 0 .. Size - 1
        PROVE  Cardinality({f \in up : f.start <= b /\ b < f.end}) = 1
    <3>1. up \in SUBSET Fragments /\ Apart(up) /\ Whole(up)
      BY <2>1, <2>3 DEF Delivered
    <3> QED BY <3>1, WholeExact
  <2> QED BY <2>2, <2>3 DEF WholeDatagrams
<1> QED BY <1>1, Invariant, PTL

(***************************************************************************)
(* Every packet that is lost costs a connection what it holds out of       *)
(* order, so that no more are lost in a row than there are connections     *)
(* while any holds something (pbuf.h 263, timeouts.c 366).                 *)
(***************************************************************************)
THEOREM OoseqAlwaysGivesWay == Spec => []OoseqGivesWay
<1>1. ASSUME RInv PROVE OoseqGivesWay
  <2> SUFFICES ASSUME pc = "receive"
               PROVE  losses + Cardinality(Holding(ooseq)) <= MaxLosses
    BY DEF OoseqGivesWay, Holding, MaxLosses
  <2>1. ~pending
    BY <1>1 DEF RInv, FlagInv
  <2>2. losses + Cardinality(Holding(ooseq)) <= MaxLosses + 0
    BY <1>1, <2>1 DEF RInv, FlagInv
  <2>3. MaxLosses \in Nat
    BY PcbsFacts, FS_CardinalityType DEF MaxLosses
  <2> QED BY <2>2, <2>3
<1> QED BY <1>1, Invariant, PTL

(***************************************************************************)
(* A fragment that needs room takes it from other datagrams, those with    *)
(* the least time left (ip4_frag.c 228-269).                               *)
(***************************************************************************)
THEOREM EvictionTakesOldest == Spec => EvictsOldest
<1> DEFINE l == reassdatagrams
           Evicted(id) ==
             \A i \in DOMAIN reassdatagrams : LET e == reassdatagrams[i] IN
               IF e.id = id
               THEN up' # {} \/ \E g \in Range(reassdatagrams') : g.id = id /\ e.frags \subseteq g.frags
               ELSE Entry(reassdatagrams', e.id) = {} =>
                      \A g \in Range(reassdatagrams) :
                        (g.id # id /\ g.timer < e.timer) => Entry(reassdatagrams', g.id) = {}
<1>1. ASSUME RInv, NEW id \in Ids, NEW f \in Fragments, NEW ok \in BOOLEAN, Fragment(id, f, ok)
      PROVE  Evicted(id)
  <2>1. BufInv
    BY <1>1 DEF RInv
  <2>2. Spares(l, l', id, up')
    BY <1>1, <2>1, FragmentBuf
  <2> SUFFICES ASSUME NEW i \in DOMAIN l
               PROVE  IF l[i].id = id
                      THEN up' # {} \/ \E g \in Range(l') : g.id = id /\ l[i].frags \subseteq g.frags
                      ELSE Entry(l', l[i].id) = {} =>
                             \A g \in Range(l) :
                               (g.id # id /\ g.timer < l[i].timer) => Entry(l', g.id) = {}
    OBVIOUS
  <2>3. CASE l[i].id = id
    <3>1. up' # {} \/ \E j \in DOMAIN l' : l'[j].id = id /\ l[i].frags \subseteq l'[j].frags
      BY <2>2, <2>3 DEF Spares
    <3> QED BY <2>3, <3>1 DEF Range
  <2>4. CASE l[i].id # id
    <3>1. Entry(l', l[i].id) = {} =>
            \A h \in DOMAIN l :
              l[h].id # id /\ l[h].timer < l[i].timer => Entry(l', l[h].id) = {}
      BY <2>2, <2>4 DEF Spares
    <3> QED BY <2>4, <3>1 DEF Range
  <2> QED BY <2>3, <2>4
<1>2. RInv /\ [Next]_vars =>
        [\A id \in Ids, f \in Fragments, ok \in BOOLEAN :
           (pc = "receive" /\ Fragment(id, f, ok)) => Evicted(id)]_vars
  BY <1>1
<1> QED BY <1>2, Invariant, PTL DEF Spec, EvictsOldest

=============================================================================
