---------------------------- MODULE HttpConnProofs ----------------------------
(***************************************************************************)
(* Proofs about the connections of HttpConn, for every number of clients,  *)
(* control blocks and segments, every window and every limit of            *)
(* retransmissions.                                                        *)
(***************************************************************************)
EXTENDS HttpConn, FiniteSetTheorems, SequenceTheorems, WellFoundedInduction, TLAPS

-----------------------------------------------------------------------------
(* The inductive invariant.                                                *)

IsTcp(t) == DOMAIN t = {"pcb", "active", "used", "segs", "accepts_pending"}

\* Of one block: TF_BACKLOGPEND and TF_CLOSEPEND against its state.
BlockOK(p) == /\ p.backlogpend <=> p.state = "SYN_RCVD"
              /\ p.closepend => p.state = "CLOSE_WAIT"

\* In the handshake, as accepts_pending counts it.
HalfOpen(t) == {c \in t.used : t.pcb[c].state = "SYN_RCVD"}

\* What every operator on tcp keeps, also while tcp_input is at work.
Good(t) ==
  /\ IsTcp(t)
  /\ t.pcb \in [Clients -> Pcbs]
  /\ t.used \subseteq Clients /\ IsFiniteSet(t.used) /\ Cardinality(t.used) <= MaxPcbs
  /\ t.active \subseteq t.used
  /\ \A c \in Clients \ t.used : t.pcb[c] = Blank
  /\ \A c \in Clients : BlockOK(t.pcb[c])
  /\ t.segs = MapThenSumSet(LAMBDA c : Waiting(t, c), t.used) /\ t.segs <= SegPool
  /\ t.accepts_pending = Cardinality(HalfOpen(t))

\* An established connection has nothing to send and nothing to repeat.
Quiet(p) ==
  p.state = "ESTABLISHED" => p.unsent = <<>> /\ p.unacked = <<>> /\ p.nrtx = 0

Inputs == [pcb : Clients \cup {NoClient},
           phase : {"idle", "recv", "written", "fin", "done"},
           data : {"none", "get", "other"}, fin : BOOLEAN, closed : BOOLEAN]

\* What tcp_input still has to do, against the block it works on.
InputOK ==
  /\ input \in Inputs
  /\ input.phase = "idle" => tcp.used = tcp.active
  /\ input.phase # "idle" => /\ input.pcb \in tcp.used
                             /\ tcp.used = tcp.active \cup {input.pcb}
                             /\ input.pcb \notin tcp.active => input.closed
  /\ input.phase \in {"recv", "written"} =>
       LET p == tcp.pcb[input.pcb] IN
       /\ p.state = IF input.fin THEN "CLOSE_WAIT" ELSE "ESTABLISHED"
       /\ input.data = "get" \/ input.phase = "written" => p.rcv_wnd # Wnd
  /\ input.phase = "fin" => tcp.pcb[input.pcb].state = "CLOSE_WAIT"

Idlers == \A c \in tcp.used :
            \/ input.pcb = c /\ (input.closed \/ input.phase = "written")
            \/ Quiet(tcp.pcb[c])

HInv == Good(tcp) /\ InputOK /\ Idlers

-----------------------------------------------------------------------------
(* Folds over a finite set, which take the elements in the order Pick      *)
(* gives: F says what an element adds to the result of the others.         *)

Pick(s) == CHOOSE x \in s : TRUE

IsFold(g, S, base, F) ==
  g = [s \in SUBSET S |-> IF s = {} THEN base ELSE F[<<s, g[s \ {Pick(s)}]>>]]

\* A set of naturals has a least member.
LEMMA LeastElement ==
  ASSUME NEW T, T \subseteq Nat, T # {}
  PROVE  \E i \in T : \A j \in T : i <= j
<1>1. PICK i \in T : \A j \in T : <<j, i>> \notin OpToRel(<, Nat)
  BY NatLessThanWellFounded, WFMin
<1>2. \A j \in T : ~(j < i)
  BY <1>1 DEF OpToRel
<1> QED BY <1>2

\* What Pick takes out of a finite set.
LEMMA PickFacts ==
  ASSUME NEW S, IsFiniteSet(S), NEW s \in SUBSET S, s # {}
  PROVE  /\ Pick(s) \in s /\ Pick(s) \in S
         /\ s \ {Pick(s)} \in SUBSET S
         /\ IsFiniteSet(s) /\ Cardinality(s) \in Nat /\ Cardinality(s) >= 1
         /\ Cardinality(s \ {Pick(s)}) = Cardinality(s) - 1
<1>1. Pick(s) \in s
  BY DEF Pick
<1>2. IsFiniteSet(s)
  BY FS_Subset
<1>3. Cardinality(s) \in Nat /\ Cardinality(s) # 0
  BY <1>2, FS_CardinalityType, FS_EmptySet
<1>4. Cardinality(s \ {Pick(s)}) = Cardinality(s) - 1
  BY <1>1, <1>2, FS_RemoveElement
<1> QED BY <1>1, <1>2, <1>3, <1>4

\* Of some subsets of a finite set, one has no smaller one among them.
LEMMA SmallestSet ==
  ASSUME NEW S, IsFiniteSet(S), NEW B, B \subseteq SUBSET S, B # {}
  PROVE  \E s \in B : \A c \in s : s \ {c} \notin B
<1> DEFINE N == {Cardinality(s) : s \in B}
<1>1. N \subseteq Nat /\ N # {}
  <2>1. \A s \in SUBSET S : Cardinality(s) \in Nat
    BY FS_Subset, FS_CardinalityType
  <2> QED BY <2>1
<1>2. PICK n \in N : \A k \in N : n <= k
  BY <1>1, LeastElement
<1>3. PICK s \in B : Cardinality(s) = n
  BY <1>2
<1>4. ASSUME NEW c \in s, s \ {c} \in B PROVE FALSE
  <2>1. Cardinality(s \ {c}) \in N
    BY <1>4
  <2>2. IsFiniteSet(s)
    BY FS_Subset
  <2>3. Cardinality(s \ {c}) = Cardinality(s) - 1 /\ Cardinality(s) \in Nat
    BY <2>2, FS_RemoveElement, FS_CardinalityType
  <2> HIDE DEF N
  <2> QED BY <1>2, <1>3, <2>1, <2>3
<1> QED BY <1>4

\* What one element after the other preserves holds of the whole fold.
LEMMA FoldStays ==
  ASSUME NEW S, IsFiniteSet(S), NEW T, NEW g, g[{}] \in T[{}],
         \A s \in SUBSET S :
           s # {} /\ g[s \ {Pick(s)}] \in T[s \ {Pick(s)}] => g[s] \in T[s]
  PROVE  \A s \in SUBSET S : g[s] \in T[s]
<1> DEFINE B == {s \in SUBSET S : g[s] \notin T[s]}
<1> SUFFICES ASSUME B # {} PROVE FALSE
  OBVIOUS
<1>1. PICK s \in B : \A c \in s : s \ {c} \notin B
  BY SmallestSet
<1>2. s # {}
  BY <1>1
<1>3. Pick(s) \in s /\ s \ {Pick(s)} \in SUBSET S
  BY <1>1, <1>2, PickFacts
<1>4. s \ {Pick(s)} \notin B
  BY <1>1, <1>3
<1> QED BY <1>1, <1>2, <1>3, <1>4

\* The function that a fold computes exists.
LEMMA FoldExists ==
  ASSUME NEW S, IsFiniteSet(S), NEW base, NEW F
  PROVE  \E g : IsFold(g, S, base, F)
<1> DEFINE L(k) == {s \in SUBSET S : Cardinality(s) <= k}
           Upto(k, g) == g = [s \in L(k) |-> IF s = {} THEN base ELSE F[<<s, g[s \ {Pick(s)}]>>]]
           B == {k \in Nat : ~\E g : Upto(k, g)}
<1>1. B = {}
  <2> SUFFICES ASSUME B # {} PROVE FALSE
    OBVIOUS
  <2>1. PICK k \in B : \A j \in B : k <= j
    BY LeastElement
  <2>2. CASE k = 0
    <3>1. \A s \in L(0) : s = {}
      <4> SUFFICES ASSUME NEW s \in L(0), s # {} PROVE FALSE
        OBVIOUS
      <4>1. Cardinality(s) \in Nat /\ Cardinality(s) >= 1
        BY PickFacts
      <4> QED BY <4>1
    <3>2. Upto(0, [s \in L(0) |-> base])
      BY <3>1
    <3> QED BY <2>1, <2>2, <3>2
  <2>3. CASE k # 0
    <3>1. k \in Nat /\ k - 1 \in Nat /\ ~(k <= k - 1)
      BY <2>1, <2>3
    <3>2. PICK g : Upto(k - 1, g)
      BY <2>1, <3>1
    <3> DEFINE f == [s \in L(k) |-> IF s = {} THEN base ELSE F[<<s, g[s \ {Pick(s)}]>>]]
    <3>3. \A s \in L(k - 1) : s \in L(k) /\ f[s] = g[s]
      <4>1. \A s \in L(k - 1) : s \in L(k)
        <5>1. \A s \in SUBSET S : Cardinality(s) \in Nat
          BY FS_Subset, FS_CardinalityType
        <5> QED BY <3>1, <5>1
      <4>2. \A s \in L(k - 1) : g[s] = IF s = {} THEN base ELSE F[<<s, g[s \ {Pick(s)}]>>]
        BY <3>2
      <4> QED BY <4>1, <4>2
    <3>4. \A s \in L(k) : s # {} => f[s \ {Pick(s)}] = g[s \ {Pick(s)}]
      <4> SUFFICES ASSUME NEW s \in L(k), s # {} PROVE s \ {Pick(s)} \in L(k - 1)
        BY <3>3
      <4>1. s \ {Pick(s)} \in SUBSET S /\ Cardinality(s \ {Pick(s)}) = Cardinality(s) - 1
            /\ Cardinality(s) \in Nat
        BY PickFacts
      <4> QED BY <3>1, <4>1
    <3>5. f = [s \in L(k) |-> IF s = {} THEN base ELSE F[<<s, f[s \ {Pick(s)}]>>]]
      BY <3>4
    <3> HIDE DEF f
    <3>6. Upto(k, f)
      BY <3>5
    <3> QED BY <2>1, <3>6
  <2> QED BY <2>2, <2>3
<1>2. Cardinality(S) \in Nat /\ L(Cardinality(S)) = SUBSET S
  BY FS_CardinalityType, FS_Subset
<1>3. \E g : Upto(Cardinality(S), g)
  BY <1>1, <1>2
<1> QED BY <1>2, <1>3 DEF IsFold

\* The fold of a set, by its first element.
LEMMA FoldPoint ==
  ASSUME NEW S, IsFiniteSet(S), NEW T, NEW base \in T[{}], NEW F,
         \A s \in SUBSET S : s # {} => \A v \in T[s \ {Pick(s)}] : F[<<s, v>>] \in T[s]
  PROVE  \E g : /\ IsFold(g, S, base, F)
                /\ \A s \in SUBSET S : g[s] \in T[s]
<1>1. PICK g : IsFold(g, S, base, F)
  BY FoldExists
<1>2. g[{}] = base
  <2>1. {} \in SUBSET S
    OBVIOUS
  <2> QED BY <1>1, <2>1 DEF IsFold
<1>3. \A s \in SUBSET S : s # {} => g[s] = F[<<s, g[s \ {Pick(s)}]>>]
  BY <1>1 DEF IsFold
<1>4. \A s \in SUBSET S : s # {} /\ g[s \ {Pick(s)}] \in T[s \ {Pick(s)}] => g[s] \in T[s]
  BY <1>3
<1>5. \A s \in SUBSET S : g[s] \in T[s]
  BY <1>2, <1>4, FoldStays
<1> QED BY <1>1, <1>5

-----------------------------------------------------------------------------
(* Sums over a finite set.                                                 *)

IsSum(g, f, S) ==
  g = [s \in SUBSET S |-> IF s = {} THEN 0 ELSE f[Pick(s)] + g[s \ {Pick(s)}]]

Total(f, S) == (CHOOSE g : IsSum(g, f, S))[S]

\* There is a function of the sums of all subsets.
LEMMA SumExists ==
  ASSUME NEW S, IsFiniteSet(S), NEW f, \A c \in S : f[c] \in Nat
  PROVE  \E g : IsSum(g, f, S)
<1> DEFINE T == [s \in SUBSET S |-> Nat]
           F == [x \in (SUBSET S) \X Nat |-> f[Pick(x[1])] + x[2]]
<1>1. \A s \in SUBSET S : s # {} =>
        \A v \in Nat : F[<<s, v>>] = f[Pick(s)] + v /\ F[<<s, v>>] \in Nat
  <2> SUFFICES ASSUME NEW s \in SUBSET S, s # {}, NEW v \in Nat
               PROVE  F[<<s, v>>] = f[Pick(s)] + v /\ F[<<s, v>>] \in Nat
    OBVIOUS
  <2>1. f[Pick(s)] \in Nat
    BY PickFacts
  <2>2. F[<<s, v>>] = f[Pick(s)] + v
    OBVIOUS
  <2> QED BY <2>1, <2>2
<1>2. \A s \in SUBSET S : T[s] = Nat /\ T[s \ {Pick(s)}] = Nat
  OBVIOUS
<1>3. 0 \in T[{}] /\ \A s \in SUBSET S : s # {} => \A v \in T[s \ {Pick(s)}] : F[<<s, v>>] \in T[s]
  BY <1>1, <1>2
<1> HIDE DEF T, F
<1>4. PICK g : IsFold(g, S, 0, F) /\ \A s \in SUBSET S : g[s] \in T[s]
  BY <1>3, FoldPoint
<1>5. \A s \in SUBSET S : s # {} => F[<<s, g[s \ {Pick(s)}]>>] = f[Pick(s)] + g[s \ {Pick(s)}]
  <2> SUFFICES ASSUME NEW s \in SUBSET S, s # {}
               PROVE  F[<<s, g[s \ {Pick(s)}]>>] = f[Pick(s)] + g[s \ {Pick(s)}]
    OBVIOUS
  <2>1. s \ {Pick(s)} \in SUBSET S
    OBVIOUS
  <2>2. g[s \ {Pick(s)}] \in Nat
    BY <1>2, <1>4, <2>1
  <2> QED BY <1>1, <2>2
<1>6. IsSum(g, f, S)
  BY <1>4, <1>5 DEF IsFold, IsSum
<1> QED BY <1>6

\* A sum, by the first element.
LEMMA SumPoint ==
  ASSUME NEW S, NEW f, NEW g, IsSum(g, f, S)
  PROVE  /\ g[{}] = 0
         /\ \A s \in SUBSET S : s # {} => g[s] = f[Pick(s)] + g[s \ {Pick(s)}]
<1>1. {} \in SUBSET S
  OBVIOUS
<1> QED BY <1>1 DEF IsSum

\* Sums of naturals are naturals.
LEMMA SumNat ==
  ASSUME NEW S, IsFiniteSet(S), NEW f, \A c \in S : f[c] \in Nat, NEW g, IsSum(g, f, S)
  PROVE  \A s \in SUBSET S : g[s] \in Nat
<1> DEFINE T == [s \in SUBSET S |-> Nat]
<1>1. \A s \in SUBSET S : T[s] = Nat
  OBVIOUS
<1>2. g[{}] \in T[{}]
  BY <1>1, SumPoint
<1>3. ASSUME NEW s \in SUBSET S, s # {}, g[s \ {Pick(s)}] \in T[s \ {Pick(s)}]
      PROVE  g[s] \in T[s]
  <2>1. g[s \ {Pick(s)}] \in Nat /\ f[Pick(s)] \in Nat
    BY <1>1, <1>3, PickFacts
  <2>2. g[s] = f[Pick(s)] + g[s \ {Pick(s)}]
    <3>1. \A r \in SUBSET S : r # {} => g[r] = f[Pick(r)] + g[r \ {Pick(r)}]
      BY SumPoint
    <3> QED BY <1>3, <3>1
  <2> QED BY <1>1, <2>1, <2>2
<1> HIDE DEF T
<1>4. \A s \in SUBSET S : g[s] \in T[s]
  BY <1>2, <1>3, FoldStays
<1> QED BY <1>1, <1>4

\* Sums depend on the terms alone.
LEMMA SumSame ==
  ASSUME NEW S, IsFiniteSet(S), NEW R, NEW f, NEW e, \A c \in S \cap R : f[c] = e[c],
         NEW g, IsSum(g, f, S), NEW h, IsSum(h, e, R)
  PROVE  \A s \in SUBSET (S \cap R) : g[s] = h[s]
<1> DEFINE U == S \cap R
           T == [s \in SUBSET U |-> {h[s]}]
<1>1. IsFiniteSet(U)
  BY FS_Subset
<1>2. \A s \in SUBSET U : T[s] = {h[s]}
  OBVIOUS
<1>3. g[{}] \in T[{}]
  <2>1. {} \in SUBSET U
    OBVIOUS
  <2>2. g[{}] = 0 /\ h[{}] = 0
    BY SumPoint
  <2> QED BY <1>2, <2>1, <2>2
<1>4. ASSUME NEW s \in SUBSET U, s # {}, g[s \ {Pick(s)}] \in T[s \ {Pick(s)}]
      PROVE  g[s] \in T[s]
  <2>1. Pick(s) \in U /\ s \ {Pick(s)} \in SUBSET U
    BY <1>1, <1>4, PickFacts
  <2>2. g[s \ {Pick(s)}] = h[s \ {Pick(s)}] /\ f[Pick(s)] = e[Pick(s)]
    BY <1>2, <1>4, <2>1
  <2>3. g[s] = f[Pick(s)] + g[s \ {Pick(s)}] /\ h[s] = e[Pick(s)] + h[s \ {Pick(s)}]
    <3>1. s \in SUBSET S /\ s \in SUBSET R
      OBVIOUS
    <3>2. \A r \in SUBSET S : r # {} => g[r] = f[Pick(r)] + g[r \ {Pick(r)}]
      BY SumPoint
    <3>3. \A r \in SUBSET R : r # {} => h[r] = e[Pick(r)] + h[r \ {Pick(r)}]
      BY SumPoint
    <3> QED BY <1>4, <3>1, <3>2, <3>3
  <2> QED BY <1>2, <2>2, <2>3
<1> HIDE DEF T
<1>5. \A s \in SUBSET U : g[s] \in T[s]
  BY <1>1, <1>3, <1>4, FoldStays
<1> QED BY <1>2, <1>5

\* Any element may be taken first.
LEMMA SumAny ==
  ASSUME NEW S, IsFiniteSet(S), NEW f, \A c \in S : f[c] \in Nat, NEW g, IsSum(g, f, S)
  PROVE  \A s \in SUBSET S : \A c \in s : g[s] = f[c] + g[s \ {c}]
<1> DEFINE B == {s \in SUBSET S : ~\A c \in s : g[s] = f[c] + g[s \ {c}]}
<1> SUFFICES ASSUME B # {} PROVE FALSE
  OBVIOUS
<1>1. PICK s \in B : \A c \in s : s \ {c} \notin B
  BY SmallestSet
<1>2. PICK c \in s : g[s] # f[c] + g[s \ {c}]
  BY <1>1
<1> DEFINE x == Pick(s)
           r == s \ {c, x}
<1>3. s \in SUBSET S /\ s # {} /\ x \in s /\ x \in S /\ c \in S
  BY <1>1, <1>2, PickFacts
<1>4. g[s] = f[x] + g[s \ {x}]
  BY <1>3, SumPoint
<1>5. c # x
  BY <1>2, <1>4
<1> HIDE DEF x
<1>6. g[s \ {x}] = f[c] + g[r]
  <2>1. s \ {x} \notin B /\ s \ {x} \in SUBSET S /\ c \in s \ {x} /\ (s \ {x}) \ {c} = r
    BY <1>1, <1>3, <1>5
  <2> QED BY <2>1
<1>7. g[s \ {c}] = f[x] + g[r]
  <2>1. s \ {c} \notin B /\ s \ {c} \in SUBSET S /\ x \in s \ {c} /\ (s \ {c}) \ {x} = r
    BY <1>1, <1>2, <1>3, <1>5
  <2> QED BY <2>1
<1>8. g[r] \in Nat /\ f[x] \in Nat /\ f[c] \in Nat
  <2>1. r \in SUBSET S
    BY <1>3
  <2> QED BY <1>3, <2>1, SumNat
<1> HIDE DEF r
<1> QED BY <1>2, <1>4, <1>6, <1>7, <1>8

\* A total is the value of such a function.
LEMMA TotalIs ==
  ASSUME NEW S, IsFiniteSet(S), NEW f, \A c \in S : f[c] \in Nat
  PROVE  \E g : IsSum(g, f, S) /\ Total(f, S) = g[S]
<1> DEFINE g == CHOOSE g : IsSum(g, f, S)
<1>1. IsSum(g, f, S)
  BY SumExists
<1> QED BY <1>1 DEF Total

\* A total is a natural, and any element can be taken out of it.
LEMMA TotalFacts ==
  ASSUME NEW S, IsFiniteSet(S), NEW f, \A c \in S : f[c] \in Nat
  PROVE  /\ Total(f, S) \in Nat
         /\ \A c \in S : /\ Total(f, S \ {c}) \in Nat
                         /\ Total(f, S) = f[c] + Total(f, S \ {c})
<1>1. PICK g : IsSum(g, f, S) /\ Total(f, S) = g[S]
  BY TotalIs
<1>2. Total(f, S) \in Nat
  BY <1>1, SumNat
<1>3. ASSUME NEW c \in S PROVE Total(f, S \ {c}) \in Nat /\ Total(f, S) = f[c] + Total(f, S \ {c})
  <2> DEFINE R == S \ {c}
  <2>1. IsFiniteSet(R) /\ R \in SUBSET S /\ S \cap R = R /\ R \in SUBSET (S \cap R)
    BY FS_RemoveElement
  <2>2. PICK h : IsSum(h, f, R) /\ Total(f, R) = h[R]
    BY <2>1, TotalIs
  <2>3. g[R] = h[R]
    BY <1>1, <2>1, <2>2, SumSame
  <2>4. g[S] = f[c] + g[R]
    BY <1>1, SumAny
  <2>5. g[R] \in Nat
    BY <1>1, <2>1, SumNat
  <2> QED BY <1>1, <2>2, <2>3, <2>4, <2>5
<1> QED BY <1>2, <1>3

\* Nothing adds up to nothing.
LEMMA TotalEmpty ==
  ASSUME NEW f PROVE Total(f, {}) = 0
<1>1. IsFiniteSet({})
  BY FS_EmptySet
<1>2. PICK g : IsSum(g, f, {}) /\ Total(f, {}) = g[{}]
  BY <1>1, TotalIs
<1> QED BY <1>2, SumPoint

\* Equal terms make equal totals.
LEMMA TotalSame ==
  ASSUME NEW S, IsFiniteSet(S), NEW f, NEW e,
         \A c \in S : f[c] \in Nat /\ e[c] = f[c]
  PROVE  Total(e, S) = Total(f, S)
<1>1. PICK g : IsSum(g, f, S) /\ Total(f, S) = g[S]
  BY TotalIs
<1>2. PICK h : IsSum(h, e, S) /\ Total(e, S) = h[S]
  BY TotalIs
<1>3. \A c \in S \cap S : f[c] = e[c]
  OBVIOUS
<1>4. \A s \in SUBSET (S \cap S) : g[s] = h[s]
  BY <1>1, <1>2, <1>3, SumSame
<1> QED BY <1>1, <1>2, <1>4

WaitingOf(t) == [c \in Clients |-> Waiting(t, c)]

\* The segments of a set of connections are a sum.
LEMMA WaitingTotal ==
  ASSUME NEW t, NEW S, S \subseteq Clients, IsFiniteSet(S),
         \A c \in S : Waiting(t, c) \in Nat
  PROVE  MapThenSumSet(LAMBDA c : Waiting(t, c), S) = Total(WaitingOf(t), S)
<1> DEFINE f == WaitingOf(t)
           G(g) == g = [s \in SUBSET S |->
                          IF s = {} THEN 0 ELSE Waiting(t, Pick(s)) + g[s \ {Pick(s)}]]
<1>1. \A c \in S : f[c] = Waiting(t, c) /\ f[c] \in Nat
  BY DEF WaitingOf
<1>2. \A s \in SUBSET S : s # {} => f[Pick(s)] = Waiting(t, Pick(s))
  BY <1>1, PickFacts
<1>3. PICK g : IsSum(g, f, S) /\ Total(f, S) = g[S]
  BY <1>1, TotalIs
<1>4. G(g)
  BY <1>2, <1>3 DEF IsSum
<1> DEFINE h == CHOOSE h : G(h)
<1>5. G(h)
  BY <1>4
<1>6. MapThenSumSet(LAMBDA c : Waiting(t, c), S) = h[S]
  BY DEF MapThenSumSet, MapThenFoldSet, Pick
<1> HIDE DEF h
<1>7. IsSum(h, f, S)
  BY <1>2, <1>5 DEF IsSum
<1>8. \A s \in SUBSET (S \cap S) : g[s] = h[s]
  BY <1>3, <1>7, SumSame
<1>9. g[S] = h[S]
  BY <1>8
<1> QED BY <1>3, <1>6, <1>9

-----------------------------------------------------------------------------
(* The operators on tcp keep Good.                                         *)

Kinds == {"SYNACK", "RESPONSE", "FIN"}

\* The constants of the connections.
LEMMA ConstFacts ==
  /\ NoClient \notin Clients
  /\ MaxPcbs \in Nat /\ SegPool \in Nat /\ Wnd \in Nat /\ Wnd > 1 /\ MaxRtx \in Nat
  BY HttpConnConstantsOK

\* A blank control block is one that is free.
LEMMA BlankFacts ==
  /\ Blank \in Pcbs /\ BlockOK(Blank) /\ Quiet(Blank)
  /\ Blank.state = "CLOSED" /\ Blank.unsent = <<>> /\ Blank.unacked = <<>> /\ Blank.nrtx = 0
  /\ Blank.rcv_wnd = Wnd /\ Blank.closepend = FALSE /\ Blank.backlogpend = FALSE
<1>1. <<>> \in Seq({"SYNACK", "RESPONSE", "FIN"})
  OBVIOUS
<1> QED BY <1>1, ConstFacts DEF Blank, Pcbs, States, BlockOK, Quiet

\* The fields of a control block.
LEMMA BlockTypes ==
  ASSUME NEW p \in Pcbs
  PROVE  /\ p.state \in States /\ p.nrtx \in 0 .. MaxRtx /\ p.rcv_wnd \in 0 .. Wnd
         /\ p.unsent \in Seq(Kinds) /\ p.unacked \in Seq(Kinds)
         /\ Len(p.unsent) \in Nat /\ Len(p.unacked) \in Nat
         /\ Len(p.unsent) + Len(p.unacked) \in Nat
         /\ p.closepend \in BOOLEAN /\ p.backlogpend \in BOOLEAN
<1>1. p.unsent \in Seq(Kinds) /\ p.unacked \in Seq(Kinds)
  BY DEF Pcbs, Kinds
<1>2. Len(p.unsent) \in Nat /\ Len(p.unacked) \in Nat
  BY <1>1, LenProperties
<1> DEFINE a == Len(p.unsent)
           b == Len(p.unacked)
<1>3. a \in Nat /\ b \in Nat
  BY <1>2
<1> HIDE DEF a, b
<1>4. a + b \in Nat
  BY <1>3
<1>5. Len(p.unsent) + Len(p.unacked) \in Nat
  BY <1>4 DEF a, b
<1> QED BY <1>1, <1>2, <1>5 DEF Pcbs

\* What a good record says of one connection.
LEMMA GoodFacts ==
  ASSUME NEW t, Good(t), NEW c \in Clients
  PROVE  /\ IsTcp(t) /\ t.pcb \in [Clients -> Pcbs] /\ t.pcb[c] \in Pcbs
         /\ t.used \subseteq Clients /\ IsFiniteSet(t.used) /\ Cardinality(t.used) \in Nat
         /\ Waiting(t, c) \in Nat /\ Waiting(t, c) = Len(t.pcb[c].unsent) + Len(t.pcb[c].unacked)
         /\ t.segs = Total(WaitingOf(t), t.used) /\ t.segs \in Nat
         /\ t.accepts_pending \in Nat /\ BlockOK(t.pcb[c])
<1>1. \A d \in Clients : t.pcb[d] \in Pcbs
  BY DEF Good
<1>2. \A d \in Clients : Waiting(t, d) \in Nat
                         /\ Waiting(t, d) = Len(t.pcb[d].unsent) + Len(t.pcb[d].unacked)
  <2> SUFFICES ASSUME NEW d \in Clients PROVE Waiting(t, d) \in Nat
    BY DEF Waiting
  <2>1. Len(t.pcb[d].unsent) + Len(t.pcb[d].unacked) \in Nat
    BY <1>1, BlockTypes
  <2> QED BY <2>1 DEF Waiting
<1>3. t.used \subseteq Clients /\ IsFiniteSet(t.used) /\ Cardinality(t.used) \in Nat
  BY FS_CardinalityType DEF Good
<1>4. t.segs = Total(WaitingOf(t), t.used)
  BY <1>2, <1>3, WaitingTotal DEF Good
<1>5. t.segs \in Nat
  <2>1. \A d \in t.used : WaitingOf(t)[d] \in Nat
    BY <1>2, <1>3 DEF WaitingOf
  <2> QED BY <1>3, <1>4, <2>1, TotalFacts
<1>6. t.accepts_pending \in Nat
  <2>1. HalfOpen(t) \in SUBSET t.used
    BY DEF HalfOpen
  <2>2. Cardinality(HalfOpen(t)) \in Nat
    BY <1>3, <2>1, FS_Subset, FS_CardinalityType
  <2> QED BY <2>2 DEF Good
<1> QED BY <1>1, <1>2, <1>3, <1>4, <1>5, <1>6 DEF Good

\* One block changes, and the counts with it.
LEMMA GoodUpdate ==
  ASSUME NEW t, Good(t), NEW c \in t.used, NEW q \in Pcbs, BlockOK(q),
         NEW u, IsTcp(u), u.pcb = [t.pcb EXCEPT ![c] = q],
         u.used = t.used, u.active \subseteq t.used,
         u.segs = t.segs - Waiting(t, c) + Len(q.unsent) + Len(q.unacked), u.segs <= SegPool,
         q.state = "SYN_RCVD" => t.pcb[c].state = "SYN_RCVD",
         u.accepts_pending = IF t.pcb[c].state = "SYN_RCVD" /\ q.state # "SYN_RCVD"
                             THEN t.accepts_pending - 1 ELSE t.accepts_pending
  PROVE  Good(u)
<1>1. /\ c \in Clients /\ IsFiniteSet(t.used) /\ t.used \subseteq Clients
      /\ t.pcb \in [Clients -> Pcbs] /\ t.segs = Total(WaitingOf(t), t.used) /\ t.segs \in Nat
      /\ \A d \in Clients : Waiting(t, d) \in Nat /\ BlockOK(t.pcb[d])
      /\ t.accepts_pending \in Nat
  <2>1. c \in Clients
    BY DEF Good
  <2> QED BY <2>1, GoodFacts
<1>2. /\ u.pcb \in [Clients -> Pcbs] /\ u.pcb[c] = q
      /\ \A d \in Clients : d # c => u.pcb[d] = t.pcb[d]
  BY <1>1
<1>3. /\ \A d \in Clients : Waiting(u, d) \in Nat
      /\ Waiting(u, c) = Len(q.unsent) + Len(q.unacked)
      /\ \A d \in Clients : d # c => Waiting(u, d) = Waiting(t, d)
  <2>1. Waiting(u, c) = Len(q.unsent) + Len(q.unacked)
    BY <1>2 DEF Waiting
  <2>2. Len(q.unsent) + Len(q.unacked) \in Nat
    BY BlockTypes
  <2>3. \A d \in Clients : d # c => Waiting(u, d) = Waiting(t, d)
    BY <1>2 DEF Waiting
  <2>4. Waiting(u, c) \in Nat
    BY <2>1, <2>2
  <2> QED BY <1>1, <2>1, <2>3, <2>4
<1>4. u.segs = MapThenSumSet(LAMBDA d : Waiting(u, d), u.used)
  <2> DEFINE f == WaitingOf(t)
             e == WaitingOf(u)
             R == t.used \ {c}
  <2>1. /\ \A d \in t.used : f[d] \in Nat /\ e[d] \in Nat
        /\ \A d \in R : e[d] = f[d]
        /\ f[c] = Waiting(t, c) /\ e[c] = Waiting(u, c)
    BY <1>1, <1>3 DEF WaitingOf
  <2> HIDE DEF f, e
  <2>2. IsFiniteSet(R)
    BY <1>1, FS_RemoveElement
  <2>3. Total(e, R) = Total(f, R)
    BY <2>1, <2>2, TotalSame
  <2>4. Total(f, R) \in Nat /\ Total(f, t.used) = f[c] + Total(f, R)
    <3>1. IsFiniteSet(t.used) /\ \A d \in t.used : f[d] \in Nat
      BY <1>1, <2>1
    <3>2. \A d \in t.used : /\ Total(f, t.used \ {d}) \in Nat
                            /\ Total(f, t.used) = f[d] + Total(f, t.used \ {d})
      BY <3>1, TotalFacts
    <3> QED BY <3>2
  <2>5. Total(e, t.used) = e[c] + Total(e, R)
    <3>1. IsFiniteSet(t.used) /\ \A d \in t.used : e[d] \in Nat
      BY <1>1, <2>1
    <3>2. \A d \in t.used : /\ Total(e, t.used \ {d}) \in Nat
                            /\ Total(e, t.used) = e[d] + Total(e, t.used \ {d})
      BY <3>1, TotalFacts
    <3> QED BY <3>2
  <2>6. Len(q.unsent) \in Nat /\ Len(q.unacked) \in Nat
    BY BlockTypes
  <2>7. t.segs = Total(f, t.used)
    BY <1>1 DEF f
  <2>8. u.segs = Total(e, t.used)
    <3> DEFINE a == Len(q.unsent)
               b == Len(q.unacked)
    <3>1. /\ a \in Nat /\ b \in Nat /\ e[c] = a + b /\ f[c] \in Nat
          /\ u.segs = Total(f, t.used) - f[c] + a + b
      BY <1>3, <2>1, <2>6, <2>7
    <3> HIDE DEF a, b, R
    <3> QED BY <2>3, <2>4, <2>5, <3>1
  <2>9. \A d \in t.used : Waiting(u, d) \in Nat
    BY <1>1, <1>3
  <2>10. MapThenSumSet(LAMBDA d : Waiting(u, d), t.used) = Total(WaitingOf(u), t.used)
    BY <1>1, <2>9, WaitingTotal
  <2> QED BY <2>8, <2>10 DEF e
<1>5. u.accepts_pending = Cardinality(HalfOpen(u))
  <2>1. IsFiniteSet(HalfOpen(t))
    <3>1. HalfOpen(t) \in SUBSET t.used
      BY DEF HalfOpen
    <3> QED BY <1>1, <3>1, FS_Subset
  <2>2. CASE t.pcb[c].state = "SYN_RCVD" /\ q.state # "SYN_RCVD"
    <3>1. HalfOpen(u) = HalfOpen(t) \ {c} /\ c \in HalfOpen(t)
      BY <1>1, <1>2, <2>2 DEF HalfOpen
    <3> QED BY <2>1, <2>2, <3>1, FS_RemoveElement DEF Good
  <2>3. CASE ~(t.pcb[c].state = "SYN_RCVD" /\ q.state # "SYN_RCVD")
    <3>1. HalfOpen(u) = HalfOpen(t)
      BY <1>1, <1>2, <2>3 DEF HalfOpen
    <3> QED BY <2>3, <3>1 DEF Good
  <2> QED BY <2>2, <2>3
<1>6. \A d \in Clients \ u.used : u.pcb[d] = Blank
  BY <1>2 DEF Good
<1>7. \A d \in Clients : BlockOK(u.pcb[d])
  BY <1>1, <1>2
<1>8. u.used \subseteq Clients /\ IsFiniteSet(u.used) /\ Cardinality(u.used) <= MaxPcbs
  BY DEF Good
<1> QED BY <1>2, <1>4, <1>5, <1>6, <1>7, <1>8 DEF Good

\* A block goes back to its pool, with what it holds.
LEMMA GoodFree ==
  ASSUME NEW t, Good(t), NEW c \in t.used,
         NEW u, IsTcp(u), u.pcb = [t.pcb EXCEPT ![c] = Blank],
         u.used = t.used \ {c}, u.active = t.active \ {c},
         u.segs = t.segs - Waiting(t, c),
         u.accepts_pending = IF t.pcb[c].state = "SYN_RCVD"
                             THEN t.accepts_pending - 1 ELSE t.accepts_pending
  PROVE  Good(u)
<1>1. /\ c \in Clients /\ IsFiniteSet(t.used) /\ t.used \subseteq Clients
      /\ t.pcb \in [Clients -> Pcbs] /\ t.segs = Total(WaitingOf(t), t.used) /\ t.segs \in Nat
      /\ \A d \in Clients : Waiting(t, d) \in Nat /\ BlockOK(t.pcb[d])
      /\ t.accepts_pending \in Nat /\ Cardinality(t.used) \in Nat
  <2>1. c \in Clients
    BY DEF Good
  <2> QED BY <2>1, GoodFacts
<1>2. /\ u.pcb \in [Clients -> Pcbs] /\ u.pcb[c] = Blank
      /\ \A d \in Clients : d # c => u.pcb[d] = t.pcb[d]
  BY <1>1, BlankFacts
<1>3. /\ \A d \in Clients : Waiting(u, d) \in Nat
      /\ \A d \in Clients : d # c => Waiting(u, d) = Waiting(t, d)
  <2>1. Waiting(u, c) = Len(Blank.unsent) + Len(Blank.unacked)
    BY <1>2 DEF Waiting
  <2>2. Len(Blank.unsent) + Len(Blank.unacked) \in Nat
    BY BlankFacts, BlockTypes
  <2>3. \A d \in Clients : d # c => Waiting(u, d) = Waiting(t, d)
    BY <1>2 DEF Waiting
  <2>4. Waiting(u, c) \in Nat
    BY <2>1, <2>2
  <2> QED BY <1>1, <2>3, <2>4
<1> DEFINE R == t.used \ {c}
<1>4. IsFiniteSet(R) /\ Cardinality(R) = Cardinality(t.used) - 1
  BY <1>1, FS_RemoveElement
<1>5. u.segs = MapThenSumSet(LAMBDA d : Waiting(u, d), u.used)
  <2> DEFINE f == WaitingOf(t)
             e == WaitingOf(u)
  <2>1. /\ \A d \in t.used : f[d] \in Nat /\ e[d] \in Nat
        /\ \A d \in R : e[d] = f[d]
        /\ f[c] = Waiting(t, c)
    BY <1>1, <1>3 DEF WaitingOf
  <2> HIDE DEF f, e
  <2>2. Total(e, R) = Total(f, R)
    BY <1>4, <2>1, TotalSame
  <2>3. Total(f, R) \in Nat /\ Total(f, t.used) = f[c] + Total(f, R)
    BY <1>1, <2>1, TotalFacts
  <2>4. u.segs = Total(e, R)
    BY <1>1, <2>1, <2>2, <2>3 DEF f
  <2>5. R \subseteq Clients /\ \A d \in R : Waiting(u, d) \in Nat
    BY <1>1, <1>3
  <2>6. MapThenSumSet(LAMBDA d : Waiting(u, d), R) = Total(WaitingOf(u), R)
    BY <1>4, <2>5, WaitingTotal
  <2> QED BY <2>4, <2>6 DEF e
<1>6. u.accepts_pending = Cardinality(HalfOpen(u))
  <2>1. IsFiniteSet(HalfOpen(t))
    <3>1. HalfOpen(t) \in SUBSET t.used
      BY DEF HalfOpen
    <3> QED BY <1>1, <3>1, FS_Subset
  <2>2. HalfOpen(u) = HalfOpen(t) \ {c}
    BY <1>1, <1>2 DEF HalfOpen
  <2>3. CASE t.pcb[c].state = "SYN_RCVD"
    <3>1. c \in HalfOpen(t)
      BY <2>3 DEF HalfOpen
    <3>2. Cardinality(HalfOpen(u)) = Cardinality(HalfOpen(t)) - 1
      BY <2>1, <2>2, <3>1, FS_RemoveElement
    <3> QED BY <2>3, <3>2 DEF Good
  <2>4. CASE t.pcb[c].state # "SYN_RCVD"
    <3>1. HalfOpen(u) = HalfOpen(t)
      BY <2>2, <2>4 DEF HalfOpen
    <3> QED BY <2>4, <3>1 DEF Good
  <2> QED BY <2>3, <2>4
<1>7. \A d \in Clients \ u.used : u.pcb[d] = Blank
  BY <1>2 DEF Good
<1>8. \A d \in Clients : BlockOK(u.pcb[d])
  BY <1>1, <1>2, BlankFacts
<1>9. u.used \subseteq Clients /\ IsFiniteSet(u.used) /\ Cardinality(u.used) <= MaxPcbs
  BY <1>1, <1>4, ConstFacts DEF Good
<1>10. u.active \subseteq u.used
  BY DEF Good
<1>11. u.segs <= SegPool
  BY <1>1, ConstFacts DEF Good
<1> QED BY <1>2, <1>5, <1>6, <1>7, <1>8, <1>9, <1>10, <1>11 DEF Good

\* A block is taken for a new connection.
LEMMA GoodTake ==
  ASSUME NEW t, Good(t), NEW c \in Clients, c \notin t.used, Cardinality(t.used) < MaxPcbs,
         NEW q \in Pcbs, q.unsent = <<>>, q.unacked = <<>>, q.state = "SYN_RCVD", BlockOK(q),
         NEW u, IsTcp(u), u.pcb = [t.pcb EXCEPT ![c] = q],
         u.used = t.used \cup {c}, u.active = t.active \cup {c},
         u.segs = t.segs, u.accepts_pending = t.accepts_pending + 1
  PROVE  Good(u)
<1>1. /\ IsFiniteSet(t.used) /\ t.used \subseteq Clients
      /\ t.pcb \in [Clients -> Pcbs] /\ t.segs = Total(WaitingOf(t), t.used) /\ t.segs \in Nat
      /\ \A d \in Clients : Waiting(t, d) \in Nat /\ BlockOK(t.pcb[d])
      /\ t.accepts_pending \in Nat /\ Cardinality(t.used) \in Nat
  BY GoodFacts
<1>2. /\ u.pcb \in [Clients -> Pcbs] /\ u.pcb[c] = q
      /\ \A d \in Clients : d # c => u.pcb[d] = t.pcb[d]
  BY <1>1
<1>3. /\ \A d \in Clients : Waiting(u, d) \in Nat
      /\ \A d \in Clients : d # c => Waiting(u, d) = Waiting(t, d)
      /\ Waiting(u, c) = 0
  <2>1. Waiting(u, c) = 0
    <3>1. Waiting(u, c) = Len(q.unsent) + Len(q.unacked)
      BY <1>2 DEF Waiting
    <3>2. Len(q.unsent) = 0 /\ Len(q.unacked) = 0
      OBVIOUS
    <3> QED BY <3>1, <3>2
  <2>2. \A d \in Clients : d # c => Waiting(u, d) = Waiting(t, d)
    BY <1>2 DEF Waiting
  <2> QED BY <1>1, <2>1, <2>2
<1> DEFINE S == t.used \cup {c}
<1>4. IsFiniteSet(S) /\ Cardinality(S) = Cardinality(t.used) + 1 /\ S \ {c} = t.used
  <2>1. IsFiniteSet(S) /\ Cardinality(S) = Cardinality(t.used) + 1
    BY <1>1, FS_AddElement
  <2> QED BY <2>1
<1>5. u.segs = MapThenSumSet(LAMBDA d : Waiting(u, d), u.used)
  <2> DEFINE f == WaitingOf(t)
             e == WaitingOf(u)
  <2>1. /\ \A d \in S : e[d] \in Nat
        /\ \A d \in t.used : f[d] \in Nat /\ e[d] = f[d]
        /\ e[c] = 0
    BY <1>1, <1>3 DEF WaitingOf
  <2> HIDE DEF f, e
  <2>2. Total(e, t.used) = Total(f, t.used)
    BY <1>1, <2>1, TotalSame
  <2>3. Total(e, S) = e[c] + Total(e, S \ {c}) /\ Total(e, S \ {c}) \in Nat
    BY <1>4, <2>1, TotalFacts
  <2>4. u.segs = Total(e, S)
    <3>1. t.segs = Total(f, t.used)
      BY <1>1 DEF f
    <3>2. Total(e, S \ {c}) = Total(e, t.used)
      BY <1>4
    <3> HIDE DEF S
    <3> QED BY <1>1, <2>1, <2>2, <2>3, <3>1, <3>2
  <2>5. S \subseteq Clients /\ \A d \in S : Waiting(u, d) \in Nat
    BY <1>1, <1>3
  <2>6. MapThenSumSet(LAMBDA d : Waiting(u, d), S) = Total(WaitingOf(u), S)
    BY <1>4, <2>5, WaitingTotal
  <2> QED BY <2>4, <2>6 DEF e
<1>6. u.accepts_pending = Cardinality(HalfOpen(u))
  <2>1. IsFiniteSet(HalfOpen(t))
    <3>1. HalfOpen(t) \in SUBSET t.used
      BY DEF HalfOpen
    <3> QED BY <1>1, <3>1, FS_Subset
  <2>2. HalfOpen(u) = HalfOpen(t) \cup {c} /\ c \notin HalfOpen(t)
    BY <1>1, <1>2 DEF HalfOpen
  <2>3. Cardinality(HalfOpen(u)) = Cardinality(HalfOpen(t)) + 1
    BY <2>1, <2>2, FS_AddElement
  <2> QED BY <2>3 DEF Good
<1>7. \A d \in Clients \ u.used : u.pcb[d] = Blank
  BY <1>2 DEF Good
<1>8. \A d \in Clients : BlockOK(u.pcb[d])
  BY <1>1, <1>2
<1>9. u.used \subseteq Clients /\ IsFiniteSet(u.used) /\ Cardinality(u.used) <= MaxPcbs
  BY <1>1, <1>4, ConstFacts DEF Good
<1>10. u.active \subseteq u.used
  BY DEF Good
<1>11. u.segs <= SegPool
  BY DEF Good
<1> QED BY <1>2, <1>5, <1>6, <1>7, <1>8, <1>9, <1>10, <1>11 DEF Good

-----------------------------------------------------------------------------
(* What each operator on tcp does to one block, and that it keeps Good.    *)

\* Nothing but the block of c and the counts differ.
Only(t, u, c) ==
  /\ IsTcp(u) /\ u.pcb \in [Clients -> Pcbs]
  /\ \A d \in Clients : d # c => u.pcb[d] = t.pcb[d]

Kept(t, u) == u.used = t.used /\ u.active = t.active

\* GoodUpdate, with the new block taken from the result.
LEMMA GoodOnly ==
  ASSUME NEW t, Good(t), NEW c \in t.used, NEW u, Only(t, u, c),
         u.used = t.used, u.active \subseteq t.used, BlockOK(u.pcb[c]),
         u.segs = t.segs - Waiting(t, c) + Len(u.pcb[c].unsent) + Len(u.pcb[c].unacked),
         u.segs <= SegPool,
         u.pcb[c].state = "SYN_RCVD" => t.pcb[c].state = "SYN_RCVD",
         u.accepts_pending = IF t.pcb[c].state = "SYN_RCVD" /\ u.pcb[c].state # "SYN_RCVD"
                             THEN t.accepts_pending - 1 ELSE t.accepts_pending
  PROVE  Good(u)
<1>1. c \in Clients /\ t.pcb \in [Clients -> Pcbs]
  BY DEF Good
<1> DEFINE q == u.pcb[c]
<1>2. u.pcb = [t.pcb EXCEPT ![c] = q] /\ q \in Pcbs /\ IsTcp(u)
  BY <1>1 DEF Only
<1> QED BY <1>2, GoodUpdate

\* tcp_enqueue: one segment more, unsent.
LEMMA EnqueueFields ==
  ASSUME NEW t, IsTcp(t), t.pcb \in [Clients -> Pcbs], NEW c \in Clients, NEW kind \in Kinds
  PROVE  LET u == Enqueue(t, c, kind) IN
         /\ IsTcp(u) /\ Kept(t, u)
         /\ u.segs = t.segs + 1 /\ u.accepts_pending = t.accepts_pending
         /\ u.pcb = [t.pcb EXCEPT ![c] = [t.pcb[c] EXCEPT !.unsent = Append(@, kind)]]
  BY DEF Enqueue, IsTcp, Kept

\* tcp_enqueue keeps the record good.
LEMMA EnqueueGood ==
  ASSUME NEW t, Good(t), NEW c \in t.used, t.segs < SegPool, NEW kind \in Kinds
  PROVE  LET u == Enqueue(t, c, kind) IN
         /\ Good(u) /\ Kept(t, u) /\ Only(t, u, c)
         /\ u.pcb[c] = [t.pcb[c] EXCEPT !.unsent = Append(@, kind)]
<1> DEFINE u == Enqueue(t, c, kind)
           p == t.pcb[c]
           a == Append(p.unsent, kind)
           q == [p EXCEPT !.unsent = a]
<1>1. /\ c \in Clients /\ IsTcp(t) /\ t.pcb \in [Clients -> Pcbs] /\ p \in Pcbs
      /\ Waiting(t, c) = Len(p.unsent) + Len(p.unacked) /\ BlockOK(p) /\ t.segs \in Nat
      /\ t.active \subseteq t.used
  <2>1. c \in Clients
    BY DEF Good
  <2> QED BY <2>1, GoodFacts DEF Good
<1>2. p.unsent \in Seq(Kinds) /\ Len(p.unsent) \in Nat /\ Len(p.unacked) \in Nat
  BY <1>1, BlockTypes
<1>3. a \in Seq(Kinds) /\ Len(a) = Len(p.unsent) + 1
  BY <1>2, AppendProperties
<1> HIDE DEF a
<1>4. q \in Pcbs
  BY <1>1, <1>3 DEF Pcbs, Kinds
<1>5. q.unsent = a /\ q.unacked = p.unacked /\ q.state = p.state
      /\ q.closepend = p.closepend /\ q.backlogpend = p.backlogpend
  BY <1>1 DEF Pcbs
<1>6. /\ IsTcp(u) /\ Kept(t, u) /\ u.pcb = [t.pcb EXCEPT ![c] = q]
      /\ u.segs = t.segs + 1 /\ u.accepts_pending = t.accepts_pending
  BY <1>1, EnqueueFields DEF a
<1> HIDE DEF u, q, p
<1>7. Only(t, u, c) /\ u.pcb[c] = q
  BY <1>1, <1>4, <1>6 DEF Only
<1>8. u.segs = t.segs - Waiting(t, c) + Len(u.pcb[c].unsent) + Len(u.pcb[c].unacked)
      /\ u.segs <= SegPool
  <2> DEFINE m == Len(p.unsent)
             n == Len(p.unacked)
  <2>1. m \in Nat /\ n \in Nat /\ Waiting(t, c) = m + n
    BY <1>1, <1>2
  <2>2. Len(u.pcb[c].unsent) = m + 1 /\ Len(u.pcb[c].unacked) = n
    BY <1>3, <1>5, <1>7
  <2> HIDE DEF m, n
  <2>3. t.segs + 1 = t.segs - Waiting(t, c) + (m + 1) + n
    <3> DEFINE g == t.segs
               w == Waiting(t, c)
    <3>1. g \in Nat /\ w = m + n
      BY <1>1, <2>1
    <3> HIDE DEF g, w
    <3>2. g + 1 = g - w + (m + 1) + n
      BY <2>1, <3>1
    <3> QED BY <3>2 DEF g, w
  <2>4. t.segs + 1 <= SegPool
    BY <1>1, ConstFacts
  <2> QED BY <1>6, <2>2, <2>3, <2>4
<1>9. BlockOK(u.pcb[c]) /\ u.pcb[c].state = t.pcb[c].state
  BY <1>1, <1>5, <1>7 DEF BlockOK, p
<1>10. u.used = t.used /\ u.active \subseteq t.used
  BY <1>1, <1>6 DEF Kept
<1>11. Good(u)
  BY <1>6, <1>7, <1>8, <1>9, <1>10, GoodOnly
<1> QED BY <1>6, <1>7, <1>11 DEF u, q, p, a

\* The counts stay: as much waits as before, though perhaps in the other queue.
LEMMA GoodMove ==
  ASSUME NEW t, Good(t), NEW c \in t.used, NEW u, Only(t, u, c), Kept(t, u),
         BlockOK(u.pcb[c]),
         u.pcb[c].state = "SYN_RCVD" <=> t.pcb[c].state = "SYN_RCVD",
         Len(u.pcb[c].unsent) + Len(u.pcb[c].unacked) = Waiting(t, c),
         u.segs = t.segs, u.accepts_pending = t.accepts_pending
  PROVE  Good(u)
<1> DEFINE q == u.pcb[c]
<1>1. /\ c \in Clients /\ t.pcb \in [Clients -> Pcbs] /\ BlockOK(t.pcb[c]) /\ t.segs \in Nat
      /\ Waiting(t, c) \in Nat /\ t.active \subseteq t.used /\ t.segs <= SegPool
  <2>1. c \in Clients
    BY DEF Good
  <2> QED BY <2>1, GoodFacts DEF Good
<1>2. q \in Pcbs
  BY <1>1 DEF Only
<1>3. Len(q.unsent) \in Nat /\ Len(q.unacked) \in Nat
  BY <1>2, BlockTypes
<1>4. u.segs = t.segs - Waiting(t, c) + Len(q.unsent) + Len(q.unacked) /\ u.segs <= SegPool
  <2> DEFINE a == Len(q.unsent)
             b == Len(q.unacked)
  <2>1. a \in Nat /\ b \in Nat /\ Waiting(t, c) = a + b
    BY <1>3
  <2> HIDE DEF a, b
  <2>2. u.segs = t.segs - Waiting(t, c) + a + b
    BY <1>1, <2>1
  <2> QED BY <1>1, <2>2 DEF a, b
<1>5. u.used = t.used /\ u.active \subseteq t.used
  BY <1>1 DEF Kept
<1> QED BY <1>4, <1>5, GoodOnly

\* tcp_output moves what is unsent, and changes no state.
LEMMA OutputGood ==
  ASSUME NEW t, Good(t), NEW c \in t.used, NEW ok
  PROVE  LET u == Output(t, c, ok) IN
         /\ Good(u) /\ Kept(t, u) /\ Only(t, u, c)
         /\ u.pcb[c].state = t.pcb[c].state /\ u.pcb[c].rcv_wnd = t.pcb[c].rcv_wnd
         /\ Quiet(t.pcb[c]) => Quiet(u.pcb[c])
<1> DEFINE u == Output(t, c, ok)
           p == t.pcb[c]
           a == p.unacked \o p.unsent
           q == [p EXCEPT !.unacked = a, !.unsent = <<>>]
<1>1. /\ c \in Clients /\ IsTcp(t) /\ t.pcb \in [Clients -> Pcbs] /\ p \in Pcbs
      /\ Waiting(t, c) = Len(p.unsent) + Len(p.unacked) /\ BlockOK(p)
  <2>1. c \in Clients
    BY DEF Good
  <2> QED BY <2>1, GoodFacts
<1>2. CASE u = t
  BY <1>1, <1>2 DEF Kept, Only
<1>3. CASE u # t
  <2>1. /\ p.unsent \in Seq(Kinds) /\ Len(p.unsent) \in Nat
        /\ p.unacked \in Seq(Kinds) /\ Len(p.unacked) \in Nat
    BY <1>1, BlockTypes
  <2>2. a \in Seq(Kinds) /\ Len(a) = Len(p.unacked) + Len(p.unsent)
    BY <2>1, ConcatProperties
  <2>3. p.unsent = <<>> => a = p.unacked
    BY <2>1, ConcatEmptySeq
  <2>4. <<>> \in Seq(Kinds) /\ Len(<<>>) = 0
    OBVIOUS
  <2>5. /\ IsTcp(u) /\ Kept(t, u) /\ u.segs = t.segs /\ u.accepts_pending = t.accepts_pending
        /\ u.pcb = [t.pcb EXCEPT ![c] = q]
    BY <1>1, <1>3 DEF Output, IsTcp, Kept
  <2>6. q \in Pcbs
    <3> DEFINE e == <<>>
    <3>1. a \in Seq(Kinds) /\ e \in Seq(Kinds)
      BY <2>2, <2>4
    <3> HIDE DEF a, e
    <3>2. [p EXCEPT !.unacked = a, !.unsent = e] \in Pcbs
      BY <1>1, <3>1 DEF Pcbs, Kinds
    <3> QED BY <3>2 DEF a, e
  <2>7. /\ q.state = p.state /\ q.unsent = <<>> /\ q.unacked = a /\ q.nrtx = p.nrtx
        /\ q.rcv_wnd = p.rcv_wnd /\ q.closepend = p.closepend /\ q.backlogpend = p.backlogpend
    <3> HIDE DEF a
    <3> QED BY <1>1 DEF Pcbs
  <2>8. Len(q.unsent) + Len(q.unacked) = Waiting(t, c)
    <3> DEFINE m == Len(p.unsent)
               n == Len(p.unacked)
    <3>1. m \in Nat /\ n \in Nat /\ Waiting(t, c) = m + n
      BY <1>1, <2>1
    <3>2. Len(q.unsent) = 0 /\ Len(q.unacked) = n + m
      BY <2>2, <2>4, <2>7
    <3> HIDE DEF m, n, q, p
    <3> QED BY <3>1, <3>2
  <2> HIDE DEF u, q, a
  <2>9. Only(t, u, c) /\ u.pcb[c] = q
    BY <1>1, <2>5, <2>6 DEF Only
  <2>10. Good(u)
    <3>1. BlockOK(q)
      BY <1>1, <2>7 DEF BlockOK
    <3> QED BY <2>5, <2>7, <2>8, <2>9, <3>1, GoodMove
  <2>11. Quiet(p) => Quiet(q)
    BY <2>3, <2>7 DEF Quiet
  <2> QED BY <2>5, <2>7, <2>9, <2>10, <2>11 DEF u
<1> QED BY <1>2, <1>3

\* A retransmission puts what is unacknowledged in front.
LEMMA RexmitFields ==
  ASSUME NEW t, IsTcp(t), t.pcb \in [Clients -> Pcbs], NEW c \in Clients
  PROVE  LET u == Rexmit(t, c) IN
         /\ IsTcp(u) /\ Kept(t, u)
         /\ u.segs = t.segs /\ u.accepts_pending = t.accepts_pending
         /\ u.pcb = [t.pcb EXCEPT ![c] =
              [t.pcb[c] EXCEPT !.unsent = t.pcb[c].unacked \o @, !.unacked = <<>>,
                               !.nrtx = IF @ < MaxRtx THEN @ + 1 ELSE @]]
  BY DEF Rexmit, IsTcp, Kept

\* A retransmission keeps the record good.
LEMMA RexmitGood ==
  ASSUME NEW t, Good(t), NEW c \in t.used
  PROVE  LET u == Rexmit(t, c) IN
         Good(u) /\ Kept(t, u) /\ Only(t, u, c) /\ u.pcb[c].state = t.pcb[c].state
<1> DEFINE u == Rexmit(t, c)
           p == t.pcb[c]
           a == p.unacked \o p.unsent
           r == IF p.nrtx < MaxRtx THEN p.nrtx + 1 ELSE p.nrtx
           q == [p EXCEPT !.unsent = a, !.unacked = <<>>, !.nrtx = r]
<1>1. /\ c \in Clients /\ IsTcp(t) /\ t.pcb \in [Clients -> Pcbs] /\ p \in Pcbs
      /\ Waiting(t, c) = Len(p.unsent) + Len(p.unacked) /\ BlockOK(p)
  <2>1. c \in Clients
    BY DEF Good
  <2> QED BY <2>1, GoodFacts
<1>2. /\ p.unsent \in Seq(Kinds) /\ Len(p.unsent) \in Nat
      /\ p.unacked \in Seq(Kinds) /\ Len(p.unacked) \in Nat
      /\ p.nrtx \in 0 .. MaxRtx
  BY <1>1, BlockTypes
<1>3. a \in Seq(Kinds) /\ Len(a) = Len(p.unacked) + Len(p.unsent)
  BY <1>2, ConcatProperties
<1>4. <<>> \in Seq(Kinds) /\ Len(<<>>) = 0
  OBVIOUS
<1>5. r \in 0 .. MaxRtx
  BY <1>2, ConstFacts
<1>6. /\ IsTcp(u) /\ Kept(t, u) /\ u.segs = t.segs /\ u.accepts_pending = t.accepts_pending
      /\ u.pcb = [t.pcb EXCEPT ![c] = q]
  BY <1>1, RexmitFields
<1>7. q \in Pcbs
  <2> DEFINE e == <<>>
  <2>1. a \in Seq(Kinds) /\ e \in Seq(Kinds) /\ r \in 0 .. MaxRtx
    BY <1>3, <1>4, <1>5
  <2> HIDE DEF a, e, r
  <2>2. [p EXCEPT !.unsent = a, !.unacked = e, !.nrtx = r] \in Pcbs
    BY <1>1, <2>1 DEF Pcbs, Kinds
  <2> QED BY <2>2 DEF a, e, r
<1>8. /\ q.state = p.state /\ q.unsent = a /\ q.unacked = <<>>
      /\ q.closepend = p.closepend /\ q.backlogpend = p.backlogpend
  <2> HIDE DEF a, r
  <2> QED BY <1>1 DEF Pcbs
<1>9. Len(q.unsent) + Len(q.unacked) = Waiting(t, c)
  <2> DEFINE m == Len(p.unsent)
             n == Len(p.unacked)
  <2>1. m \in Nat /\ n \in Nat /\ Waiting(t, c) = m + n
    BY <1>1, <1>2
  <2>2. Len(q.unacked) = 0 /\ Len(q.unsent) = n + m
    BY <1>3, <1>4, <1>8
  <2> HIDE DEF m, n, q, p
  <2> QED BY <2>1, <2>2
<1> HIDE DEF u, q, a, r
<1>10. Only(t, u, c) /\ u.pcb[c] = q
  BY <1>1, <1>6, <1>7 DEF Only
<1>11. Good(u)
  <2>1. BlockOK(q)
    BY <1>1, <1>8 DEF BlockOK
  <2> QED BY <1>6, <1>8, <1>9, <1>10, <2>1, GoodMove
<1> QED BY <1>6, <1>8, <1>10, <1>11 DEF u

\* tcp_backlog_accepted gives back one place, once.
LEMMA BacklogAcceptedFields ==
  ASSUME NEW t, IsTcp(t), t.pcb \in [Clients -> Pcbs], NEW c \in Clients
  PROVE  LET u == BacklogAccepted(t, c) IN
         /\ IsTcp(u) /\ Kept(t, u) /\ u.segs = t.segs
         /\ u.accepts_pending =
              IF t.pcb[c].backlogpend THEN t.accepts_pending - 1 ELSE t.accepts_pending
         /\ u.pcb \in [Clients -> Pcbs]
         /\ u.pcb = [t.pcb EXCEPT ![c] = [t.pcb[c] EXCEPT !.backlogpend = FALSE]]
<1> DEFINE u == BacklogAccepted(t, c)
           p == t.pcb[c]
           q == [p EXCEPT !.backlogpend = FALSE]
<1>1. p \in Pcbs /\ p.backlogpend \in BOOLEAN
  BY BlockTypes
<1>2. q \in Pcbs
  BY <1>1 DEF Pcbs
<1>3. CASE p.backlogpend
  <2>1. u.pcb = [t.pcb EXCEPT ![c] = q]
    BY <1>3 DEF BacklogAccepted, IsTcp
  <2> QED BY <1>2, <1>3, <2>1 DEF BacklogAccepted, IsTcp, Kept
<1>4. CASE ~p.backlogpend
  <2>1. u = t
    BY <1>4 DEF BacklogAccepted
  <2>2. q = p
    BY <1>1, <1>4 DEF Pcbs
  <2>3. t.pcb = [t.pcb EXCEPT ![c] = q]
    BY <2>2
  <2> QED BY <1>4, <2>1, <2>3 DEF Kept
<1> QED BY <1>3, <1>4

\* A block that has nothing waiting and is not in the backlog.
Emptied(p) == [p EXCEPT !.backlogpend = FALSE, !.unsent = <<>>, !.unacked = <<>>]

\* A block without its segments and its place in the backlog.
LEMMA EmptiedFacts ==
  ASSUME NEW p \in Pcbs
  PROVE  /\ Emptied(p) \in Pcbs
         /\ Emptied(p).unsent = <<>> /\ Emptied(p).unacked = <<>>
         /\ Emptied(p).backlogpend = FALSE /\ Emptied(p).state = p.state
         /\ Emptied(p).closepend = p.closepend /\ Emptied(p).nrtx = p.nrtx
         /\ Emptied(p).rcv_wnd = p.rcv_wnd
<1> DEFINE e == <<>>
<1>1. e \in Seq(Kinds)
  OBVIOUS
<1> HIDE DEF e
<1>2. [p EXCEPT !.backlogpend = FALSE, !.unsent = e, !.unacked = e] \in Pcbs
  BY <1>1 DEF Pcbs, Kinds
<1> USE DEF e
<1> QED BY <1>2 DEF Emptied, Pcbs

\* tcp_pcb_purge and the removal from the list.
LEMMA UnlinkFields ==
  ASSUME NEW t, IsTcp(t), t.pcb \in [Clients -> Pcbs], NEW c \in Clients
  PROVE  LET u == Unlink(t, c) IN
         /\ IsTcp(u) /\ u.pcb = [t.pcb EXCEPT ![c] = Emptied(t.pcb[c])]
         /\ u.used = t.used /\ u.active = t.active \ {c}
         /\ u.segs = t.segs - Waiting(t, c)
         /\ u.accepts_pending =
              IF t.pcb[c].backlogpend THEN t.accepts_pending - 1 ELSE t.accepts_pending
<1> DEFINE v == BacklogAccepted(t, c)
           p == t.pcb[c]
           q == [p EXCEPT !.backlogpend = FALSE]
           w == Purge(t, c)
           u == Unlink(t, c)
<1>1. /\ IsTcp(v) /\ Kept(t, v) /\ v.segs = t.segs
      /\ v.accepts_pending =
           IF p.backlogpend THEN t.accepts_pending - 1 ELSE t.accepts_pending
      /\ v.pcb \in [Clients -> Pcbs] /\ v.pcb = [t.pcb EXCEPT ![c] = q]
  BY BacklogAcceptedFields
<1>2. w = [v EXCEPT !.segs = @ - Waiting(t, c), !.pcb[c].unsent = <<>>, !.pcb[c].unacked = <<>>]
  BY DEF Purge
<1>3. u = [w EXCEPT !.active = @ \ {c}]
  BY DEF Unlink
<1> HIDE DEF u, v, w
<1>4. /\ IsTcp(w) /\ Kept(v, w) /\ w.segs = v.segs - Waiting(t, c)
      /\ w.accepts_pending = v.accepts_pending
      /\ w.pcb = [v.pcb EXCEPT ![c] = [v.pcb[c] EXCEPT !.unsent = <<>>, !.unacked = <<>>]]
  BY <1>1, <1>2 DEF IsTcp, Kept
<1>5. v.pcb[c] = q
  BY <1>1
<1>6. [q EXCEPT !.unsent = <<>>, !.unacked = <<>>] = Emptied(p)
  BY DEF Emptied
<1>7. w.pcb = [t.pcb EXCEPT ![c] = Emptied(p)]
  <2> HIDE DEF q
  <2>1. w.pcb = [v.pcb EXCEPT ![c] = Emptied(p)]
    BY <1>4, <1>5, <1>6
  <2> QED BY <1>1, <2>1
<1>8. /\ IsTcp(u) /\ u.pcb = w.pcb /\ u.used = w.used /\ u.active = w.active \ {c}
      /\ u.segs = w.segs /\ u.accepts_pending = w.accepts_pending
  BY <1>3, <1>4 DEF IsTcp
<1> QED BY <1>1, <1>4, <1>7, <1>8 DEF u, Kept

\* A block that is unlinked but in use keeps the record good.
LEMMA UnlinkGood ==
  ASSUME NEW t, Good(t), NEW c \in t.used, t.pcb[c].state # "SYN_RCVD"
  PROVE  LET u == Unlink(t, c) IN
         /\ Good(u) /\ Only(t, u, c) /\ u.used = t.used /\ u.active = t.active \ {c}
         /\ u.pcb[c].state = t.pcb[c].state
<1> DEFINE u == Unlink(t, c)
           q == Emptied(t.pcb[c])
<1>1. /\ c \in Clients /\ IsTcp(t) /\ t.pcb \in [Clients -> Pcbs] /\ t.pcb[c] \in Pcbs
      /\ Waiting(t, c) \in Nat /\ t.segs \in Nat /\ BlockOK(t.pcb[c])
      /\ t.segs <= SegPool /\ t.active \subseteq t.used
  <2>1. c \in Clients
    BY DEF Good
  <2> QED BY <2>1, GoodFacts DEF Good
<1>2. /\ q \in Pcbs /\ q.unsent = <<>> /\ q.unacked = <<>> /\ q.backlogpend = FALSE
      /\ q.state = t.pcb[c].state /\ q.closepend = t.pcb[c].closepend
  BY <1>1, EmptiedFacts
<1>3. t.pcb[c].backlogpend = FALSE
  <2>1. t.pcb[c].backlogpend \in BOOLEAN
    BY <1>1, BlockTypes
  <2> QED BY <1>1, <2>1 DEF BlockOK
<1>4. /\ IsTcp(u) /\ u.pcb = [t.pcb EXCEPT ![c] = q]
      /\ u.used = t.used /\ u.active = t.active \ {c}
      /\ u.segs = t.segs - Waiting(t, c) /\ u.accepts_pending = t.accepts_pending
  BY <1>1, <1>3, UnlinkFields
<1> HIDE DEF u, q
<1>5. Only(t, u, c) /\ u.pcb[c] = q
  BY <1>1, <1>2, <1>4 DEF Only
<1>6. BlockOK(u.pcb[c])
  BY <1>1, <1>2, <1>5 DEF BlockOK
<1>7. u.segs = t.segs - Waiting(t, c) + Len(u.pcb[c].unsent) + Len(u.pcb[c].unacked)
      /\ u.segs <= SegPool
  <2>1. Len(u.pcb[c].unsent) = 0 /\ Len(u.pcb[c].unacked) = 0
    BY <1>2, <1>5
  <2>2. u.segs = t.segs - Waiting(t, c) + 0 + 0
    BY <1>1, <1>4
  <2>3. u.segs <= SegPool
    BY <1>1, <1>4, ConstFacts
  <2> QED BY <2>1, <2>2, <2>3
<1>8. u.active \subseteq t.used
  BY <1>1, <1>4
<1>9. Good(u)
  BY <1>2, <1>4, <1>5, <1>6, <1>7, <1>8, GoodOnly
<1> QED BY <1>2, <1>4, <1>5, <1>9 DEF u

\* A block that is removed is free, and the record good.
LEMMA RemoveGood ==
  ASSUME NEW t, Good(t), NEW c \in t.used
  PROVE  LET u == Remove(t, c) IN
         /\ Good(u) /\ Only(t, u, c) /\ u.used = t.used \ {c} /\ u.active = t.active \ {c}
<1> DEFINE v == Unlink(t, c)
           u == Remove(t, c)
<1>1. /\ c \in Clients /\ IsTcp(t) /\ t.pcb \in [Clients -> Pcbs] /\ t.pcb[c] \in Pcbs
      /\ BlockOK(t.pcb[c])
  <2>1. c \in Clients
    BY DEF Good
  <2> QED BY <2>1, GoodFacts DEF Good
<1>2. /\ IsTcp(v) /\ v.pcb = [t.pcb EXCEPT ![c] = Emptied(t.pcb[c])]
      /\ v.used = t.used /\ v.active = t.active \ {c}
      /\ v.segs = t.segs - Waiting(t, c)
      /\ v.accepts_pending =
           IF t.pcb[c].backlogpend THEN t.accepts_pending - 1 ELSE t.accepts_pending
  BY <1>1, UnlinkFields
<1>3. u = [v EXCEPT !.used = @ \ {c}, !.pcb[c] = Blank]
  BY DEF Remove
<1> HIDE DEF u, v
<1>4. /\ IsTcp(u) /\ u.pcb = [v.pcb EXCEPT ![c] = Blank] /\ u.used = v.used \ {c}
      /\ u.active = v.active /\ u.segs = v.segs /\ u.accepts_pending = v.accepts_pending
  BY <1>2, <1>3 DEF IsTcp
<1>5. u.pcb = [t.pcb EXCEPT ![c] = Blank]
  BY <1>1, <1>2, <1>4
<1>6. u.accepts_pending = IF t.pcb[c].state = "SYN_RCVD"
                          THEN t.accepts_pending - 1 ELSE t.accepts_pending
  BY <1>1, <1>2, <1>4 DEF BlockOK
<1>7. Good(u)
  BY <1>2, <1>4, <1>5, <1>6, GoodFree
<1>8. Only(t, u, c)
  BY <1>1, <1>4, <1>5, BlankFacts DEF Only
<1> QED BY <1>2, <1>4, <1>7, <1>8 DEF u

\* The mark for a close that had no memory keeps it good.
LEMMA CloseLaterGood ==
  ASSUME NEW t, Good(t), NEW c \in t.used, NEW x \in BOOLEAN,
         x => t.pcb[c].state = "CLOSE_WAIT"
  PROVE  LET u == [t EXCEPT !.pcb[c].closepend = x] IN
         /\ Good(u) /\ Kept(t, u) /\ Only(t, u, c) /\ u.segs = t.segs
         /\ u.pcb[c].state = t.pcb[c].state /\ u.pcb[c].closepend = x
<1> DEFINE u == [t EXCEPT !.pcb[c].closepend = x]
           p == t.pcb[c]
           q == [p EXCEPT !.closepend = x]
<1>1. /\ c \in Clients /\ IsTcp(t) /\ t.pcb \in [Clients -> Pcbs] /\ p \in Pcbs
      /\ Waiting(t, c) = Len(p.unsent) + Len(p.unacked) /\ BlockOK(p)
  <2>1. c \in Clients
    BY DEF Good
  <2> QED BY <2>1, GoodFacts
<1>2. /\ IsTcp(u) /\ Kept(t, u) /\ u.segs = t.segs /\ u.accepts_pending = t.accepts_pending
      /\ u.pcb = [t.pcb EXCEPT ![c] = q]
  BY <1>1 DEF IsTcp, Kept
<1>3. /\ q \in Pcbs /\ q.state = p.state /\ q.unsent = p.unsent /\ q.unacked = p.unacked
      /\ q.backlogpend = p.backlogpend /\ q.closepend = x
  BY <1>1 DEF Pcbs
<1> HIDE DEF u, q
<1>4. Only(t, u, c) /\ u.pcb[c] = q
  BY <1>1, <1>2, <1>3 DEF Only
<1>5. BlockOK(u.pcb[c])
  BY <1>1, <1>3, <1>4 DEF BlockOK
<1>6. Len(u.pcb[c].unsent) + Len(u.pcb[c].unacked) = Waiting(t, c)
  BY <1>1, <1>3, <1>4
<1>7. Good(u)
  BY <1>2, <1>3, <1>4, <1>5, <1>6, GoodMove
<1> QED BY <1>2, <1>3, <1>4, <1>7 DEF u

\* A block passes to another state, none of them that of the handshake.
LEMMA StateGood ==
  ASSUME NEW t, Good(t), NEW c \in t.used, NEW st \in States,
         st # "SYN_RCVD", t.pcb[c].state # "SYN_RCVD", t.pcb[c].closepend = FALSE
  PROVE  LET u == [t EXCEPT !.pcb[c].state = st] IN
         /\ Good(u) /\ Kept(t, u) /\ Only(t, u, c) /\ u.pcb[c].state = st
<1> DEFINE u == [t EXCEPT !.pcb[c].state = st]
           p == t.pcb[c]
           q == [p EXCEPT !.state = st]
<1>1. /\ c \in Clients /\ IsTcp(t) /\ t.pcb \in [Clients -> Pcbs] /\ p \in Pcbs
      /\ Waiting(t, c) = Len(p.unsent) + Len(p.unacked) /\ BlockOK(p)
  <2>1. c \in Clients
    BY DEF Good
  <2> QED BY <2>1, GoodFacts
<1>2. /\ IsTcp(u) /\ Kept(t, u) /\ u.segs = t.segs /\ u.accepts_pending = t.accepts_pending
      /\ u.pcb = [t.pcb EXCEPT ![c] = q]
  BY <1>1 DEF IsTcp, Kept
<1>3. /\ q \in Pcbs /\ q.state = st /\ q.unsent = p.unsent /\ q.unacked = p.unacked
      /\ q.backlogpend = p.backlogpend /\ q.closepend = p.closepend
  BY <1>1 DEF Pcbs
<1> HIDE DEF u, q
<1>4. Only(t, u, c) /\ u.pcb[c] = q
  BY <1>1, <1>2, <1>3 DEF Only
<1>5. BlockOK(u.pcb[c])
  BY <1>1, <1>3, <1>4 DEF BlockOK
<1>6. Len(u.pcb[c].unsent) + Len(u.pcb[c].unacked) = Waiting(t, c)
  BY <1>1, <1>3, <1>4
<1>7. Good(u)
  BY <1>2, <1>3, <1>4, <1>5, <1>6, GoodMove
<1> QED BY <1>2, <1>3, <1>4, <1>7 DEF u

\* Two changes of one block are one.
LEMMA OnlyOnce ==
  ASSUME NEW t, NEW u, NEW v, NEW c, Only(t, u, c), Only(u, v, c)
  PROVE  Only(t, v, c)
  BY DEF Only

\* The FIN of the client's has come, and the block is closed with ours.
LEMMA CloseFinGood ==
  ASSUME NEW t, Good(t), NEW c \in t.used, t.pcb[c].state = "CLOSE_WAIT", NEW mem, NEW ok
  PROVE  LET u == CloseFin(t, c, mem, ok) IN
         /\ Good(u) /\ Kept(t, u) /\ Only(t, u, c)
         /\ u.pcb[c].state \in {"CLOSE_WAIT", "LAST_ACK"}
<1> DEFINE t1 == [t EXCEPT !.pcb[c].closepend = FALSE]
           t2 == CloseLater(t1, c)
           t3 == Enqueue(t1, c, "FIN")
           t4 == [t3 EXCEPT !.pcb[c].state = IF @ = "CLOSE_WAIT" THEN "LAST_ACK" ELSE "FIN_WAIT_1"]
           t5 == Output(t4, c, ok)
<1>1. /\ Good(t1) /\ Kept(t, t1) /\ Only(t, t1, c) /\ t1.segs = t.segs
      /\ t1.pcb[c].state = "CLOSE_WAIT" /\ t1.pcb[c].closepend = FALSE
  BY CloseLaterGood
<1>2. CloseFin(t, c, mem, ok) = IF ~CanQueue(t, mem) THEN t2 ELSE t5
  BY DEF CloseFin
<1>3. t2 = [t1 EXCEPT !.pcb[c].closepend = TRUE]
  BY DEF CloseLater
<1> HIDE DEF t1
<1>4. c \in t1.used /\ c \in Clients
  BY <1>1 DEF Kept, Good
<1>5. CASE ~CanQueue(t, mem)
  <2> HIDE DEF t2
  <2>1. Good(t2) /\ Kept(t1, t2) /\ Only(t1, t2, c) /\ t2.pcb[c].state = "CLOSE_WAIT"
    BY <1>1, <1>3, <1>4, CloseLaterGood
  <2>2. Kept(t, t2) /\ Only(t, t2, c)
    BY <1>1, <2>1, OnlyOnce DEF Kept
  <2> QED BY <1>2, <1>5, <2>1, <2>2
<1>6. CASE CanQueue(t, mem)
  <2>1. t1.segs < SegPool /\ "FIN" \in Kinds
    BY <1>1, <1>6 DEF CanQueue, Kinds
  <2>2. /\ Good(t3) /\ Kept(t1, t3) /\ Only(t1, t3, c)
        /\ t3.pcb[c] = [t1.pcb[c] EXCEPT !.unsent = Append(@, "FIN")]
    BY <1>1, <1>4, <2>1, EnqueueGood
  <2>3. t3.pcb[c].state = "CLOSE_WAIT" /\ t3.pcb[c].closepend = FALSE
    <3>1. t1.pcb[c] \in Pcbs
      BY <1>1, <1>4 DEF Good
    <3> QED BY <1>1, <2>2, <3>1 DEF Pcbs
  <2> HIDE DEF t3
  <2>4. t4 = [t3 EXCEPT !.pcb[c].state = "LAST_ACK"]
    BY <2>3
  <2> HIDE DEF t4
  <2>5. c \in t3.used /\ "LAST_ACK" \in States
    BY <1>4, <2>2 DEF Kept, States
  <2>6. Good(t4) /\ Kept(t3, t4) /\ Only(t3, t4, c) /\ t4.pcb[c].state = "LAST_ACK"
    <3> DEFINE st == "LAST_ACK"
    <3>1. /\ st \in States /\ st # "SYN_RCVD" /\ t3.pcb[c].state # "SYN_RCVD"
          /\ t3.pcb[c].closepend = FALSE /\ t4 = [t3 EXCEPT !.pcb[c].state = st]
      BY <2>3, <2>4, <2>5
    <3> HIDE DEF st
    <3>2. Good(t3) /\ c \in t3.used
      BY <2>2, <2>5
    <3> DEFINE v == [t3 EXCEPT !.pcb[c].state = st]
    <3>3. Good(v) /\ Kept(t3, v) /\ Only(t3, v, c) /\ v.pcb[c].state = st
      BY <3>1, <3>2, StateGood
    <3> HIDE DEF v
    <3>4. t4 = v
      BY <3>1 DEF v
    <3>5. Good(t4) /\ Kept(t3, t4) /\ Only(t3, t4, c) /\ t4.pcb[c].state = st
      BY <3>3, <3>4
    <3> QED BY <3>5 DEF st
  <2>7. c \in t4.used
    BY <2>5, <2>6 DEF Kept
  <2>8. Good(t5) /\ Kept(t4, t5) /\ Only(t4, t5, c) /\ t5.pcb[c].state = "LAST_ACK"
    BY <2>6, <2>7, OutputGood
  <2> HIDE DEF t5
  <2>9. Kept(t, t5)
    BY <1>1, <2>2, <2>6, <2>8 DEF Kept
  <2>10. Only(t, t5, c)
    <3>1. Only(t, t3, c)
      BY <1>1, <2>2, OnlyOnce
    <3>2. Only(t, t4, c)
      BY <2>6, <3>1, OnlyOnce
    <3> QED BY <2>8, <3>2, OnlyOnce
  <2> QED BY <1>2, <1>6, <2>8, <2>9, <2>10
<1> QED BY <1>5, <1>6

\* A SYN takes a free block and a place in the backlog.
LEMMA SynRcvdGood ==
  ASSUME NEW t, Good(t), NEW c \in Clients, c \notin t.used, PcbFree(t)
  PROVE  LET u == SynRcvd(t, c) IN
         /\ Good(u) /\ Only(t, u, c)
         /\ u.used = t.used \cup {c} /\ u.active = t.active \cup {c}
         /\ u.pcb[c].state = "SYN_RCVD"
<1> DEFINE u == SynRcvd(t, c)
           q == [Blank EXCEPT !.state = "SYN_RCVD", !.backlogpend = TRUE]
<1>1. IsTcp(t) /\ t.pcb \in [Clients -> Pcbs]
  BY DEF Good
<1>2. /\ IsTcp(u) /\ u.pcb = [t.pcb EXCEPT ![c] = q]
      /\ u.used = t.used \cup {c} /\ u.active = t.active \cup {c}
      /\ u.segs = t.segs /\ u.accepts_pending = t.accepts_pending + 1
  BY <1>1 DEF SynRcvd, IsTcp
<1>3. /\ q \in Pcbs /\ q.state = "SYN_RCVD" /\ q.unsent = <<>> /\ q.unacked = <<>>
      /\ q.backlogpend = TRUE /\ q.closepend = FALSE
  BY BlankFacts DEF Pcbs, States
<1> HIDE DEF u, q
<1>4. BlockOK(q)
  BY <1>3 DEF BlockOK
<1>5. Cardinality(t.used) < MaxPcbs
  BY DEF PcbFree
<1>6. Good(u)
  BY <1>2, <1>3, <1>4, <1>5, GoodTake
<1>7. Only(t, u, c) /\ u.pcb[c] = q
  BY <1>1, <1>2, <1>3 DEF Only
<1> QED BY <1>2, <1>3, <1>6, <1>7 DEF u

-----------------------------------------------------------------------------
(* The loops over tcp_active_pcbs.                                         *)

\* What a loop does with one block, by the loop's name.
Step(op, c, t) ==
  IF op.loop = "close" THEN CloseFin(t, c, c \in op.got, op.ok)
  ELSE IF op.loop = "remove" THEN Remove(t, c)
  ELSE IF op.loop = "rexmit" THEN Rexmit(t, c)
  ELSE Output(t, c, op.ok)

IsLoop(g, S, base, op) ==
  g = [s \in SUBSET S |-> IF s = {} THEN base ELSE Step(op, Pick(s), g[s \ {Pick(s)}])]

\* There is a function of what a loop has done to all subsets.
LEMMA LoopExists ==
  ASSUME NEW S, IsFiniteSet(S), NEW base, NEW op
  PROVE  \E g : IsLoop(g, S, base, op)
<1> DEFINE L(k) == {s \in SUBSET S : Cardinality(s) <= k}
           Upto(k, g) ==
             g = [s \in L(k) |-> IF s = {} THEN base ELSE Step(op, Pick(s), g[s \ {Pick(s)}])]
           B == {k \in Nat : ~\E g : Upto(k, g)}
<1>1. B = {}
  <2> SUFFICES ASSUME B # {} PROVE FALSE
    OBVIOUS
  <2>1. PICK k \in B : \A j \in B : k <= j
    BY LeastElement
  <2>2. CASE k = 0
    <3>1. \A s \in L(0) : s = {}
      <4> SUFFICES ASSUME NEW s \in L(0), s # {} PROVE FALSE
        OBVIOUS
      <4>1. Cardinality(s) \in Nat /\ Cardinality(s) >= 1
        BY PickFacts
      <4> QED BY <4>1
    <3>2. Upto(0, [s \in L(0) |-> base])
      BY <3>1
    <3> QED BY <2>1, <2>2, <3>2
  <2>3. CASE k # 0
    <3>1. k \in Nat /\ k - 1 \in Nat /\ ~(k <= k - 1)
      BY <2>1, <2>3
    <3>2. PICK g : Upto(k - 1, g)
      BY <2>1, <3>1
    <3> DEFINE f == [s \in L(k) |-> IF s = {} THEN base ELSE Step(op, Pick(s), g[s \ {Pick(s)}])]
    <3>3. \A s \in L(k - 1) : s \in L(k) /\ f[s] = g[s]
      <4>1. \A s \in L(k - 1) : s \in L(k)
        <5>1. \A s \in SUBSET S : Cardinality(s) \in Nat
          BY FS_Subset, FS_CardinalityType
        <5> QED BY <3>1, <5>1
      <4>2. \A s \in L(k - 1) : g[s] = IF s = {} THEN base ELSE Step(op, Pick(s), g[s \ {Pick(s)}])
        BY <3>2
      <4> QED BY <4>1, <4>2
    <3>4. \A s \in L(k) : s # {} => f[s \ {Pick(s)}] = g[s \ {Pick(s)}]
      <4> SUFFICES ASSUME NEW s \in L(k), s # {} PROVE s \ {Pick(s)} \in L(k - 1)
        BY <3>3
      <4>1. s \ {Pick(s)} \in SUBSET S /\ Cardinality(s \ {Pick(s)}) = Cardinality(s) - 1
            /\ Cardinality(s) \in Nat
        BY PickFacts
      <4> QED BY <3>1, <4>1
    <3>5. f = [s \in L(k) |-> IF s = {} THEN base ELSE Step(op, Pick(s), f[s \ {Pick(s)}])]
      BY <3>4
    <3> HIDE DEF f
    <3>6. Upto(k, f)
      BY <3>5
    <3> QED BY <2>1, <3>6
  <2> QED BY <2>2, <2>3
<1>2. Cardinality(S) \in Nat /\ L(Cardinality(S)) = SUBSET S
  BY FS_CardinalityType, FS_Subset
<1>3. \E g : Upto(Cardinality(S), g)
  BY <1>1, <1>2
<1> QED BY <1>2, <1>3 DEF IsLoop

\* The loop's result, after its elements one by one.
IsRun(g, S, base, op) ==
  /\ g[{}] = base
  /\ \A s \in SUBSET S : s # {} => g[s] = Step(op, Pick(s), g[s \ {Pick(s)}])

\* A loop, by its rounds.
LEMMA LoopRuns ==
  ASSUME NEW g, NEW S, NEW base, NEW op, IsLoop(g, S, base, op)
  PROVE  IsRun(g, S, base, op)
<1>1. {} \in SUBSET S
  OBVIOUS
<1> QED BY <1>1 DEF IsLoop, IsRun

CloseOp(got, ok) == [loop |-> "close", got |-> got, ok |-> ok]
RemoveOp == [loop |-> "remove"]
RexmitOp == [loop |-> "rexmit"]
OutputOp(ok) == [loop |-> "output", ok |-> ok]

\* The blocks that still have to be closed.
Pending(t) == {c \in t.active : t.pcb[c].closepend}

\* tcp_handle_closepend is a loop over the marked blocks.
LEMMA CloseLoop ==
  ASSUME NEW t, IsFiniteSet(Pending(t)), NEW got, NEW ok
  PROVE  \E g : /\ IsRun(g, Pending(t), t, CloseOp(got, ok))
                /\ HandleClosepend(t, got, ok) = g[Pending(t)]
<1> DEFINE S == Pending(t)
           G(g) == g = [s \in SUBSET S |->
                          IF s = {} THEN t
                          ELSE CloseFin(g[s \ {Pick(s)}], Pick(s), Pick(s) \in got, ok)]
           op == CloseOp(got, ok)
           h == CHOOSE h : G(h)
<1>1. \A c, u : Step(op, c, u) = CloseFin(u, c, c \in got, ok)
  BY DEF Step, CloseOp
<1> HIDE DEF op
<1>2. PICK g : IsLoop(g, S, t, op)
  BY LoopExists
<1>3. G(g)
  BY <1>1, <1>2 DEF IsLoop
<1>4. G(h)
  BY <1>3
<1>5. HandleClosepend(t, got, ok) = h[S]
  BY DEF HandleClosepend, Pending, FoldSet, MapThenFoldSet, Pick
<1> HIDE DEF h
<1>6. IsLoop(h, S, t, op)
  BY <1>1, <1>4 DEF IsLoop
<1> QED BY <1>5, <1>6, LoopRuns DEF op

\* So is the removal of several blocks,
LEMMA RemoveLoop ==
  ASSUME NEW S, IsFiniteSet(S), NEW t
  PROVE  \E g : /\ IsRun(g, S, t, RemoveOp)
                /\ FoldSet(LAMBDA c, u : Remove(u, c), t, S) = g[S]
<1> DEFINE G(g) == g = [s \in SUBSET S |->
                          IF s = {} THEN t ELSE Remove(g[s \ {Pick(s)}], Pick(s))]
           h == CHOOSE h : G(h)
<1>1. \A c, u : Step(RemoveOp, c, u) = Remove(u, c)
  BY DEF Step, RemoveOp
<1>2. PICK g : IsLoop(g, S, t, RemoveOp)
  BY LoopExists
<1>3. G(g)
  BY <1>1, <1>2 DEF IsLoop
<1>4. G(h)
  BY <1>3
<1>5. FoldSet(LAMBDA c, u : Remove(u, c), t, S) = h[S]
  BY DEF FoldSet, MapThenFoldSet, Pick
<1> HIDE DEF h
<1>6. IsLoop(h, S, t, RemoveOp)
  BY <1>1, <1>4 DEF IsLoop
<1> QED BY <1>5, <1>6, LoopRuns

\* the retransmission of several,
LEMMA RexmitLoop ==
  ASSUME NEW S, IsFiniteSet(S), NEW t
  PROVE  \E g : /\ IsRun(g, S, t, RexmitOp)
                /\ FoldSet(LAMBDA c, u : Rexmit(u, c), t, S) = g[S]
<1> DEFINE G(g) == g = [s \in SUBSET S |->
                          IF s = {} THEN t ELSE Rexmit(g[s \ {Pick(s)}], Pick(s))]
           h == CHOOSE h : G(h)
<1>1. \A c, u : Step(RexmitOp, c, u) = Rexmit(u, c)
  BY DEF Step, RexmitOp
<1>2. PICK g : IsLoop(g, S, t, RexmitOp)
  BY LoopExists
<1>3. G(g)
  BY <1>1, <1>2 DEF IsLoop
<1>4. G(h)
  BY <1>3
<1>5. FoldSet(LAMBDA c, u : Rexmit(u, c), t, S) = h[S]
  BY DEF FoldSet, MapThenFoldSet, Pick
<1> HIDE DEF h
<1>6. IsLoop(h, S, t, RexmitOp)
  BY <1>1, <1>4 DEF IsLoop
<1> QED BY <1>5, <1>6, LoopRuns

OutputEach(t, S, ok) == FoldSet(LAMBDA c, u : Output(u, c, ok), t, S)

\* and their output.
LEMMA OutputLoop ==
  ASSUME NEW S, IsFiniteSet(S), NEW t, NEW ok
  PROVE  \E g : /\ IsRun(g, S, t, OutputOp(ok))
                /\ OutputEach(t, S, ok) = g[S]
<1> DEFINE G(g) == g = [s \in SUBSET S |->
                          IF s = {} THEN t ELSE Output(g[s \ {Pick(s)}], Pick(s), ok)]
           op == OutputOp(ok)
           h == CHOOSE h : G(h)
<1>1. \A c, u : Step(op, c, u) = Output(u, c, ok)
  BY DEF Step, OutputOp
<1> HIDE DEF op
<1>2. PICK g : IsLoop(g, S, t, op)
  BY LoopExists
<1>3. G(g)
  BY <1>1, <1>2 DEF IsLoop
<1>4. G(h)
  BY <1>3
<1>5. OutputEach(t, S, ok) = h[S]
  BY DEF OutputEach, FoldSet, MapThenFoldSet, Pick
<1> HIDE DEF h
<1>6. IsLoop(h, S, t, op)
  BY <1>1, <1>4 DEF IsLoop
<1> QED BY <1>5, <1>6, LoopRuns DEF op

\* What holds of the empty set and of a set when it holds without Pick's
\* element holds of every subset: no set is the first it fails for.
LEMMA NoFirst ==
  ASSUME NEW S, IsFiniteSet(S), NEW B, B \subseteq SUBSET S, {} \notin B,
         \A s \in B : s \ {Pick(s)} \in B
  PROVE  B = {}
<1> SUFFICES ASSUME B # {} PROVE FALSE
  OBVIOUS
<1>1. PICK s \in B : \A c \in s : s \ {c} \notin B
  BY SmallestSet
<1>2. s # {} /\ s \in SUBSET S
  BY <1>1
<1>3. Pick(s) \in s
  BY <1>2, PickFacts
<1> QED BY <1>1, <1>3

\* The blocks of s have been closed, or not for want of memory.
Closed(t, u, s) ==
  /\ Good(u) /\ Kept(t, u)
  /\ \A c \in Clients : c \notin s => u.pcb[c] = t.pcb[c]
  /\ \A c \in s : u.pcb[c].state \in {"CLOSE_WAIT", "LAST_ACK"}

\* tcp_handle_closepend closes marked blocks alone.
LEMMA HandleClosependGood ==
  ASSUME NEW t, Good(t), NEW got, NEW ok
  PROVE  LET u == HandleClosepend(t, got, ok) IN
         /\ Good(u) /\ Kept(t, u)
         /\ \A c \in Clients : t.pcb[c].state # "CLOSE_WAIT" => u.pcb[c] = t.pcb[c]
         /\ \A c \in Clients : t.pcb[c].state = "CLOSE_WAIT"
                                => u.pcb[c].state \in {"CLOSE_WAIT", "LAST_ACK"}
<1> DEFINE S == Pending(t)
           op == CloseOp(got, ok)
<1>1. t.used \subseteq Clients /\ t.active \subseteq t.used /\ IsFiniteSet(t.used)
  BY DEF Good
<1>2. S \subseteq t.used /\ IsFiniteSet(S)
  <2>1. S \in SUBSET t.used
    BY <1>1 DEF Pending
  <2> QED BY <1>1, <2>1, FS_Subset
<1>3. \A c \in S : t.pcb[c].state = "CLOSE_WAIT"
  BY <1>1 DEF Good, BlockOK, Pending
<1>4. PICK g : IsRun(g, S, t, op) /\ HandleClosepend(t, got, ok) = g[S]
  BY <1>2, CloseLoop
<1>5. HandleClosepend(t, got, ok) = g[S]
  BY <1>4
<1>6. \A c, u : Step(op, c, u) = CloseFin(u, c, c \in got, ok)
  BY DEF Step, CloseOp
<1> DEFINE B == {s \in SUBSET S : ~Closed(t, g[s], s)}
<1> HIDE DEF op, S
<1>7. {} \notin B
  BY <1>4 DEF IsRun, Closed, Kept
<1>8. ASSUME NEW s \in SUBSET S, s # {}, Closed(t, g[s \ {Pick(s)}], s \ {Pick(s)})
      PROVE  Closed(t, g[s], s)
  <2> DEFINE x == Pick(s)
             v == g[s \ {x}]
             w == CloseFin(v, x, x \in got, ok)
  <2>1. x \in s /\ x \in S /\ x \in t.used /\ x \in Clients
    BY <1>1, <1>2, <1>8, PickFacts
  <2>2. g[s] = w
    BY <1>4, <1>6, <1>8 DEF IsRun
  <2>3. Good(v) /\ Kept(t, v) /\ v.pcb[x] = t.pcb[x]
        /\ (\A c \in Clients : c \notin s \ {x} => v.pcb[c] = t.pcb[c])
        /\ \A c \in s \ {x} : v.pcb[c].state \in {"CLOSE_WAIT", "LAST_ACK"}
    BY <1>8, <2>1 DEF Closed
  <2> HIDE DEF x, v
  <2>4. x \in v.used /\ v.pcb[x].state = "CLOSE_WAIT"
    BY <1>3, <2>1, <2>3 DEF Kept
  <2>5. Good(w) /\ Kept(v, w) /\ Only(v, w, x) /\ w.pcb[x].state \in {"CLOSE_WAIT", "LAST_ACK"}
    BY <2>3, <2>4, CloseFinGood
  <2> HIDE DEF w
  <2>6. Kept(t, w)
    BY <2>3, <2>5 DEF Kept
  <2>7. \A c \in Clients : c # x => w.pcb[c] = v.pcb[c]
    BY <2>5 DEF Only
  <2>8. \A c \in s : w.pcb[c].state \in {"CLOSE_WAIT", "LAST_ACK"}
    <3>1. s \subseteq Clients
      BY <1>1, <1>2
    <3> QED BY <2>3, <2>5, <2>7, <3>1
  <2>9. \A c \in Clients : c \notin s => w.pcb[c] = t.pcb[c]
    BY <2>1, <2>3, <2>7
  <2> QED BY <2>2, <2>5, <2>6, <2>8, <2>9 DEF Closed
<1>9. B = {}
  <2>1. \A s \in B : s \ {Pick(s)} \in B
    BY <1>7, <1>8
  <2> QED BY <1>2, <1>7, <2>1, NoFirst
<1>10. Closed(t, g[S], S)
  BY <1>9
<1>11. \A c \in Clients : t.pcb[c].state # "CLOSE_WAIT" => c \notin S
  BY <1>3
<1>12. ASSUME NEW c \in Clients, t.pcb[c].state = "CLOSE_WAIT"
       PROVE  g[S].pcb[c].state \in {"CLOSE_WAIT", "LAST_ACK"}
  BY <1>10, <1>12 DEF Closed
<1> QED BY <1>5, <1>10, <1>11, <1>12 DEF Closed

\* The blocks of s have been freed.
Removed(t, u, s) ==
  /\ Good(u) /\ u.used = t.used \ s /\ u.active = t.active \ s
  /\ \A c \in Clients : c \notin s => u.pcb[c] = t.pcb[c]

\* The removal of several blocks, put together.
LEMMA RemoveAll ==
  ASSUME NEW t, Good(t), NEW S, S \subseteq t.used
  PROVE  Removed(t, FoldSet(LAMBDA c, u : Remove(u, c), t, S), S)
<1>1. t.used \subseteq Clients /\ IsFiniteSet(t.used) /\ IsFiniteSet(S)
  BY FS_Subset DEF Good
<1>2. PICK g : IsRun(g, S, t, RemoveOp) /\ FoldSet(LAMBDA c, u : Remove(u, c), t, S) = g[S]
  BY <1>1, RemoveLoop
<1>3. \A c, u : Step(RemoveOp, c, u) = Remove(u, c)
  BY DEF Step, RemoveOp
<1> DEFINE B == {s \in SUBSET S : ~Removed(t, g[s], s)}
<1>4. {} \notin B
  BY <1>2 DEF IsRun, Removed
<1>5. ASSUME NEW s \in SUBSET S, s # {}, Removed(t, g[s \ {Pick(s)}], s \ {Pick(s)})
      PROVE  Removed(t, g[s], s)
  <2> DEFINE x == Pick(s)
             v == g[s \ {x}]
             w == Remove(v, x)
  <2>1. x \in s /\ x \in t.used
    BY <1>1, <1>5, PickFacts
  <2>2. g[s] = w
    BY <1>2, <1>3, <1>5 DEF IsRun
  <2>3. /\ Good(v) /\ v.used = t.used \ (s \ {x}) /\ v.active = t.active \ (s \ {x})
        /\ \A c \in Clients : c \notin s \ {x} => v.pcb[c] = t.pcb[c]
    BY <1>5 DEF Removed
  <2> HIDE DEF x, v
  <2>4. x \in v.used
    BY <2>1, <2>3
  <2>5. /\ Good(w) /\ Only(v, w, x) /\ w.used = v.used \ {x} /\ w.active = v.active \ {x}
    BY <2>3, <2>4, RemoveGood
  <2> HIDE DEF w
  <2>6. w.used = t.used \ s /\ w.active = t.active \ s
    BY <2>1, <2>3, <2>5
  <2>7. \A c \in Clients : c \notin s => w.pcb[c] = t.pcb[c]
    BY <2>1, <2>3, <2>5 DEF Only
  <2> QED BY <2>2, <2>5, <2>6, <2>7 DEF Removed
<1>6. B = {}
  <2>1. \A s \in B : s \ {Pick(s)} \in B
    BY <1>4, <1>5
  <2> QED BY <1>1, <1>4, <2>1, NoFirst
<1> QED BY <1>2, <1>6

\* The blocks of s are in the state they were in.
Repeated(t, u, s) ==
  /\ Good(u) /\ Kept(t, u)
  /\ \A c \in Clients : c \notin s => u.pcb[c] = t.pcb[c]
  /\ \A c \in s : u.pcb[c].state = t.pcb[c].state

\* The retransmission of several, put together.
LEMMA RexmitAll ==
  ASSUME NEW t, Good(t), NEW S, S \subseteq t.used
  PROVE  Repeated(t, FoldSet(LAMBDA c, u : Rexmit(u, c), t, S), S)
<1>1. t.used \subseteq Clients /\ IsFiniteSet(t.used) /\ IsFiniteSet(S)
  BY FS_Subset DEF Good
<1>2. PICK g : IsRun(g, S, t, RexmitOp) /\ FoldSet(LAMBDA c, u : Rexmit(u, c), t, S) = g[S]
  BY <1>1, RexmitLoop
<1>3. \A c, u : Step(RexmitOp, c, u) = Rexmit(u, c)
  BY DEF Step, RexmitOp
<1> DEFINE B == {s \in SUBSET S : ~Repeated(t, g[s], s)}
<1>4. {} \notin B
  BY <1>2 DEF IsRun, Repeated, Kept
<1>5. ASSUME NEW s \in SUBSET S, s # {}, Repeated(t, g[s \ {Pick(s)}], s \ {Pick(s)})
      PROVE  Repeated(t, g[s], s)
  <2> DEFINE x == Pick(s)
             v == g[s \ {x}]
             w == Rexmit(v, x)
  <2>1. x \in s /\ x \in t.used /\ x \in Clients
    BY <1>1, <1>5, PickFacts
  <2>2. g[s] = w
    BY <1>2, <1>3, <1>5 DEF IsRun
  <2>3. /\ Good(v) /\ Kept(t, v)
        /\ \A c \in Clients : c \notin s \ {x} => v.pcb[c] = t.pcb[c]
        /\ \A c \in s \ {x} : v.pcb[c].state = t.pcb[c].state
    BY <1>5 DEF Repeated
  <2> HIDE DEF x, v
  <2>4. x \in v.used
    BY <2>1, <2>3 DEF Kept
  <2>5. Good(w) /\ Kept(v, w) /\ Only(v, w, x) /\ w.pcb[x].state = v.pcb[x].state
    BY <2>3, <2>4, RexmitGood
  <2> HIDE DEF w
  <2>6. Kept(t, w)
    BY <2>3, <2>5 DEF Kept
  <2>7. \A c \in Clients : c # x => w.pcb[c] = v.pcb[c]
    BY <2>5 DEF Only
  <2>8. \A c \in Clients : c \notin s => w.pcb[c] = t.pcb[c]
    BY <2>1, <2>3, <2>7
  <2>9. v.pcb[x] = t.pcb[x] /\ s \subseteq Clients
    BY <1>1, <2>1, <2>3
  <2>10. \A c \in s : w.pcb[c].state = t.pcb[c].state
    BY <2>3, <2>5, <2>7, <2>9
  <2> QED BY <2>2, <2>5, <2>6, <2>8, <2>10 DEF Repeated
<1>6. B = {}
  <2>1. \A s \in B : s \ {Pick(s)} \in B
    BY <1>4, <1>5
  <2> QED BY <1>1, <1>4, <2>1, NoFirst
<1> QED BY <1>2, <1>6

\* What waited in the blocks of s has been sent.
Flushed(t, u, s) ==
  /\ Good(u) /\ Kept(t, u)
  /\ \A c \in Clients : c \notin s => u.pcb[c] = t.pcb[c]
  /\ \A c \in s : /\ u.pcb[c].state = t.pcb[c].state
                  /\ Quiet(t.pcb[c]) => Quiet(u.pcb[c])

\* The output of several, put together.
LEMMA OutputAll ==
  ASSUME NEW t, Good(t), NEW S, S \subseteq t.used, NEW ok
  PROVE  Flushed(t, OutputEach(t, S, ok), S)
<1> DEFINE op == OutputOp(ok)
<1>1. t.used \subseteq Clients /\ IsFiniteSet(t.used) /\ IsFiniteSet(S)
  BY FS_Subset DEF Good
<1>2. PICK g : IsRun(g, S, t, op) /\ OutputEach(t, S, ok) = g[S]
  BY <1>1, OutputLoop
<1>3. \A c, u : Step(op, c, u) = Output(u, c, ok)
  BY DEF Step, OutputOp
<1> HIDE DEF op
<1> DEFINE B == {s \in SUBSET S : ~Flushed(t, g[s], s)}
<1>4. {} \notin B
  BY <1>2 DEF IsRun, Flushed, Kept
<1>5. ASSUME NEW s \in SUBSET S, s # {}, Flushed(t, g[s \ {Pick(s)}], s \ {Pick(s)})
      PROVE  Flushed(t, g[s], s)
  <2> DEFINE x == Pick(s)
             v == g[s \ {x}]
             w == Output(v, x, ok)
  <2>1. x \in s /\ x \in t.used /\ x \in Clients
    BY <1>1, <1>5, PickFacts
  <2>2. g[s] = w
    BY <1>2, <1>3, <1>5 DEF IsRun
  <2>3. /\ Good(v) /\ Kept(t, v)
        /\ \A c \in Clients : c \notin s \ {x} => v.pcb[c] = t.pcb[c]
        /\ \A c \in s \ {x} : /\ v.pcb[c].state = t.pcb[c].state
                              /\ Quiet(t.pcb[c]) => Quiet(v.pcb[c])
    BY <1>5 DEF Flushed
  <2> HIDE DEF x, v
  <2>4. x \in v.used
    BY <2>1, <2>3 DEF Kept
  <2>5. /\ Good(w) /\ Kept(v, w) /\ Only(v, w, x) /\ w.pcb[x].state = v.pcb[x].state
        /\ Quiet(v.pcb[x]) => Quiet(w.pcb[x])
    BY <2>3, <2>4, OutputGood
  <2> HIDE DEF w
  <2>6. Kept(t, w)
    BY <2>3, <2>5 DEF Kept
  <2>7. \A c \in Clients : c # x => w.pcb[c] = v.pcb[c]
    BY <2>5 DEF Only
  <2>8. \A c \in Clients : c \notin s => w.pcb[c] = t.pcb[c]
    BY <2>1, <2>3, <2>7
  <2>9. v.pcb[x] = t.pcb[x] /\ s \subseteq Clients
    BY <1>1, <2>1, <2>3
  <2>10. \A c \in s : /\ w.pcb[c].state = t.pcb[c].state
                      /\ Quiet(t.pcb[c]) => Quiet(w.pcb[c])
    BY <2>3, <2>5, <2>7, <2>9
  <2> QED BY <2>2, <2>5, <2>6, <2>8, <2>10 DEF Flushed
<1>6. B = {}
  <2>1. \A s \in B : s \ {Pick(s)} \in B
    BY <1>4, <1>5
  <2> QED BY <1>1, <1>4, <2>1, NoFirst
<1> QED BY <1>2, <1>6

-----------------------------------------------------------------------------
(* One lemma for each action: it keeps HInv, and leaves other clients'     *)
(* established connections in the list.                                    *)

EstablishedStays ==
  \A c \in tcp.active :
    (tcp.pcb[c].state = "ESTABLISHED" /\ input.pcb # c) => c \in tcp'.active

\* While no segment is handled, every block in use is active and quiet.
LEMMA IdleFacts ==
  ASSUME HInv, input = NoInput
  PROVE  /\ Good(tcp) /\ tcp.used = tcp.active /\ tcp.used \subseteq Clients
         /\ \A c \in tcp.used : Quiet(tcp.pcb[c])
<1>1. input.pcb = NoClient /\ input.phase = "idle"
  BY DEF NoInput
<1>2. Good(tcp) /\ tcp.used = tcp.active /\ tcp.used \subseteq Clients
  BY <1>1 DEF HInv, InputOK, Good
<1>3. NoClient \notin tcp.used
  BY <1>2, ConstFacts
<1> QED BY <1>1, <1>2, <1>3 DEF HInv, Idlers

\* That much is enough of a state where none is.
LEMMA IdleAfter ==
  ASSUME input' = NoInput, Good(tcp'), tcp'.used = tcp'.active,
         \A c \in tcp'.used : Quiet(tcp'.pcb[c])
  PROVE  HInv'
<1>1. NoInput \in Inputs /\ NoInput.phase = "idle"
  BY DEF NoInput, Inputs
<1>2. InputOK'
  BY <1>1 DEF InputOK
<1> QED BY <1>2 DEF HInv, Idlers

\* tcp_input takes up a segment for the block of c.
LEMMA BusyAfter ==
  ASSUME NEW c \in Clients, Good(tcp'), c \in tcp'.used, tcp'.used = tcp'.active,
         \A d \in tcp'.used : Quiet(tcp'.pcb[d]),
         input' \in Inputs, input'.pcb = c, input'.phase = "done"
  PROVE  HInv'
<1>1. InputOK'
  BY DEF InputOK
<1> QED BY <1>1 DEF HInv, Idlers

\* The invariant holds before the first connection.
LEMMA InitHolds == Init => HInv
<1> SUFFICES ASSUME Init PROVE HInv
  OBVIOUS
<1>1. /\ tcp.pcb = [c \in Clients |-> Blank] /\ tcp.active = {} /\ tcp.used = {}
      /\ tcp.segs = 0 /\ tcp.accepts_pending = 0 /\ IsTcp(tcp)
  BY DEF Init, IsTcp
<1>2. /\ tcp.pcb \in [Clients -> Pcbs] /\ \A c \in Clients : tcp.pcb[c] = Blank
  BY <1>1, BlankFacts
<1>3. IsFiniteSet({}) /\ Cardinality({}) = 0
  BY FS_EmptySet
<1>4. 0 = MapThenSumSet(LAMBDA c : Waiting(tcp, c), {})
  <2>1. \A c \in {} : Waiting(tcp, c) \in Nat
    OBVIOUS
  <2>2. {} \subseteq Clients
    OBVIOUS
  <2>3. MapThenSumSet(LAMBDA c : Waiting(tcp, c), {}) = Total(WaitingOf(tcp), {})
    BY <1>3, <2>1, <2>2, WaitingTotal
  <2> QED BY <2>3, TotalEmpty
<1>5. HalfOpen(tcp) = {}
  BY <1>1 DEF HalfOpen
<1>6. 0 <= MaxPcbs /\ 0 <= SegPool
  BY ConstFacts
<1>7. \A c \in Clients : BlockOK(tcp.pcb[c])
  BY <1>2, BlankFacts
<1>8. tcp.segs = MapThenSumSet(LAMBDA c : Waiting(tcp, c), tcp.used)
  BY <1>1, <1>4
<1>9. Good(tcp)
  BY <1>1, <1>2, <1>3, <1>5, <1>6, <1>7, <1>8 DEF Good
<1>10. InputOK
  <2>1. input \in Inputs /\ input.phase = "idle"
    BY DEF Init, NoInput, Inputs
  <2> QED BY <1>1, <2>1 DEF InputOK
<1> QED BY <1>1, <1>9, <1>10 DEF HInv, Idlers

\* tcp_alloc may kill a block, and never an established one.
LEMMA AllocGood ==
  ASSUME NEW t, Good(t), t.used = t.active, \A c \in t.used : Quiet(t.pcb[c]),
         NEW got, NEW ok, NEW u \in Alloc(t, got, ok)
  PROVE  /\ Good(u) /\ u.used = u.active /\ u.used \subseteq t.used
         /\ \A c \in u.used : Quiet(u.pcb[c])
         /\ \A c \in t.used : t.pcb[c].state = "ESTABLISHED" => c \in u.used
<1>1. t.used \subseteq Clients
  BY DEF Good
<1>2. CASE PcbFree(t)
  BY <1>2 DEF Alloc
<1>3. CASE ~PcbFree(t)
  <2> DEFINE h == HandleClosepend(t, got, ok)
  <2>1. /\ Good(h) /\ Kept(t, h)
        /\ \A c \in Clients : t.pcb[c].state # "CLOSE_WAIT" => h.pcb[c] = t.pcb[c]
        /\ \A c \in Clients : t.pcb[c].state = "CLOSE_WAIT"
                               => h.pcb[c].state \in {"CLOSE_WAIT", "LAST_ACK"}
    BY HandleClosependGood
  <2>2. u = h \/ \E v \in Victims(h) : u = Remove(h, v)
    BY <1>3 DEF Alloc
  <2> HIDE DEF h
  <2>3. \A c \in t.used : Quiet(h.pcb[c])
    BY <1>1, <2>1 DEF Quiet
  <2>4. CASE u = h
    BY <2>1, <2>3, <2>4 DEF Kept
  <2>5. ASSUME NEW v \in Victims(h), u = Remove(h, v)
        PROVE  /\ Good(u) /\ u.used = u.active /\ u.used \subseteq t.used
               /\ \A c \in u.used : Quiet(u.pcb[c])
               /\ \A c \in t.used : t.pcb[c].state = "ESTABLISHED" => c \in u.used
    <3>1. v \in h.used /\ h.used = t.used /\ h.active = t.used /\ h.pcb[v].state = "LAST_ACK"
      BY <2>1 DEF Victims, Kept
    <3>2. Good(u) /\ Only(h, u, v) /\ u.used = h.used \ {v} /\ u.active = h.active \ {v}
      BY <2>1, <2>5, <3>1, RemoveGood
    <3>3. \A c \in u.used : Quiet(u.pcb[c])
      BY <1>1, <2>3, <3>1, <3>2 DEF Only
    <3>4. \A c \in t.used : t.pcb[c].state = "ESTABLISHED" => c # v
      BY <1>1, <2>1, <3>1
    <3> QED BY <3>1, <3>2, <3>3, <3>4
  <2> QED BY <2>2, <2>4, <2>5
<1> QED BY <1>2, <1>3

\* A SYN for a new connection.
LEMMA SynStep ==
  ASSUME HInv, NEW c \in Clients, Syn(c)
  PROVE  HInv' /\ EstablishedStays
<1>1. PICK got \in SUBSET tcp.active, ok \in BOOLEAN, mem \in BOOLEAN :
        \E t \in Alloc(tcp, got, ok) :
          tcp' = IF ~PcbFree(t) THEN t
                 ELSE LET u == SynRcvd(t, c)
                      IN IF CanQueue(u, mem)
                         THEN Output(Enqueue(u, c, "SYNACK"), c, ok)
                         ELSE Remove(u, c)
  BY DEF Syn
<1>2. PICK t \in Alloc(tcp, got, ok) :
        tcp' = IF ~PcbFree(t) THEN t
               ELSE LET u == SynRcvd(t, c)
                    IN IF CanQueue(u, mem)
                       THEN Output(Enqueue(u, c, "SYNACK"), c, ok)
                       ELSE Remove(u, c)
  BY <1>1
<1>3. input = NoInput /\ input' = NoInput /\ c \notin tcp.active
  BY DEF Syn
<1>4. /\ Good(tcp) /\ tcp.used = tcp.active /\ \A d \in tcp.used : Quiet(tcp.pcb[d])
  BY <1>3, IdleFacts
<1>5. /\ Good(t) /\ t.used = t.active /\ t.used \subseteq tcp.used
      /\ \A d \in t.used : Quiet(t.pcb[d])
      /\ \A d \in tcp.used : tcp.pcb[d].state = "ESTABLISHED" => d \in t.used
  BY <1>4, AllocGood
<1>6. c \notin t.used
  BY <1>3, <1>4, <1>5
<1>7. SUFFICES /\ Good(tcp') /\ tcp'.used = tcp'.active /\ t.used \subseteq tcp'.used
               /\ \A d \in tcp'.used : Quiet(tcp'.pcb[d])
  BY <1>3, <1>4, <1>5, <1>7, IdleAfter DEF EstablishedStays
<1>8. CASE ~PcbFree(t)
  BY <1>2, <1>5, <1>8
<1>9. CASE PcbFree(t)
  <2> DEFINE u == SynRcvd(t, c)
             v == Enqueue(u, c, "SYNACK")
             w == Output(v, c, ok)
             r == Remove(u, c)
  <2>1. /\ Good(u) /\ Only(t, u, c) /\ u.pcb[c].state = "SYN_RCVD"
        /\ u.used = t.used \cup {c} /\ u.active = t.active \cup {c}
    BY <1>5, <1>6, <1>9, SynRcvdGood
  <2>2. tcp' = IF CanQueue(u, mem) THEN w ELSE r
    BY <1>2, <1>9
  <2> HIDE DEF u
  <2>3. c \in u.used /\ u.used = u.active /\ u.used \subseteq Clients
    BY <1>5, <2>1 DEF Good
  <2>4. \A d \in u.used : Quiet(u.pcb[d])
    BY <1>5, <2>1, <2>3 DEF Only, Quiet
  <2>5. CASE CanQueue(u, mem)
    <3>1. u.segs < SegPool /\ "SYNACK" \in Kinds
      BY <2>5 DEF CanQueue, Kinds
    <3>2. /\ Good(v) /\ Kept(u, v) /\ Only(u, v, c)
          /\ v.pcb[c] = [u.pcb[c] EXCEPT !.unsent = Append(@, "SYNACK")]
      BY <2>1, <2>3, <3>1, EnqueueGood
    <3>3. v.pcb[c].state = "SYN_RCVD"
      <4>1. u.pcb[c] \in Pcbs
        BY <2>1 DEF Good
      <4> QED BY <2>1, <3>2, <4>1 DEF Pcbs
    <3> HIDE DEF v
    <3>4. Good(v) /\ c \in v.used
      BY <2>3, <3>2 DEF Kept
    <3>5. Good(w) /\ Kept(v, w) /\ Only(v, w, c) /\ w.pcb[c].state = "SYN_RCVD"
      <4>1. Good(w) /\ Kept(v, w) /\ Only(v, w, c) /\ w.pcb[c].state = v.pcb[c].state
        BY <3>4, OutputGood
      <4> QED BY <3>3, <4>1
    <3> HIDE DEF w
    <3>6. tcp' = w
      BY <2>2, <2>5
    <3>7. w.used = u.used /\ w.active = u.active
      BY <3>2, <3>5 DEF Kept
    <3>8. \A d \in u.used : d # c => w.pcb[d] = u.pcb[d]
      BY <2>3, <3>2, <3>5 DEF Only
    <3>9. \A d \in u.used : Quiet(w.pcb[d])
      BY <2>4, <3>5, <3>8 DEF Quiet
    <3> QED BY <2>1, <2>3, <3>5, <3>6, <3>7, <3>9
  <2>6. CASE ~CanQueue(u, mem)
    <3>1. Good(r) /\ Only(u, r, c) /\ r.used = u.used \ {c} /\ r.active = u.active \ {c}
      BY <2>1, <2>3, RemoveGood
    <3> HIDE DEF r
    <3>2. tcp' = r
      BY <2>2, <2>6
    <3>3. r.used = t.used /\ r.active = r.used
      BY <1>5, <1>6, <2>1, <3>1
    <3>4. \A d \in r.used : Quiet(r.pcb[d])
      BY <2>3, <2>4, <3>1 DEF Only
    <3> QED BY <3>1, <3>2, <3>3, <3>4
  <2> QED BY <2>5, <2>6
<1> QED BY <1>8, <1>9

\* A reset.
LEMMA RstStep ==
  ASSUME HInv, NEW c \in Clients, Rst(c)
  PROVE  HInv' /\ EstablishedStays
<1>1. input = NoInput /\ c \in tcp.active /\ tcp' = tcp
      /\ input' = [NoInput EXCEPT !.pcb = c, !.phase = "done", !.closed = TRUE]
  BY DEF Rst, Idle
<1>2. /\ Good(tcp) /\ tcp.used = tcp.active /\ \A d \in tcp.used : Quiet(tcp.pcb[d])
  BY <1>1, IdleFacts
<1>3. /\ Good(tcp') /\ c \in tcp'.used /\ tcp'.used = tcp'.active
      /\ \A d \in tcp'.used : Quiet(tcp'.pcb[d])
  BY <1>1, <1>2
<1>4. input' \in Inputs /\ input'.pcb = c /\ input'.phase = "done"
  BY <1>1 DEF NoInput, Inputs
<1>5. HInv'
  BY <1>3, <1>4, BusyAfter
<1> QED BY <1>1, <1>5 DEF EstablishedStays

\* A SYN that is repeated.
LEMMA SynAgainStep ==
  ASSUME HInv, NEW c \in Clients, SynAgain(c)
  PROVE  HInv' /\ EstablishedStays
<1>1. /\ input = NoInput /\ c \in tcp.active /\ tcp.pcb[c].state = "SYN_RCVD"
      /\ tcp' = Rexmit(tcp, c)
      /\ input' = [NoInput EXCEPT !.pcb = c, !.phase = "done"]
  BY DEF SynAgain, Idle, Rexmit
<1>2. /\ Good(tcp) /\ tcp.used = tcp.active /\ \A d \in tcp.used : Quiet(tcp.pcb[d])
      /\ tcp.used \subseteq Clients
  BY <1>1, IdleFacts
<1>3. c \in tcp.used
  BY <1>1, <1>2
<1>4. Good(tcp') /\ Kept(tcp, tcp') /\ Only(tcp, tcp', c) /\ tcp'.pcb[c].state = "SYN_RCVD"
  BY <1>1, <1>2, <1>3, RexmitGood
<1>5. \A d \in tcp'.used : Quiet(tcp'.pcb[d])
  BY <1>2, <1>4 DEF Kept, Only, Quiet
<1>6. c \in tcp'.used /\ tcp'.used = tcp'.active /\ tcp'.active = tcp.active
  BY <1>2, <1>3, <1>4 DEF Kept
<1>7. input' \in Inputs /\ input'.pcb = c /\ input'.phase = "done"
  BY <1>1 DEF NoInput, Inputs
<1>8. HInv'
  BY <1>4, <1>5, <1>6, <1>7, BusyAfter
<1> QED BY <1>6, <1>8 DEF EstablishedStays

\* The last acknowledgement.
LEMMA LastAckStep ==
  ASSUME HInv, NEW c \in Clients, LastAck(c)
  PROVE  HInv' /\ EstablishedStays
<1> DEFINE p == tcp.pcb[c]
           q == [p EXCEPT !.unsent = <<>>, !.unacked = <<>>]
<1>1. /\ input = NoInput /\ c \in tcp.active /\ p.state = "LAST_ACK"
      /\ tcp' = [tcp EXCEPT !.segs = @ - Waiting(tcp, c),
                            !.pcb[c].unsent = <<>>, !.pcb[c].unacked = <<>>]
      /\ input' = [NoInput EXCEPT !.pcb = c, !.phase = "done", !.closed = TRUE]
  BY DEF LastAck, Idle
<1>2. /\ Good(tcp) /\ tcp.used = tcp.active /\ \A d \in tcp.used : Quiet(tcp.pcb[d])
      /\ tcp.used \subseteq Clients
  BY <1>1, IdleFacts
<1>3. /\ c \in tcp.used /\ IsTcp(tcp) /\ tcp.pcb \in [Clients -> Pcbs] /\ p \in Pcbs
      /\ BlockOK(p) /\ Waiting(tcp, c) \in Nat /\ tcp.segs \in Nat /\ tcp.segs <= SegPool
  BY <1>1, <1>2, GoodFacts DEF Good
<1>4. /\ IsTcp(tcp') /\ Kept(tcp, tcp') /\ tcp'.segs = tcp.segs - Waiting(tcp, c)
      /\ tcp'.accepts_pending = tcp.accepts_pending
      /\ tcp'.pcb = [tcp.pcb EXCEPT ![c] = q]
  BY <1>1, <1>3 DEF IsTcp, Kept
<1>5. /\ q \in Pcbs /\ q.state = "LAST_ACK" /\ q.unsent = <<>> /\ q.unacked = <<>>
      /\ q.backlogpend = p.backlogpend /\ q.closepend = p.closepend
  <2> DEFINE e == <<>>
  <2>1. e \in Seq(Kinds)
    OBVIOUS
  <2> HIDE DEF e
  <2>2. [p EXCEPT !.unsent = e, !.unacked = e] \in Pcbs
    BY <1>3, <2>1 DEF Pcbs, Kinds
  <2> USE DEF e
  <2> QED BY <1>1, <1>3, <2>2 DEF Pcbs
<1> HIDE DEF q
<1>6. Only(tcp, tcp', c) /\ tcp'.pcb[c] = q
  BY <1>2, <1>3, <1>4, <1>5 DEF Only
<1>7. BlockOK(q)
  BY <1>1, <1>3, <1>5 DEF BlockOK
<1>8. tcp'.segs = tcp.segs - Waiting(tcp, c) + Len(q.unsent) + Len(q.unacked)
      /\ tcp'.segs <= SegPool
  <2>1. Len(q.unsent) = 0 /\ Len(q.unacked) = 0
    BY <1>5
  <2>2. tcp'.segs = tcp.segs - Waiting(tcp, c) + 0 + 0
    BY <1>3, <1>4
  <2>3. tcp'.segs <= SegPool
    BY <1>3, <1>4, ConstFacts
  <2> QED BY <2>1, <2>2, <2>3
<1>9. tcp'.used = tcp.used /\ tcp'.active \subseteq tcp.used /\ tcp'.active = tcp.active
  BY <1>2, <1>4 DEF Kept
<1>10. Good(tcp')
  BY <1>1, <1>2, <1>3, <1>4, <1>5, <1>6, <1>7, <1>8, <1>9, GoodOnly
<1>11. \A d \in tcp'.used : Quiet(tcp'.pcb[d])
  BY <1>2, <1>5, <1>6, <1>9 DEF Only, Quiet
<1>12. c \in tcp'.used /\ tcp'.used = tcp'.active
  BY <1>2, <1>3, <1>9
<1>13. input' \in Inputs /\ input'.pcb = c /\ input'.phase = "done"
  BY <1>1, <1>2, <1>3 DEF NoInput, Inputs
<1>14. HInv'
  BY <1>2, <1>3, <1>10, <1>11, <1>12, <1>13, BusyAfter
<1> QED BY <1>9, <1>14 DEF EstablishedStays

\* The fast timer.
LEMMA FastTimerStep ==
  ASSUME HInv, NEW got, NEW delayed \in SUBSET tcp.active, FastTimer(got, delayed)
  PROVE  HInv' /\ EstablishedStays
<1>1. PICK ok \in BOOLEAN :
        tcp' = HandleClosepend(FoldSet(LAMBDA c, t : Output(t, c, ok), tcp, delayed), got, ok)
  BY DEF FastTimer
<1> DEFINE t1 == OutputEach(tcp, delayed, ok)
<1>2. input = NoInput /\ input' = NoInput /\ tcp' = HandleClosepend(t1, got, ok)
  BY <1>1 DEF FastTimer, OutputEach
<1>3. /\ Good(tcp) /\ tcp.used = tcp.active /\ \A d \in tcp.used : Quiet(tcp.pcb[d])
      /\ tcp.used \subseteq Clients
  BY <1>2, IdleFacts
<1>4. Flushed(tcp, t1, delayed)
  <2>1. delayed \subseteq tcp.used
    BY <1>3
  <2> QED BY <1>3, <2>1, OutputAll
<1> HIDE DEF t1
<1>5. /\ Good(t1) /\ t1.used = tcp.used /\ t1.active = tcp.active
      /\ \A d \in tcp.used : Quiet(t1.pcb[d])
  <2>1. \A d \in tcp.used : d \notin delayed => t1.pcb[d] = tcp.pcb[d]
    BY <1>3, <1>4 DEF Flushed
  <2>2. \A d \in delayed : Quiet(tcp.pcb[d]) => Quiet(t1.pcb[d])
    BY <1>4 DEF Flushed
  <2> QED BY <1>3, <1>4, <2>1, <2>2 DEF Flushed, Kept
<1>6. /\ Good(tcp') /\ Kept(t1, tcp')
      /\ \A c \in Clients : t1.pcb[c].state # "CLOSE_WAIT" => tcp'.pcb[c] = t1.pcb[c]
      /\ \A c \in Clients : t1.pcb[c].state = "CLOSE_WAIT"
                             => tcp'.pcb[c].state \in {"CLOSE_WAIT", "LAST_ACK"}
  BY <1>2, <1>5, HandleClosependGood
<1>7. tcp'.used = tcp'.active /\ tcp'.used = tcp.used
  BY <1>3, <1>5, <1>6 DEF Kept
<1>8. \A d \in tcp'.used : Quiet(tcp'.pcb[d])
  BY <1>3, <1>5, <1>6, <1>7 DEF Quiet
<1>9. HInv'
  BY <1>2, <1>6, <1>7, <1>8, IdleAfter
<1> QED BY <1>3, <1>7, <1>9 DEF EstablishedStays

\* The slow timer, which removes and repeats.
LEMMA SlowTimerStep ==
  ASSUME HInv, NEW gone \in SUBSET tcp.active, NEW rexmit \in SUBSET tcp.active,
         SlowTimer(gone, rexmit)
  PROVE  HInv' /\ EstablishedStays
<1> DEFINE left == tcp.active \ gone
           t1 == FoldSet(LAMBDA c, t : Remove(t, c), tcp, gone)
           t2 == FoldSet(LAMBDA c, t : Rexmit(t, c), t1, left \cap rexmit)
<1>1. PICK ok \in BOOLEAN : tcp' = FoldSet(LAMBDA c, t : Output(t, c, ok), t2, left)
  BY DEF SlowTimer
<1>2. tcp' = OutputEach(t2, left, ok)
  BY <1>1 DEF OutputEach
<1>3. /\ input = NoInput /\ input' = NoInput
      /\ \A c \in gone : tcp.pcb[c].nrtx >= MaxRtx \/ tcp.pcb[c].state \in {"SYN_RCVD", "LAST_ACK"}
      /\ \A c \in rexmit : tcp.pcb[c].unacked # <<>> \/ tcp.pcb[c].unsent # <<>>
  BY DEF SlowTimer
<1>4. /\ Good(tcp) /\ tcp.used = tcp.active /\ \A d \in tcp.used : Quiet(tcp.pcb[d])
      /\ tcp.used \subseteq Clients
  BY <1>3, IdleFacts
<1>5. \A c \in tcp.active : tcp.pcb[c].state = "ESTABLISHED" => c \in left /\ c \notin rexmit
  <2> SUFFICES ASSUME NEW c \in tcp.active, tcp.pcb[c].state = "ESTABLISHED"
               PROVE  c \notin gone /\ c \notin rexmit
    OBVIOUS
  <2>1. tcp.pcb[c].unacked = <<>> /\ tcp.pcb[c].unsent = <<>> /\ tcp.pcb[c].nrtx = 0
    BY <1>4 DEF Quiet
  <2>2. ~(0 >= MaxRtx)
    BY HttpConnConstantsOK
  <2> QED BY <1>3, <2>1, <2>2
<1>6. Removed(tcp, t1, gone)
  <2>1. gone \subseteq tcp.used
    BY <1>4
  <2> QED BY <1>4, <2>1, RemoveAll
<1> HIDE DEF t1
<1>7. Good(t1) /\ t1.used = left /\ t1.active = left /\ \A c \in left : t1.pcb[c] = tcp.pcb[c]
  BY <1>4, <1>6 DEF Removed
<1>8. Repeated(t1, t2, left \cap rexmit)
  <2>1. left \cap rexmit \subseteq t1.used
    BY <1>7
  <2> QED BY <1>7, <2>1, RexmitAll
<1> HIDE DEF t2
<1>9. /\ Good(t2) /\ t2.used = left /\ t2.active = left
      /\ \A c \in left : c \notin rexmit => t2.pcb[c] = t1.pcb[c]
      /\ \A c \in left : c \in rexmit => t2.pcb[c].state = t1.pcb[c].state
  BY <1>4, <1>7, <1>8 DEF Repeated, Kept
<1>10. \A c \in left : Quiet(t2.pcb[c])
  <2> SUFFICES ASSUME NEW c \in left PROVE Quiet(t2.pcb[c])
    OBVIOUS
  <2>1. CASE c \in rexmit
    BY <1>5, <1>7, <1>9, <2>1 DEF Quiet
  <2>2. CASE c \notin rexmit
    BY <1>4, <1>7, <1>9, <2>2
  <2> QED BY <2>1, <2>2
<1>11. Flushed(t2, tcp', left)
  <2>1. left \subseteq t2.used
    BY <1>9
  <2> QED BY <1>2, <1>9, <2>1, OutputAll
<1>12. /\ Good(tcp') /\ tcp'.used = left /\ tcp'.active = left
       /\ \A c \in left : Quiet(tcp'.pcb[c])
  BY <1>9, <1>10, <1>11 DEF Flushed, Kept
<1>13. HInv'
  BY <1>3, <1>12, IdleAfter
<1> QED BY <1>5, <1>12, <1>13 DEF EstablishedStays

\* What the handshake's last segment and every later one have in common: t
\* is tcp with nothing waiting in the block of c.
LEMMA ReceivedStep ==
  ASSUME HInv, NEW c \in Clients, Idle(c),
         tcp.pcb[c].state \in {"SYN_RCVD", "ESTABLISHED"},
         NEW t, Only(tcp, t, c), Kept(tcp, t), t.segs = tcp.segs - Waiting(tcp, c),
         t.accepts_pending = IF tcp.pcb[c].state = "SYN_RCVD"
                             THEN tcp.accepts_pending - 1 ELSE tcp.accepts_pending,
         t.pcb[c].unsent = <<>>, t.pcb[c].unacked = <<>>, t.pcb[c].nrtx = 0,
         t.pcb[c].backlogpend = FALSE, t.pcb[c].closepend = FALSE,
         NEW data \in {"none", "get", "other"}, NEW fin \in BOOLEAN,
         Received(t, c, data, fin)
  PROVE  HInv' /\ EstablishedStays
<1> DEFINE p == t.pcb[c]
           room == p.rcv_wnd
           d == IF room > 0 THEN data ELSE "none"
           left == IF d = "none" THEN room ELSE room - 1
           f == fin /\ left > 0 /\ (data # "none" => d # "none")
           w == IF f THEN left - 1 ELSE left
           st == IF f THEN "CLOSE_WAIT" ELSE "ESTABLISHED"
           q == [p EXCEPT !.rcv_wnd = w, !.state = st]
<1>1. input = NoInput /\ c \in tcp.active
  BY DEF Idle
<1>2. /\ Good(tcp) /\ tcp.used = tcp.active /\ \A e \in tcp.used : Quiet(tcp.pcb[e])
      /\ tcp.used \subseteq Clients
  BY <1>1, IdleFacts
<1>3. /\ c \in tcp.used /\ p \in Pcbs /\ tcp.pcb \in [Clients -> Pcbs]
      /\ Waiting(tcp, c) \in Nat /\ tcp.segs \in Nat /\ tcp.segs <= SegPool
  BY <1>1, <1>2, GoodFacts DEF Good, Only
<1>4. /\ tcp' = [t EXCEPT !.pcb[c].rcv_wnd = w, !.pcb[c].state = st]
      /\ input' = [NoInput EXCEPT !.pcb = c, !.phase = "recv", !.data = d, !.fin = f]
  BY DEF Received
<1>5. room \in 0 .. Wnd
  BY <1>3, BlockTypes
<1>6. d \in {"none", "get", "other"} /\ f \in BOOLEAN
  OBVIOUS
<1>7. w \in 0 .. Wnd /\ (d # "none" => w # Wnd)
  <2>1. left \in 0 .. Wnd /\ (d # "none" => left < Wnd)
    BY <1>5, ConstFacts
  <2> HIDE DEF left, d, room
  <2> QED BY <2>1, ConstFacts
<1>8. st \in States /\ st # "SYN_RCVD"
  BY DEF States
<1>9. st = IF f THEN "CLOSE_WAIT" ELSE "ESTABLISHED"
  OBVIOUS
<1> HIDE DEF w, st, f, d, left, room
<1>10. /\ IsTcp(tcp') /\ Kept(t, tcp') /\ tcp'.segs = t.segs
       /\ tcp'.accepts_pending = t.accepts_pending
       /\ tcp'.pcb = [t.pcb EXCEPT ![c] = q]
  BY <1>4 DEF IsTcp, Kept, Only
<1>11. /\ q \in Pcbs /\ q.state = st /\ q.rcv_wnd = w /\ q.unsent = <<>> /\ q.unacked = <<>>
       /\ q.nrtx = 0 /\ q.backlogpend = FALSE /\ q.closepend = FALSE
  BY <1>3, <1>7, <1>8 DEF Pcbs
<1> HIDE DEF q
<1>12. Only(tcp, tcp', c) /\ tcp'.pcb[c] = q
  BY <1>10, <1>11 DEF Only
<1>13. tcp'.used = tcp.used /\ tcp'.active = tcp.active
  BY <1>10 DEF Kept
<1>14. tcp'.segs = tcp.segs - Waiting(tcp, c) + Len(q.unsent) + Len(q.unacked)
       /\ tcp'.segs <= SegPool
  <2>1. Len(q.unsent) = 0 /\ Len(q.unacked) = 0
    BY <1>11
  <2>2. tcp'.segs = tcp.segs - Waiting(tcp, c) + 0 + 0
    BY <1>3, <1>10
  <2>3. tcp'.segs <= SegPool
    BY <1>3, <1>10, ConstFacts
  <2> QED BY <2>1, <2>2, <2>3
<1>15. BlockOK(q)
  BY <1>8, <1>11 DEF BlockOK
<1>16. q.state # "SYN_RCVD"
       /\ tcp'.accepts_pending = IF tcp.pcb[c].state = "SYN_RCVD"
                                 THEN tcp.accepts_pending - 1 ELSE tcp.accepts_pending
  BY <1>8, <1>10, <1>11
<1>17. Good(tcp')
  BY <1>2, <1>3, <1>12, <1>13, <1>14, <1>15, <1>16, GoodOnly
<1>18. /\ input' \in Inputs /\ input'.pcb = c /\ input'.phase = "recv"
       /\ input'.data = d /\ input'.fin = f
  BY <1>4, <1>6 DEF NoInput, Inputs
<1>19. InputOK'
  <2>1. tcp'.used = tcp'.active \cup {input'.pcb} /\ input'.pcb \in tcp'.active
    BY <1>1, <1>2, <1>13, <1>18
  <2>2. tcp'.pcb[input'.pcb].state = IF input'.fin THEN "CLOSE_WAIT" ELSE "ESTABLISHED"
    BY <1>9, <1>11, <1>12, <1>18
  <2>3. input'.data = "get" => tcp'.pcb[input'.pcb].rcv_wnd # Wnd
    BY <1>7, <1>11, <1>12, <1>18
  <2> QED BY <1>1, <1>2, <1>13, <1>18, <2>1, <2>2, <2>3 DEF InputOK
<1>20. \A e \in tcp'.used : Quiet(tcp'.pcb[e])
  BY <1>2, <1>11, <1>12, <1>13 DEF Only, Quiet
<1> QED BY <1>13, <1>17, <1>19, <1>20 DEF HInv, Idlers, EstablishedStays

\* The end of the handshake, with or without data.
LEMMA HandshakeAckStep ==
  ASSUME HInv, NEW c \in Clients, NEW data \in {"none", "get", "other"}, NEW fin \in BOOLEAN,
         HandshakeAck(c, data, fin)
  PROVE  HInv' /\ EstablishedStays
<1> DEFINE v == BacklogAccepted(tcp, c)
           t == [v EXCEPT !.segs = @ - Waiting(tcp, c),
                          !.pcb[c].unsent = <<>>, !.pcb[c].unacked = <<>>, !.pcb[c].nrtx = 0]
           p == tcp.pcb[c]
           q == [p EXCEPT !.backlogpend = FALSE]
           r == [q EXCEPT !.unsent = <<>>, !.unacked = <<>>, !.nrtx = 0]
<1>1. input = NoInput /\ c \in tcp.active /\ p.state = "SYN_RCVD" /\ Idle(c)
      /\ Received(t, c, data, fin)
  BY DEF HandshakeAck, Idle
<1>2. Good(tcp) /\ tcp.used = tcp.active
  BY <1>1, IdleFacts
<1>3. /\ IsTcp(tcp) /\ tcp.pcb \in [Clients -> Pcbs] /\ p \in Pcbs /\ BlockOK(p)
  BY <1>2, GoodFacts
<1>4. /\ IsTcp(v) /\ Kept(tcp, v) /\ v.segs = tcp.segs
      /\ v.accepts_pending =
           IF p.backlogpend THEN tcp.accepts_pending - 1 ELSE tcp.accepts_pending
      /\ v.pcb \in [Clients -> Pcbs] /\ v.pcb = [tcp.pcb EXCEPT ![c] = q]
  BY <1>3, BacklogAcceptedFields
<1>5. p.backlogpend /\ p.closepend = FALSE
  <2>1. p.closepend \in BOOLEAN
    BY <1>3, BlockTypes
  <2> QED BY <1>1, <1>3, <2>1 DEF BlockOK
<1>6. /\ r \in Pcbs /\ r.unsent = <<>> /\ r.unacked = <<>> /\ r.nrtx = 0
      /\ r.backlogpend = FALSE /\ r.closepend = FALSE
  <2> DEFINE e == <<>>
  <2>1. e \in Seq(Kinds) /\ 0 \in 0 .. MaxRtx
    BY ConstFacts
  <2> HIDE DEF e
  <2>2. [q EXCEPT !.unsent = e, !.unacked = e, !.nrtx = 0] \in Pcbs
    BY <1>3, <2>1 DEF Pcbs, Kinds
  <2> USE DEF e
  <2> QED BY <1>3, <1>5, <2>2 DEF Pcbs
<1>7. /\ IsTcp(t) /\ Kept(v, t) /\ t.segs = v.segs - Waiting(tcp, c)
      /\ t.accepts_pending = v.accepts_pending
      /\ t.pcb = [v.pcb EXCEPT ![c] =
                    [v.pcb[c] EXCEPT !.unsent = <<>>, !.unacked = <<>>, !.nrtx = 0]]
  <2> HIDE DEF v
  <2> QED BY <1>4 DEF IsTcp, Kept
<1>8. v.pcb[c] = q
  BY <1>3, <1>4
<1> HIDE DEF v, t
<1>9. t.pcb = [v.pcb EXCEPT ![c] = r]
  BY <1>7, <1>8
<1> HIDE DEF r, q
<1>10. Only(tcp, t, c) /\ t.pcb[c] = r
  BY <1>3, <1>4, <1>6, <1>7, <1>9 DEF Only
<1>11. /\ Kept(tcp, t) /\ t.segs = tcp.segs - Waiting(tcp, c)
       /\ t.accepts_pending = IF p.state = "SYN_RCVD"
                              THEN tcp.accepts_pending - 1 ELSE tcp.accepts_pending
  BY <1>1, <1>4, <1>5, <1>7 DEF Kept
<1>12. p.state \in {"SYN_RCVD", "ESTABLISHED"}
  BY <1>1
<1> QED BY <1>1, <1>6, <1>10, <1>11, <1>12, ReceivedStep

\* A segment of an established connection.
LEMMA SegmentStep ==
  ASSUME HInv, NEW c \in Clients, NEW data \in {"none", "get", "other"}, NEW fin \in BOOLEAN,
         Segment(c, data, fin)
  PROVE  HInv' /\ EstablishedStays
<1> DEFINE p == tcp.pcb[c]
<1>1. input = NoInput /\ c \in tcp.active /\ p.state = "ESTABLISHED" /\ Idle(c)
      /\ Received(tcp, c, data, fin)
  BY DEF Segment, Idle
<1>2. Good(tcp) /\ tcp.used = tcp.active /\ Quiet(p)
  BY <1>1, IdleFacts
<1>3. /\ IsTcp(tcp) /\ tcp.pcb \in [Clients -> Pcbs] /\ p \in Pcbs /\ BlockOK(p)
      /\ Waiting(tcp, c) = Len(p.unsent) + Len(p.unacked) /\ tcp.segs \in Nat
  BY <1>2, GoodFacts
<1>4. p.unsent = <<>> /\ p.unacked = <<>> /\ p.nrtx = 0
  BY <1>1, <1>2 DEF Quiet
<1>5. p.backlogpend = FALSE /\ p.closepend = FALSE
  <2>1. p.closepend \in BOOLEAN /\ p.backlogpend \in BOOLEAN
    BY <1>3, BlockTypes
  <2> QED BY <1>1, <1>3, <2>1 DEF BlockOK
<1>6. tcp.segs = tcp.segs - Waiting(tcp, c)
  <2>1. Len(p.unsent) = 0 /\ Len(p.unacked) = 0
    BY <1>4
  <2> QED BY <1>3, <2>1
<1>7. Only(tcp, tcp, c) /\ Kept(tcp, tcp)
  BY <1>3 DEF Only, Kept
<1>8. p.state # "SYN_RCVD" /\ p.state \in {"SYN_RCVD", "ESTABLISHED"}
  BY <1>1
<1>9. tcp.accepts_pending = IF p.state = "SYN_RCVD"
                            THEN tcp.accepts_pending - 1 ELSE tcp.accepts_pending
  BY <1>8
<1> QED BY <1>1, <1>4, <1>5, <1>6, <1>7, <1>8, <1>9, ReceivedStep

\* While a segment is handled, only its block may be unlinked.
LEMMA BusyFacts ==
  ASSUME HInv, input.phase # "idle"
  PROVE  /\ Good(tcp) /\ input \in Inputs /\ input.pcb \in tcp.used /\ input.pcb \in Clients
         /\ tcp.used \subseteq Clients /\ tcp.used = tcp.active \cup {input.pcb}
         /\ input.pcb \notin tcp.active => input.closed
         /\ \A d \in tcp.used : d # input.pcb => Quiet(tcp.pcb[d])
  BY DEF HInv, InputOK, Idlers, Good

\* http_recv writes the response.
LEMMA HttpRecvStep ==
  ASSUME HInv, HttpRecv
  PROVE  HInv' /\ EstablishedStays
<1> DEFINE c == input.pcb
<1>1. /\ Good(tcp) /\ input \in Inputs /\ c \in tcp.used /\ c \in Clients
      /\ tcp.used \subseteq Clients /\ tcp.used = tcp.active \cup {c}
      /\ c \notin tcp.active => input.closed
      /\ \A d \in tcp.used : d # c => Quiet(tcp.pcb[d])
  BY BusyFacts DEF HttpRecv
<1>2. /\ input.phase = "recv"
      /\ tcp.pcb[c].state = IF input.fin THEN "CLOSE_WAIT" ELSE "ESTABLISHED"
      /\ input.data = "get" => tcp.pcb[c].rcv_wnd # Wnd
  BY DEF HttpRecv, HInv, InputOK
<1>3. input.closed \/ Quiet(tcp.pcb[c])
  BY <1>1, <1>2 DEF HInv, Idlers
<1>4. CASE input.data # "get"
  <2>1. tcp' = tcp /\ input' = [input EXCEPT !.phase = IF input.fin THEN "fin" ELSE "done"]
    BY <1>4 DEF HttpRecv
  <2>2. /\ input' \in Inputs /\ input'.pcb = c /\ input'.closed = input.closed
        /\ input'.phase = IF input.fin THEN "fin" ELSE "done"
    BY <1>1, <2>1 DEF Inputs
  <2>3. InputOK'
    BY <1>1, <1>2, <2>1, <2>2 DEF InputOK
  <2> QED BY <1>1, <1>3, <2>1, <2>2, <2>3 DEF HInv, Idlers, EstablishedStays
<1>5. CASE input.data = "get"
  <2>1. PICK mem \in BOOLEAN, ok \in BOOLEAN :
          tcp' = IF CanQueue(tcp, mem) THEN Output(Enqueue(tcp, c, "RESPONSE"), c, ok) ELSE tcp
    BY <1>5 DEF HttpRecv
  <2>2. input' = [input EXCEPT !.phase = "written"]
    BY <1>5 DEF HttpRecv
  <2>3. /\ input' \in Inputs /\ input'.pcb = c /\ input'.closed = input.closed
        /\ input'.phase = "written" /\ input'.fin = input.fin
    BY <1>1, <2>2 DEF Inputs
  <2>4. /\ Good(tcp') /\ Kept(tcp, tcp') /\ Only(tcp, tcp', c)
        /\ tcp'.pcb[c].state = tcp.pcb[c].state /\ tcp'.pcb[c].rcv_wnd = tcp.pcb[c].rcv_wnd
    <3>1. CASE ~CanQueue(tcp, mem)
      BY <1>1, <2>1, <3>1 DEF Kept, Only, Good
    <3>2. CASE CanQueue(tcp, mem)
      <4> DEFINE v == Enqueue(tcp, c, "RESPONSE")
      <4>1. tcp.segs < SegPool /\ "RESPONSE" \in Kinds
        BY <3>2 DEF CanQueue, Kinds
      <4>2. /\ Good(v) /\ Kept(tcp, v) /\ Only(tcp, v, c)
            /\ v.pcb[c] = [tcp.pcb[c] EXCEPT !.unsent = Append(@, "RESPONSE")]
        <5> DEFINE kind == "RESPONSE"
        <5>1. Good(tcp) /\ c \in tcp.used /\ tcp.segs < SegPool /\ kind \in Kinds
          BY <1>1, <4>1
        <5> HIDE DEF kind, c
        <5>2. LET u == Enqueue(tcp, c, kind) IN
              /\ Good(u) /\ Kept(tcp, u) /\ Only(tcp, u, c)
              /\ u.pcb[c] = [tcp.pcb[c] EXCEPT !.unsent = Append(@, kind)]
          BY <5>1, EnqueueGood
        <5> QED BY <5>2 DEF kind
      <4>3. v.pcb[c].state = tcp.pcb[c].state /\ v.pcb[c].rcv_wnd = tcp.pcb[c].rcv_wnd
        <5>1. tcp.pcb[c] \in Pcbs
          BY <1>1 DEF Good
        <5> QED BY <4>2, <5>1 DEF Pcbs
      <4> HIDE DEF v
      <4>4. Good(v) /\ c \in v.used
        BY <1>1, <4>2 DEF Kept
      <4> DEFINE u == Output(v, c, ok)
      <4>5. /\ Good(u) /\ Kept(v, u) /\ Only(v, u, c)
            /\ u.pcb[c].state = v.pcb[c].state /\ u.pcb[c].rcv_wnd = v.pcb[c].rcv_wnd
        BY <4>4, OutputGood
      <4>6. tcp' = u
        BY <2>1, <3>2 DEF v
      <4> HIDE DEF u
      <4>7. Only(tcp, u, c) /\ Kept(tcp, u)
        BY <4>2, <4>5, OnlyOnce DEF Kept
      <4> QED BY <4>3, <4>5, <4>6, <4>7
    <3> QED BY <3>1, <3>2
  <2>5. tcp'.used = tcp.used /\ tcp'.active = tcp.active
    BY <2>4 DEF Kept
  <2>6. InputOK'
    BY <1>1, <1>2, <1>5, <2>3, <2>4, <2>5 DEF InputOK
  <2>7. \A d \in tcp'.used : d # c => Quiet(tcp'.pcb[d])
    BY <1>1, <2>4, <2>5 DEF Only
  <2> QED BY <2>3, <2>4, <2>5, <2>6, <2>7 DEF HInv, Idlers, EstablishedStays
<1> QED BY <1>4, <1>5

\* http_recv closes.
LEMMA HttpRecvCloseStep ==
  ASSUME HInv, HttpRecvClose
  PROVE  HInv' /\ EstablishedStays
<1> DEFINE c == input.pcb
<1>1. /\ Good(tcp) /\ input \in Inputs /\ c \in tcp.used /\ c \in Clients
      /\ tcp.used \subseteq Clients /\ tcp.used = tcp.active \cup {c}
      /\ \A d \in tcp.used : d # c => Quiet(tcp.pcb[d])
  BY BusyFacts DEF HttpRecvClose
<1>2. /\ input.phase = "written" /\ tcp.pcb[c].rcv_wnd # Wnd
      /\ tcp.pcb[c].state = IF input.fin THEN "CLOSE_WAIT" ELSE "ESTABLISHED"
  BY DEF HttpRecvClose, HInv, InputOK
<1>3. tcp' = Unlink(tcp, c)
  BY <1>2 DEF HttpRecvClose, Close, Unread, Reset
<1>4. input' = [input EXCEPT !.phase = IF input.fin THEN "fin" ELSE "done",
                             !.closed = Closing(tcp')]
  BY DEF HttpRecvClose
<1>5. tcp.pcb[c].state # "SYN_RCVD"
  BY <1>2
<1>6. /\ Good(tcp') /\ Only(tcp, tcp', c) /\ tcp'.used = tcp.used
      /\ tcp'.active = tcp.active \ {c} /\ tcp'.pcb[c].state = tcp.pcb[c].state
  BY <1>1, <1>3, <1>5, UnlinkGood
<1>7. Closing(tcp') = TRUE
  BY <1>6 DEF Closing
<1>8. /\ input' \in Inputs /\ input'.pcb = c /\ input'.closed = TRUE
      /\ input'.phase = IF input.fin THEN "fin" ELSE "done"
  BY <1>1, <1>4, <1>7 DEF Inputs
<1>9. InputOK'
  <2>1. tcp'.used = tcp'.active \cup {c}
    BY <1>1, <1>6
  <2> QED BY <1>1, <1>2, <1>6, <1>8, <2>1 DEF InputOK
<1>10. \A d \in tcp'.used : d # c => Quiet(tcp'.pcb[d])
  BY <1>1, <1>6 DEF Only
<1> QED BY <1>6, <1>8, <1>9, <1>10 DEF HInv, Idlers, EstablishedStays

\* The end of the client's data: http_recv closes the connection.
LEMMA HttpRecvEndStep ==
  ASSUME HInv, HttpRecvEnd
  PROVE  HInv' /\ EstablishedStays
<1> DEFINE c == input.pcb
           p == tcp.pcb[c]
           w == IF p.rcv_wnd # Wnd THEN p.rcv_wnd + 1 ELSE p.rcv_wnd
           t == [tcp EXCEPT !.pcb[c].rcv_wnd = w]
           q == [p EXCEPT !.rcv_wnd = w]
<1>1. /\ Good(tcp) /\ input \in Inputs /\ c \in tcp.used /\ c \in Clients
      /\ tcp.used \subseteq Clients /\ tcp.used = tcp.active \cup {c}
      /\ c \notin tcp.active => input.closed
      /\ \A d \in tcp.used : d # c => Quiet(tcp.pcb[d])
  BY BusyFacts DEF HttpRecvEnd
<1>2. input.phase = "fin" /\ p.state = "CLOSE_WAIT"
  BY DEF HttpRecvEnd, HInv, InputOK
<1>3. PICK mem \in BOOLEAN, ok \in BOOLEAN : tcp' = Close(t, c, mem, ok)
  BY DEF HttpRecvEnd
<1>4. input' = [input EXCEPT !.phase = "done", !.closed = Closing(tcp')]
  BY DEF HttpRecvEnd
<1>5. /\ IsTcp(tcp) /\ tcp.pcb \in [Clients -> Pcbs] /\ p \in Pcbs
      /\ Waiting(tcp, c) = Len(p.unsent) + Len(p.unacked) /\ BlockOK(p)
  BY <1>1, GoodFacts
<1>6. w \in 0 .. Wnd
  <2>1. p.rcv_wnd \in 0 .. Wnd
    BY <1>5, BlockTypes
  <2> QED BY <2>1, ConstFacts
<1>7. /\ IsTcp(t) /\ Kept(tcp, t) /\ t.segs = tcp.segs /\ t.accepts_pending = tcp.accepts_pending
      /\ t.pcb = [tcp.pcb EXCEPT ![c] = q]
  <2> HIDE DEF w
  <2> QED BY <1>5 DEF IsTcp, Kept
<1> HIDE DEF w
<1>8. /\ q \in Pcbs /\ q.state = p.state /\ q.unsent = p.unsent /\ q.unacked = p.unacked
      /\ q.backlogpend = p.backlogpend /\ q.closepend = p.closepend
  BY <1>5, <1>6 DEF Pcbs
<1> HIDE DEF t, q
<1>9. Only(tcp, t, c) /\ t.pcb[c] = q
  BY <1>1, <1>5, <1>7, <1>8 DEF Only
<1>10. Good(t)
  <2>1. BlockOK(t.pcb[c])
    BY <1>5, <1>8, <1>9 DEF BlockOK
  <2>2. Len(t.pcb[c].unsent) + Len(t.pcb[c].unacked) = Waiting(tcp, c)
    BY <1>5, <1>8, <1>9
  <2>3. t.pcb[c].state = p.state
    BY <1>8, <1>9
  <2> QED BY <1>1, <1>7, <1>9, <2>1, <2>2, <2>3, GoodMove
<1>11. c \in t.used /\ t.pcb[c].state = "CLOSE_WAIT"
  BY <1>1, <1>2, <1>7, <1>8, <1>9 DEF Kept
<1>12. /\ Good(tcp') /\ Only(t, tcp', c) /\ tcp'.used = t.used
       /\ tcp'.active \cup {c} = t.active \cup {c}
       /\ tcp'.pcb[c].state \in {"CLOSE_WAIT", "LAST_ACK"}
  <2>1. CASE Unread(t, c)
    <3>1. tcp' = Unlink(t, c)
      BY <1>3, <2>1 DEF Close, Reset
    <3>2. t.pcb[c].state # "SYN_RCVD"
      BY <1>11
    <3>3. /\ Good(tcp') /\ Only(t, tcp', c) /\ tcp'.used = t.used /\ tcp'.active = t.active \ {c}
          /\ tcp'.pcb[c].state = t.pcb[c].state
      BY <1>10, <1>11, <3>1, <3>2, UnlinkGood
    <3> QED BY <1>11, <3>3
  <2>2. CASE ~Unread(t, c)
    <3>1. tcp' = CloseFin(t, c, mem, ok)
      BY <1>3, <2>2 DEF Close
    <3>2. /\ Good(tcp') /\ Kept(t, tcp') /\ Only(t, tcp', c)
          /\ tcp'.pcb[c].state \in {"CLOSE_WAIT", "LAST_ACK"}
      BY <1>10, <1>11, <3>1, CloseFinGood
    <3> QED BY <3>2 DEF Kept
  <2> QED BY <2>1, <2>2
<1>13. /\ tcp'.used = tcp.used /\ tcp'.used = tcp'.active \cup {c}
       /\ \A d \in tcp.active : d # c => d \in tcp'.active
  BY <1>1, <1>7, <1>12 DEF Kept
<1>14. Closing(tcp') \in BOOLEAN /\ (c \notin tcp'.active => Closing(tcp'))
  <2>1. input.closed \in BOOLEAN
    BY <1>1 DEF Inputs
  <2> QED BY <2>1 DEF Closing
<1>15. /\ input' \in Inputs /\ input'.pcb = c /\ input'.closed = Closing(tcp')
       /\ input'.phase = "done"
  BY <1>1, <1>4, <1>14 DEF Inputs
<1>16. InputOK'
  BY <1>1, <1>13, <1>14, <1>15 DEF InputOK
<1>17. \A d \in tcp'.used : Quiet(tcp'.pcb[d])
  <2>1. \A d \in tcp.used : d # c => tcp'.pcb[d] = tcp.pcb[d]
    BY <1>1, <1>9, <1>12 DEF Only
  <2> QED BY <1>1, <1>12, <1>13, <2>1 DEF Quiet
<1> QED BY <1>12, <1>13, <1>16, <1>17 DEF HInv, Idlers, EstablishedStays

\* tcp_input comes to its end.
LEMMA InputDoneStep ==
  ASSUME HInv, InputDone
  PROVE  HInv' /\ EstablishedStays
<1> DEFINE c == input.pcb
<1>1. /\ Good(tcp) /\ c \in tcp.used /\ c \in Clients
      /\ tcp.used \subseteq Clients /\ tcp.used = tcp.active \cup {c}
      /\ c \notin tcp.active => input.closed
      /\ \A d \in tcp.used : d # c => Quiet(tcp.pcb[d])
  BY BusyFacts DEF InputDone
<1>2. input.phase = "done" /\ input' = NoInput
  BY DEF InputDone
<1>3. PICK ok \in BOOLEAN : tcp' = IF input.closed THEN Remove(tcp, c) ELSE Output(tcp, c, ok)
  BY DEF InputDone
<1>4. CASE input.closed
  <2>1. /\ Good(tcp') /\ Only(tcp, tcp', c)
        /\ tcp'.used = tcp.used \ {c} /\ tcp'.active = tcp.active \ {c}
    BY <1>1, <1>3, <1>4, RemoveGood
  <2>2. tcp'.used = tcp'.active
    BY <1>1, <2>1
  <2>3. \A d \in tcp'.used : Quiet(tcp'.pcb[d])
    BY <1>1, <2>1 DEF Only
  <2>4. HInv'
    BY <1>2, <2>1, <2>2, <2>3, IdleAfter
  <2> QED BY <2>1, <2>4 DEF EstablishedStays
<1>5. CASE ~input.closed
  <2>1. /\ Good(tcp') /\ Kept(tcp, tcp') /\ Only(tcp, tcp', c)
        /\ Quiet(tcp.pcb[c]) => Quiet(tcp'.pcb[c])
    BY <1>1, <1>3, <1>5, OutputGood
  <2>2. Quiet(tcp.pcb[c])
    BY <1>1, <1>2, <1>5 DEF HInv, Idlers
  <2>3. tcp'.used = tcp'.active /\ tcp'.used = tcp.used /\ tcp'.active = tcp.active
    BY <1>1, <1>5, <2>1 DEF Kept
  <2>4. \A d \in tcp'.used : Quiet(tcp'.pcb[d])
    BY <1>1, <2>1, <2>2, <2>3 DEF Only
  <2>5. HInv'
    BY <1>2, <2>1, <2>3, <2>4, IdleAfter
  <2> QED BY <2>3, <2>5 DEF EstablishedStays
<1> QED BY <1>4, <1>5

-----------------------------------------------------------------------------
(* The theorems.                                                           *)

\* Every step keeps the invariant and the established blocks.
LEMMA NextHolds ==
  ASSUME HInv, [Next]_vars
  PROVE  HInv' /\ (Next => EstablishedStays)
<1>1. CASE UNCHANGED vars
  BY <1>1 DEF vars, HInv, InputOK, Idlers, EstablishedStays
<1>2. CASE \E c \in Clients : Syn(c) \/ Rst(c) \/ SynAgain(c) \/ LastAck(c)
  BY <1>2, SynStep, RstStep, SynAgainStep, LastAckStep
<1>3. CASE \E c \in Clients, data \in {"none", "get", "other"}, fin \in BOOLEAN :
             HandshakeAck(c, data, fin) \/ Segment(c, data, fin)
  BY <1>3, HandshakeAckStep, SegmentStep
<1>4. CASE TcpInput
  BY <1>4, HttpRecvStep, HttpRecvCloseStep, HttpRecvEndStep, InputDoneStep DEF TcpInput
<1>5. CASE \E got, delayed \in SUBSET tcp.active : FastTimer(got, delayed)
  BY <1>5, FastTimerStep
<1>6. CASE \E gone, rexmit \in SUBSET tcp.active : SlowTimer(gone, rexmit)
  BY <1>6, SlowTimerStep
<1> QED BY <1>1, <1>2, <1>3, <1>4, <1>5, <1>6 DEF Next

\* The invariant holds always.
LEMMA Invariance == Spec => []HInv
<1>1. HInv /\ [Next]_vars => HInv'
  BY NextHolds
<1> QED BY InitHolds, <1>1, PTL DEF Spec

\* The block that tcp_input works on is allocated until tcp_input is done
\* with it, whatever http_recv closes in between (tcp.c lines 363-371).
THEOREM InputPcbStaysLive == Spec => []InputPcbLive
<1>1. HInv => InputPcbLive
  BY DEF HInv, InputOK, InputPcbLive
<1> QED BY Invariance, <1>1, PTL

\* Control blocks, segments and the backlog are counted exactly, and no
\* control block is lost (tcp_pcb_purge, tcp_input_delayed_close).
THEOREM PoolsStayExact == Spec => []PoolsExact
<1>1. HInv => PoolsExact
  <2> SUFFICES ASSUME HInv PROVE PoolsExact
    OBVIOUS
  <2>1. Good(tcp)
    BY DEF HInv
  <2>2. /\ tcp.pcb \in [Clients -> Pcbs] /\ tcp.used \subseteq Clients
        /\ Cardinality(tcp.used) <= MaxPcbs /\ tcp.active \subseteq Clients
        /\ IsFiniteSet(tcp.used) /\ tcp.segs <= SegPool
        /\ SegsExact /\ tcp.accepts_pending = Cardinality(HalfOpen(tcp))
    BY <2>1 DEF Good, SegsExact
  <2>3. tcp.segs \in Nat /\ Cardinality(tcp.used) \in Nat
    <3>1. \A d \in tcp.used : WaitingOf(tcp)[d] \in Nat
      BY <2>1, <2>2, GoodFacts DEF WaitingOf
    <3>2. \A d \in tcp.used : Waiting(tcp, d) \in Nat
      BY <2>1, <2>2, GoodFacts
    <3>3. tcp.segs = Total(WaitingOf(tcp), tcp.used)
      BY <2>2, <3>2, WaitingTotal DEF SegsExact
    <3>4. Total(WaitingOf(tcp), tcp.used) \in Nat
      BY <2>2, <3>1, TotalFacts
    <3> QED BY <2>2, <3>3, <3>4, FS_CardinalityType
  <2>4. tcp.accepts_pending \in 0 .. MaxPcbs
    <3>1. HalfOpen(tcp) \in SUBSET tcp.used
      BY DEF HalfOpen
    <3>2. /\ IsFiniteSet(HalfOpen(tcp)) /\ Cardinality(HalfOpen(tcp)) <= Cardinality(tcp.used)
      BY <2>2, <3>1, FS_Subset
    <3>3. Cardinality(HalfOpen(tcp)) \in Nat
      BY <3>2, FS_CardinalityType
    <3> QED BY <2>2, <2>3, <3>2, <3>3, ConstFacts
  <2>5. tcp.segs \in 0 .. SegPool
    BY <2>2, <2>3, ConstFacts
  <2>6. TypeOK
    BY <2>2, <2>4, <2>5 DEF HInv, InputOK, Inputs, TypeOK
  <2>7. NoPcbLost
    BY DEF HInv, InputOK, NoPcbLost
  <2>8. BacklogExact
    BY <2>2 DEF BacklogExact, HalfOpen
  <2> QED BY <2>2, <2>6, <2>7, <2>8 DEF PoolsExact
<1> QED BY Invariance, <1>1, PTL

\* Neither a timer nor another client's SYN ends an established connection
\* (tcp.c lines 1838-1891).
THEOREM EstablishedIsKept == Spec => EstablishedKept
<1>1. HInv /\ [Next]_vars =>
        [\A c \in tcp.active :
           (tcp.pcb[c].state = "ESTABLISHED" /\ input.pcb # c) => c \in tcp'.active]_vars
  <2> SUFFICES ASSUME HInv, [Next]_vars, ~UNCHANGED vars PROVE EstablishedStays
    BY DEF EstablishedStays
  <2> QED BY NextHolds
<1> QED BY Invariance, <1>1, PTL DEF Spec, EstablishedKept
===============================================================================
