------------------------------ MODULE HeapProofs ------------------------------
(***************************************************************************)
(* Proofs about the heap, for every size of it and of the header, every    *)
(* smallest block and all requests.                                        *)
(***************************************************************************)
EXTENDS Heap, WellFoundedInduction, TLAPS

(***************************************************************************)
(* The invariants as predicates on a list m, so that they can be followed  *)
(* through the steps inside mem_free and mem_trim.                         *)
(***************************************************************************)
Typed(m) ==
  /\ DOMAIN m \subseteq 0 .. End - 1 /\ 0 \in DOMAIN m
  /\ m \in [DOMAIN m -> [next : 1 .. End, prev : 0 .. End - 1, used : BOOLEAN]]

EndToEnd(m) ==
  \A b \in DOMAIN m :
    /\ b + Hdr <= m[b].next
    /\ m[b].next = End \/ (m[b].next \in DOMAIN m /\ m[m[b].next].prev = b)
    /\ \A c \in DOMAIN m : c <= b \/ m[b].next <= c
    /\ b = 0 => m[b].prev = 0
    /\ b # 0 => m[b].prev \in DOMAIN m /\ m[m[b].prev].next = b

List(m) == Typed(m) /\ EndToEnd(m)

Lowest(m, l) == l \in Unused(m) \cup {End} /\ \A b \in Unused(m) : l <= b

\* Only block b may have a free block before it.
ApartBut(m, b) == \A x \in Unused(m) : m[x].next \in Unused(m) => m[x].next = b

Apart(m) == \A x \in Unused(m) : m[x].next \notin Unused(m)

InUse(m) == {b \in DOMAIN m : m[b].used}

-----------------------------------------------------------------------------
(* Lists.                                                                  *)

\* The constants of the heap.
LEMMA Consts ==
  /\ End \in Nat /\ Hdr \in Nat /\ Hdr > 0 /\ MinSize \in Nat /\ MinSize > 0
  /\ Hdr + MinSize <= End
  /\ \A n \in Sizes : n \in Nat /\ n > 0
BY HeapConstantsOK

\* The fields of a block are addresses within the heap.
LEMMA BlockFields ==
  ASSUME NEW m, Typed(m), NEW b \in DOMAIN m
  PROVE  /\ b \in Nat /\ b < End
         /\ m[b] \in [next : 1 .. End, prev : 0 .. End - 1, used : BOOLEAN]
         /\ m[b].next \in Nat /\ m[b].next <= End /\ m[b].next >= 1
         /\ m[b].prev \in Nat /\ m[b].prev < End
         /\ m[b].used \in BOOLEAN
<1>1. b \in 0 .. End - 1 /\ End \in Nat
  BY Consts DEF Typed
<1>2. m[b] \in [next : 1 .. End, prev : 0 .. End - 1, used : BOOLEAN]
  BY DEF Typed
<1> QED BY <1>1, <1>2

\* Two blocks are apart.
LEMMA Disjoint ==
  ASSUME NEW m, List(m), NEW b \in DOMAIN m, NEW c \in DOMAIN m, c > b
  PROVE  m[b].next <= c /\ m[b].next # End
<1>1. m[b].next <= c
  <2>1. c <= b \/ m[b].next <= c
    BY DEF List, EndToEnd
  <2> QED BY <2>1, BlockFields DEF List
<1>2. c < End
  BY BlockFields DEF List
<1> QED BY <1>1, <1>2, BlockFields, Consts DEF List

\* Marking a block used or free leaves the list as it is.
LEMMA UseFacts ==
  ASSUME NEW m, List(m), NEW b \in DOMAIN m, NEW u \in BOOLEAN
  PROVE  LET M == [m EXCEPT ![b].used = u] IN
         /\ List(M) /\ DOMAIN M = DOMAIN m
         /\ M[b].used = u
         /\ \A x \in DOMAIN m : M[x].next = m[x].next /\ M[x].prev = m[x].prev
         /\ \A x \in DOMAIN m \ {b} : M[x].used = m[x].used
<1> DEFINE M == [m EXCEPT ![b].used = u]
           T == [next : 1 .. End, prev : 0 .. End - 1, used : BOOLEAN]
<1>1. \A x \in DOMAIN m : m[x] \in T
  BY BlockFields DEF List
<1>2. DOMAIN M = DOMAIN m /\ M[b] = [m[b] EXCEPT !.used = u] /\ \A x \in DOMAIN m \ {b} : M[x] = m[x]
  BY DEF List, Typed
<1>3. M[b] \in T /\ M[b].used = u /\ M[b].next = m[b].next /\ M[b].prev = m[b].prev
  BY <1>1, <1>2
<1>4. \A x \in DOMAIN m : M[x].next = m[x].next /\ M[x].prev = m[x].prev
  BY <1>2, <1>3
<1>5. Typed(M)
  <2>1. M = [x \in DOMAIN m |-> M[x]]
    BY <1>2
  <2>2. \A x \in DOMAIN m : M[x] \in T
    BY <1>1, <1>2, <1>3
  <2> HIDE DEF M
  <2> QED BY <1>2, <2>1, <2>2 DEF List, Typed
<1>6. EndToEnd(M)
  <2> HIDE DEF M
  <2> QED BY <1>2, <1>4 DEF List, EndToEnd
<1> QED BY <1>2, <1>3, <1>4, <1>5, <1>6 DEF List

\* The list after Split.
LEMMA SplitFields ==
  ASSUME NEW m, List(m), NEW b \in DOMAIN m, NEW p \in Nat,
         b + Hdr <= p, p + Hdr <= m[b].next
  PROVE  LET M == Split(m, b, p) IN
         /\ DOMAIN M = DOMAIN m \cup {p} /\ p \notin DOMAIN m /\ p # b
         /\ M[b].next = p /\ M[b].prev = m[b].prev /\ M[b].used = m[b].used
         /\ M[p].next = m[b].next /\ M[p].prev = b /\ M[p].used = FALSE
         /\ \A x \in DOMAIN m \ {b} :
              /\ M[x].next = m[x].next /\ M[x].used = m[x].used
              /\ M[x].prev = IF x = m[b].next THEN p ELSE m[x].prev
         /\ Typed(M)
<1> DEFINE M == Split(m, b, p)
           T == [next : 1 .. End, prev : 0 .. End - 1, used : BOOLEAN]
<1>1. /\ b \in Nat /\ m[b].next \in Nat /\ m[b].next <= End /\ p < End /\ p >= 1 /\ b < p
      /\ End \in Nat /\ p < m[b].next
  BY BlockFields, Consts DEF List
<1>2. p \notin DOMAIN m
  <2> SUFFICES ASSUME p \in DOMAIN m PROVE FALSE
    OBVIOUS
  <2> QED BY <1>1, Disjoint
<1>3. \A x \in DOMAIN m : m[x] \in T
  BY BlockFields DEF List
<1>4. /\ DOMAIN M = DOMAIN m \cup {p}
      /\ M[b] = [m[b] EXCEPT !.next = p]
      /\ M[p] = Block(m[b].next, b, FALSE)
      /\ \A x \in DOMAIN m \ {b} :
           M[x] = IF x = m[b].next THEN [m[x] EXCEPT !.prev = p] ELSE m[x]
  BY <1>1, <1>2 DEF Split
<1>5. M[b] \in T /\ M[b].next = p /\ M[b].prev = m[b].prev /\ M[b].used = m[b].used
  <2>1. p \in 1 .. End
    BY <1>1
  <2> HIDE DEF M
  <2> QED BY <2>1, <1>3, <1>4
<1>6. M[p] \in T /\ M[p].next = m[b].next /\ M[p].prev = b /\ M[p].used = FALSE
  <2>1. m[b].next \in 1 .. End /\ b \in 0 .. End - 1
    BY <1>1
  <2> HIDE DEF M
  <2> QED BY <2>1, <1>4 DEF Block
<1>7. \A x \in DOMAIN m \ {b} :
        /\ M[x] \in T /\ M[x].next = m[x].next /\ M[x].used = m[x].used
        /\ M[x].prev = IF x = m[b].next THEN p ELSE m[x].prev
  <2>1. p \in 0 .. End - 1
    BY <1>1
  <2> HIDE DEF M
  <2> SUFFICES ASSUME NEW x \in DOMAIN m \ {b}
               PROVE  /\ M[x] \in T /\ M[x].next = m[x].next /\ M[x].used = m[x].used
                      /\ M[x].prev = IF x = m[b].next THEN p ELSE m[x].prev
    OBVIOUS
  <2>2. CASE x = m[b].next
    BY <2>1, <2>2, <1>3, <1>4
  <2>3. CASE x # m[b].next
    BY <2>3, <1>3, <1>4
  <2> QED BY <2>2, <2>3
<1>8. Typed(M)
  <2>1. M = [x \in DOMAIN M |-> M[x]]
    <3> DEFINE e(x) == CASE x = b -> [m[b] EXCEPT !.next = p]
                         [] x = p -> Block(m[b].next, b, FALSE)
                         [] x \notin {b, p} ->
                              IF x = m[b].next THEN [m[x] EXCEPT !.prev = p] ELSE m[x]
    <3>1. M = [x \in DOMAIN m \cup {p} |-> e(x)]
      BY DEF Split
    <3> HIDE DEF e, M
    <3> QED BY <3>1
  <2>2. DOMAIN M \subseteq 0 .. End - 1 /\ 0 \in DOMAIN M
    BY <1>1, <1>4 DEF List, Typed
  <2> HIDE DEF M
  <2>3. \A x \in DOMAIN M : M[x] \in T
    BY <1>4, <1>5, <1>6, <1>7
  <2> QED BY <2>1, <2>2, <2>3 DEF Typed
<1> QED BY <1>1, <1>2, <1>4, <1>5, <1>6, <1>7, <1>8

\* A block cut in two leaves a list.
LEMMA SplitSound ==
  ASSUME NEW m, List(m), NEW b \in DOMAIN m, NEW p \in Nat,
         b + Hdr <= p, p + Hdr <= m[b].next
  PROVE  List(Split(m, b, p))
<1> DEFINE M == Split(m, b, p)
           n == m[b].next
<1>1. /\ DOMAIN M = DOMAIN m \cup {p} /\ p \notin DOMAIN m /\ p # b
      /\ M[b].next = p /\ M[b].prev = m[b].prev
      /\ M[p].next = n /\ M[p].prev = b
      /\ \A x \in DOMAIN m \ {b} :
           /\ M[x].next = m[x].next
           /\ M[x].prev = IF x = n THEN p ELSE m[x].prev
      /\ Typed(M)
  <2>1. /\ DOMAIN M = DOMAIN m \cup {p} /\ p \notin DOMAIN m /\ p # b
        /\ M[b].next = p /\ M[b].prev = m[b].prev /\ M[b].used = m[b].used
        /\ M[p].next = m[b].next /\ M[p].prev = b /\ M[p].used = FALSE
        /\ \A x \in DOMAIN m \ {b} :
             /\ M[x].next = m[x].next /\ M[x].used = m[x].used
             /\ M[x].prev = IF x = m[b].next THEN p ELSE m[x].prev
        /\ Typed(M)
    BY SplitFields
  <2> HIDE DEF M
  <2> QED BY <2>1
<1>2. /\ b \in Nat /\ n \in Nat /\ b < p /\ p < n /\ n <= End /\ End \in Nat /\ Hdr \in Nat
      /\ Hdr > 0 /\ \A x \in DOMAIN m : x \in Nat /\ m[x].next \in Nat
  BY BlockFields, Consts DEF List
<1>3. EndToEnd(m)
  BY DEF List
<1>4. n = End \/ (n \in DOMAIN m /\ m[n].prev = b /\ n # b)
  BY <1>2, <1>3 DEF EndToEnd
<1>5. \A c \in DOMAIN m : c <= b \/ n <= c
  BY <1>3 DEF EndToEnd
<1> HIDE DEF M, n
<1>6. ASSUME NEW x \in DOMAIN M
      PROVE  x + Hdr <= M[x].next /\ \A c \in DOMAIN M : c <= x \/ M[x].next <= c
  <2>1. CASE x = b
    BY <1>1, <1>2, <1>5, <2>1
  <2>2. CASE x = p
    BY <1>1, <1>2, <1>5, <2>2 DEF n
  <2>3. CASE x \in DOMAIN m \ {b}
    <3>1. M[x].next = m[x].next /\ x + Hdr <= m[x].next
      BY <1>1, <1>3, <2>3 DEF EndToEnd
    <3>2. \A c \in DOMAIN m : c <= x \/ m[x].next <= c
      BY <1>3, <2>3 DEF EndToEnd
    <3>3. p <= x \/ m[x].next <= p
      BY <1>2, <1>5, <2>3, <3>2
    <3> QED BY <1>1, <3>1, <3>2, <3>3
  <2> QED BY <1>1, <1>6, <2>1, <2>2, <2>3
<1>7. ASSUME NEW x \in DOMAIN M
      PROVE  M[x].next = End \/ (M[x].next \in DOMAIN M /\ M[M[x].next].prev = x)
  <2>1. CASE x = b
    BY <1>1, <2>1
  <2>2. CASE x = p
    BY <1>1, <1>4, <2>2
  <2>3. CASE x \in DOMAIN m \ {b} /\ m[x].next # End
    <3>1. M[x].next = m[x].next /\ m[x].next \in DOMAIN m /\ m[m[x].next].prev = x
      BY <1>1, <1>3, <2>3 DEF EndToEnd
    <3>2. m[x].next # n
      BY <1>4, <2>3, <3>1
    <3> QED BY <1>1, <2>3, <3>1, <3>2
  <2>4. CASE x \in DOMAIN m \ {b} /\ m[x].next = End
    BY <1>1, <2>4
  <2> QED BY <1>1, <1>7, <2>1, <2>2, <2>3, <2>4
<1>8. ASSUME NEW x \in DOMAIN M
      PROVE  /\ x = 0 => M[x].prev = 0
             /\ x # 0 => M[x].prev \in DOMAIN M /\ M[M[x].prev].next = x
  <2>1. CASE x = p
    BY <1>1, <1>2, <2>1
  <2>2. CASE x \in DOMAIN m /\ x = n
    BY <1>1, <1>2, <2>2
  <2>3. CASE x \in DOMAIN m /\ x # n
    <3>1. M[x].prev = m[x].prev
      BY <1>1, <2>3
    <3>2. x = 0 => m[x].prev = 0
      BY <1>3, <2>3 DEF EndToEnd
    <3>3. x # 0 => m[x].prev \in DOMAIN m /\ m[m[x].prev].next = x
      BY <1>3, <2>3 DEF EndToEnd
    <3>4. x # 0 => m[x].prev # b
      BY <2>3, <3>3 DEF n
    <3> QED BY <1>1, <3>1, <3>2, <3>3, <3>4
  <2> QED BY <1>1, <1>8, <2>1, <2>2, <2>3
<1>9. EndToEnd(M)
  BY <1>6, <1>7, <1>8 DEF EndToEnd
<1> QED BY <1>1, <1>9 DEF List, M

\* The list after Join.
LEMMA JoinFields ==
  ASSUME NEW m, List(m), NEW b \in DOMAIN m, m[b].next # End
  PROVE  LET M == Join(m, b)
             n == m[b].next IN
         /\ DOMAIN M = DOMAIN m \ {n} /\ n \in DOMAIN m /\ b < n /\ b # n
         /\ M[b].next = m[n].next /\ M[b].prev = m[b].prev /\ M[b].used = m[b].used
         /\ \A x \in DOMAIN m \ {b, n} :
              /\ M[x].next = m[x].next /\ M[x].used = m[x].used
              /\ M[x].prev = IF x = m[n].next THEN b ELSE m[x].prev
         /\ Typed(M)
<1> DEFINE M == Join(m, b)
           n == m[b].next
           T == [next : 1 .. End, prev : 0 .. End - 1, used : BOOLEAN]
<1>1. n \in DOMAIN m /\ m[n].prev = b /\ b + Hdr <= n
  BY DEF List, EndToEnd
<1>2. b \in Nat /\ n \in Nat /\ b < n /\ b < End /\ End \in Nat
  BY <1>1, BlockFields, Consts DEF List
<1>3. \A x \in DOMAIN m : m[x] \in T
  BY BlockFields DEF List
<1>4. /\ DOMAIN M = DOMAIN m \ {n}
      /\ M[b] = [m[b] EXCEPT !.next = m[n].next]
      /\ \A x \in DOMAIN m \ {b, n} :
           M[x] = IF x = m[n].next THEN [m[x] EXCEPT !.prev = b] ELSE m[x]
  BY <1>2 DEF Join
<1>5. M[b] \in T /\ M[b].next = m[n].next /\ M[b].prev = m[b].prev /\ M[b].used = m[b].used
  <2>1. m[n].next \in 1 .. End
    BY <1>1, <1>3
  <2> HIDE DEF M, n
  <2> QED BY <2>1, <1>3, <1>4
<1>6. \A x \in DOMAIN m \ {b, n} :
        /\ M[x] \in T /\ M[x].next = m[x].next /\ M[x].used = m[x].used
        /\ M[x].prev = IF x = m[n].next THEN b ELSE m[x].prev
  <2>1. b \in 0 .. End - 1
    BY <1>2
  <2> HIDE DEF M, n
  <2> SUFFICES ASSUME NEW x \in DOMAIN m \ {b, n}
               PROVE  /\ M[x] \in T /\ M[x].next = m[x].next /\ M[x].used = m[x].used
                      /\ M[x].prev = IF x = m[n].next THEN b ELSE m[x].prev
    OBVIOUS
  <2>2. CASE x = m[n].next
    BY <2>1, <2>2, <1>3, <1>4
  <2>3. CASE x # m[n].next
    BY <2>3, <1>3, <1>4
  <2> QED BY <2>2, <2>3
<1>7. Typed(M)
  <2>1. M = [x \in DOMAIN M |-> M[x]]
    BY DEF Join
  <2>2. DOMAIN M \subseteq 0 .. End - 1 /\ 0 \in DOMAIN M
    BY <1>2, <1>4 DEF List, Typed
  <2> HIDE DEF M, n
  <2>3. \A x \in DOMAIN M : M[x] \in T
    BY <1>4, <1>5, <1>6
  <2> QED BY <2>1, <2>2, <2>3 DEF Typed
<1> QED BY <1>1, <1>2, <1>4, <1>5, <1>6, <1>7

\* The same for the block before b.
LEMMA JoinAt ==
  ASSUME NEW m, List(m), NEW p \in DOMAIN m, NEW b, m[p].next = b, b # End
  PROVE  LET M == Join(m, p) IN
         /\ DOMAIN M = DOMAIN m \ {b} /\ p < b
         /\ M[p].next = m[b].next /\ M[p].used = m[p].used
         /\ \A x \in DOMAIN m \ {p, b} : M[x].next = m[x].next /\ M[x].used = m[x].used
<1> DEFINE M == Join(m, p)
           n == m[p].next
<1>1. /\ DOMAIN M = DOMAIN m \ {n} /\ n \in DOMAIN m /\ p < n /\ p # n
      /\ M[p].next = m[n].next /\ M[p].prev = m[p].prev /\ M[p].used = m[p].used
      /\ \A x \in DOMAIN m \ {p, n} :
           /\ M[x].next = m[x].next /\ M[x].used = m[x].used
           /\ M[x].prev = IF x = m[n].next THEN p ELSE m[x].prev
      /\ Typed(M)
  BY JoinFields
<1>2. n = b
  OBVIOUS
<1> HIDE DEF M, n
<1> QED BY <1>1, <1>2 DEF M, n

\* Two blocks joined leave a list.
LEMMA JoinSound ==
  ASSUME NEW m, List(m), NEW b \in DOMAIN m, m[b].next # End
  PROVE  List(Join(m, b))
<1> DEFINE M == Join(m, b)
           n == m[b].next
           k == m[n].next
<1>1. /\ DOMAIN M = DOMAIN m \ {n} /\ n \in DOMAIN m /\ b < n /\ b # n
      /\ M[b].next = k /\ M[b].prev = m[b].prev
      /\ \A x \in DOMAIN m \ {b, n} :
           M[x].next = m[x].next /\ M[x].prev = IF x = k THEN b ELSE m[x].prev
      /\ Typed(M)
  <2>1. /\ DOMAIN M = DOMAIN m \ {n} /\ n \in DOMAIN m /\ b < n /\ b # n
        /\ M[b].next = m[n].next /\ M[b].prev = m[b].prev /\ M[b].used = m[b].used
        /\ \A x \in DOMAIN m \ {b, n} :
             /\ M[x].next = m[x].next /\ M[x].used = m[x].used
             /\ M[x].prev = IF x = m[n].next THEN b ELSE m[x].prev
        /\ Typed(M)
    BY JoinFields
  <2> HIDE DEF M
  <2> QED BY <2>1
<1>2. /\ b \in Nat /\ n \in Nat /\ k \in Nat /\ End \in Nat /\ Hdr \in Nat /\ Hdr > 0
      /\ \A x \in DOMAIN m : x \in Nat /\ m[x].next \in Nat
  BY <1>1, BlockFields, Consts DEF List
<1>3. EndToEnd(m)
  BY DEF List
<1>4. /\ b + Hdr <= n /\ n + Hdr <= k /\ m[n].prev = b
      /\ k = End \/ (k \in DOMAIN m /\ m[k].prev = n)
      /\ \A c \in DOMAIN m : (c <= b \/ n <= c) /\ (c <= n \/ k <= c)
  BY <1>1, <1>3 DEF EndToEnd
<1> HIDE DEF M
<1>5. ASSUME NEW x \in DOMAIN M
      PROVE  x + Hdr <= M[x].next /\ \A c \in DOMAIN M : c <= x \/ M[x].next <= c
  <2>1. CASE x = b
    <3> HIDE DEF n, k
    <3> QED BY <1>1, <1>2, <1>4, <2>1
  <2>2. CASE x # b
    <3>1. M[x].next = m[x].next /\ x \in DOMAIN m
      BY <1>1, <2>2
    <3> QED BY <1>1, <1>3, <3>1 DEF EndToEnd
  <2> QED BY <2>1, <2>2
<1>6. ASSUME NEW x \in DOMAIN M
      PROVE  M[x].next = End \/ (M[x].next \in DOMAIN M /\ M[M[x].next].prev = x)
  <2>1. CASE x = b
    <3> HIDE DEF n, k
    <3> QED BY <1>1, <1>2, <1>4, <2>1
  <2>2. CASE x # b /\ m[x].next # End
    <3>1. M[x].next = m[x].next /\ x \in DOMAIN m /\ x # n
      BY <1>1, <2>2
    <3>2. m[x].next \in DOMAIN m /\ m[m[x].next].prev = x
      BY <1>3, <2>2, <3>1 DEF EndToEnd
    <3>3. m[x].next # n /\ m[x].next # k
      BY <1>4, <2>2, <3>1, <3>2
    <3> HIDE DEF n, k
    <3> QED BY <1>1, <3>1, <3>2, <3>3
  <2>3. CASE x # b /\ m[x].next = End
    BY <1>1, <2>3
  <2> QED BY <2>1, <2>2, <2>3
<1>7. ASSUME NEW x \in DOMAIN M
      PROVE  /\ x = 0 => M[x].prev = 0
             /\ x # 0 => M[x].prev \in DOMAIN M /\ M[M[x].prev].next = x
  <2>1. x \in DOMAIN m /\ x # n
    BY <1>1
  <2>2. /\ x = 0 => m[x].prev = 0
        /\ x # 0 => m[x].prev \in DOMAIN m /\ m[m[x].prev].next = x
    BY <1>3, <2>1 DEF EndToEnd
  <2>3. CASE x = k
    <3> HIDE DEF n, k
    <3> QED BY <1>1, <1>2, <1>4, <2>1, <2>3
  <2>4. CASE x # k
    <3>1. M[x].prev = m[x].prev
      BY <1>1, <2>1, <2>4
    <3>2. x # 0 => m[x].prev # n /\ m[x].prev # b
      BY <2>1, <2>2, <2>4
    <3> HIDE DEF n, k
    <3> QED BY <1>1, <2>2, <3>1, <3>2
  <2> QED BY <2>3, <2>4
<1>8. EndToEnd(M)
  BY <1>5, <1>6, <1>7 DEF EndToEnd
<1> QED BY <1>1, <1>8 DEF List, M

-----------------------------------------------------------------------------
(* The steps.                                                              *)

\* HeapSound, with the list and lfree apart from the allocations.
LEMMA Parts ==
  HeapSound <=>
    /\ List(mem) /\ Apart(mem) /\ Lowest(mem, lfree)
    /\ DOMAIN asked = InUse(mem) /\ asked \in [DOMAIN asked -> Sizes]
    /\ \A b \in DOMAIN asked : Room(mem, b) >= asked[b]
<1>1. List(mem) /\ Lowest(mem, lfree) => lfree \in 0 .. End
  <2> SUFFICES ASSUME List(mem), Lowest(mem, lfree) PROVE lfree \in 0 .. End
    OBVIOUS
  <2>1. CASE lfree = End
    BY <2>1, Consts
  <2>2. CASE lfree \in Unused(mem)
    BY <2>2, BlockFields, Consts DEF List, Unused
  <2> QED BY <2>1, <2>2 DEF Lowest
<1> QED BY <1>1 DEF HeapSound, TypeOK, Linked, NoTwoFree, LfreeLowest, BigEnough, List,
                  Typed, EndToEnd, Apart, Lowest, InUse, Unused

\* The parts of HeapSound after a step, put together.
LEMMA PartsNext ==
  ASSUME List(mem'), Apart(mem'), Lowest(mem', lfree'),
         DOMAIN asked' = InUse(mem'), asked' \in [DOMAIN asked' -> Sizes],
         \A b \in DOMAIN asked' : Room(mem', b) >= asked'[b]
  PROVE  HeapSound'
<1>1. lfree' \in 0 .. End
  <2>1. CASE lfree' = End
    BY <2>1, Consts
  <2>2. CASE lfree' \in Unused(mem')
    BY <2>2, BlockFields, Consts DEF List, Unused
  <2> QED BY <2>1, <2>2 DEF Lowest
<1> QED BY <1>1 DEF HeapSound, TypeOK, Linked, NoTwoFree, LfreeLowest, BigEnough, List,
                  Typed, EndToEnd, Apart, Lowest, InUse, Unused

\* The heap is sound when it is one free block.
LEMMA InitSound == Init => HeapSound
<1> SUFFICES ASSUME Init PROVE HeapSound
  OBVIOUS
<1> DEFINE B == Block(End, 0, FALSE)
<1>1. /\ DOMAIN mem = {0} /\ mem = [b \in {0} |-> B] /\ mem[0] = B
      /\ B.next = End /\ B.prev = 0 /\ B.used = FALSE
      /\ B \in [next : 1 .. End, prev : 0 .. End - 1, used : BOOLEAN]
  BY Consts DEF Init, Block
<1> HIDE DEF B
<1>2. List(mem)
  BY <1>1, Consts DEF List, Typed, EndToEnd
<1>3. Unused(mem) = {0} /\ InUse(mem) = {} /\ End # 0
  BY <1>1, Consts DEF Unused, InUse
<1>4. Apart(mem) /\ Lowest(mem, lfree)
  <2>1. mem[0].next = End /\ lfree = 0
    BY <1>1 DEF Init
  <2>2. Apart(mem)
    BY <1>3, <2>1 DEF Apart
  <2>3. Lowest(mem, lfree)
    BY <1>3, <2>1 DEF Lowest
  <2> QED BY <2>2, <2>3
<1> QED BY <1>2, <1>3, <1>4, Parts DEF Init

\* mem_malloc.
LEMMA MallocSound ==
  ASSUME HeapSound, NEW n \in Sizes, MemMalloc(n)
  PROVE  HeapSound'
<1> DEFINE s == Aligned(n)
<1>1. s \in Nat /\ s >= n /\ n \in Nat /\ s > 0
  BY Consts DEF Aligned
<1>2. PICK b \in Found(s) :
        /\ mem' = Taken(b, s)
        /\ IF b = lfree THEN lfree' \in NextFree(mem') ELSE lfree' = lfree
        /\ asked' = [x \in DOMAIN asked \cup {b} |-> IF x = b THEN n ELSE asked[x]]
  BY DEF MemMalloc
<1> HIDE DEF s
<1>3. /\ List(mem) /\ Apart(mem) /\ Lowest(mem, lfree)
      /\ DOMAIN asked = InUse(mem) /\ asked \in [DOMAIN asked -> Sizes]
      /\ \A x \in DOMAIN asked : Room(mem, x) >= asked[x]
  BY Parts
<1>4. b \in DOMAIN mem /\ lfree <= b /\ mem[b].used = FALSE /\ mem[b].next - (b + Hdr) >= s
  BY <1>3, BlockFields DEF Found, Fits, Room, List
<1>5. b \in Nat /\ mem[b].next \in Nat /\ End \in Nat /\ Hdr \in Nat /\ Hdr > 0 /\ MinSize \in Nat
  BY <1>3, <1>4, BlockFields, Consts DEF List
\* What both cases come to: b is taken, and no free block but p is new.
<1>6. ASSUME NEW M, List(M), M = mem', b \in DOMAIN M, M[b].used,
             \A x \in DOMAIN mem \ {b} : /\ x \in DOMAIN M /\ M[x].used = mem[x].used
                                         /\ M[x].next = mem[x].next,
             M[b].next - (b + Hdr) >= s,
             \A x \in DOMAIN M \ DOMAIN mem :
               /\ ~M[x].used /\ b < x /\ M[x].next = mem[b].next /\ M[b].next = x
      PROVE  HeapSound'
  <2>1. InUse(M) = InUse(mem) \cup {b}
    BY <1>4, <1>6 DEF InUse
  <2>2. \A x \in Unused(M) : x \in Unused(mem) \ {b} \/ (x \notin DOMAIN mem /\ x \in DOMAIN M)
    BY <1>4, <1>6 DEF Unused
  <2>3. Unused(mem) \ {b} \subseteq Unused(M)
    BY <1>6 DEF Unused
  <2>4. Apart(M)
    <3> SUFFICES ASSUME NEW x \in Unused(M), M[x].next \in Unused(M) PROVE FALSE
      BY DEF Apart
    <3> DEFINE y == M[x].next
    <3>1. \/ y = End
          \/ y \in DOMAIN M /\ M[y].prev = x
      BY <1>6 DEF List, EndToEnd, Unused
    <3>2. y \in DOMAIN M /\ y # End /\ M[y].prev = x
      BY <1>6, <3>1, BlockFields DEF Unused, List
    <3>3. x # b
      BY <1>6 DEF Unused
    <3>4. y \in DOMAIN mem
      <4> SUFFICES ASSUME y \notin DOMAIN mem PROVE FALSE
        OBVIOUS
      <4>1. M[b].next = y
        BY <1>6, <3>2
      <4>2. M[y].prev = b
        BY <1>6, <3>2, <4>1 DEF List, EndToEnd
      <4> QED BY <3>2, <3>3, <4>2
    <3>5. y \in Unused(mem)
      BY <2>2, <3>4
    <3>6. CASE x \in Unused(mem) \ {b}
      <4>1. mem[x].next = y
        BY <1>6, <3>6 DEF Unused
      <4> QED BY <1>3, <3>5, <3>6, <4>1 DEF Apart
    <3>7. CASE x \notin DOMAIN mem
      <4>1. mem[b].next = y
        BY <1>6, <3>7 DEF Unused
      <4>2. b \in Unused(mem)
        BY <1>4 DEF Unused
      <4> QED BY <1>3, <3>5, <4>1, <4>2 DEF Apart
    <3> QED BY <2>2, <3>6, <3>7
  <2>5. \A x \in Unused(M) : lfree <= x
    <3> SUFFICES ASSUME NEW x \in Unused(M) PROVE lfree <= x
      OBVIOUS
    <3>1. lfree \in Nat /\ x \in Nat
      BY <1>3, <1>6, BlockFields, Consts DEF Lowest, Unused, List
    <3>2. CASE x \in Unused(mem)
      BY <1>3, <3>2 DEF Lowest
    <3>3. CASE x \in DOMAIN M \ DOMAIN mem
      BY <1>4, <1>5, <1>6, <3>1, <3>3
    <3> QED BY <2>2, <3>2, <3>3
  <2>6. Lowest(M, lfree')
    <3>1. CASE b = lfree
      BY <1>2, <1>6, <2>5, <3>1 DEF NextFree, Lowest
    <3>2. CASE b # lfree
      BY <1>2, <1>3, <2>3, <2>5, <3>2 DEF Lowest
    <3> QED BY <3>1, <3>2
  <2>7. DOMAIN asked' = InUse(M) /\ asked' \in [DOMAIN asked' -> Sizes]
    BY <1>2, <1>3, <2>1
  <2>8. \A x \in DOMAIN asked' : Room(M, x) >= asked'[x]
    <3> SUFFICES ASSUME NEW x \in DOMAIN asked' PROVE Room(M, x) >= asked'[x]
      OBVIOUS
    <3>1. CASE x = b
      <4>1. asked'[x] = n /\ M[b].next \in Nat
        BY <1>2, <1>6, <3>1, BlockFields DEF List
      <4> QED BY <1>1, <1>5, <1>6, <3>1, <4>1 DEF Room
    <3>2. CASE x # b
      <4>1. x \in DOMAIN asked /\ asked'[x] = asked[x] /\ x \in DOMAIN mem
        BY <1>2, <1>3, <3>2 DEF InUse
      <4>2. M[x].next = mem[x].next
        BY <1>6, <3>2, <4>1
      <4> QED BY <1>3, <4>1, <4>2 DEF Room
    <3> QED BY <3>1, <3>2
  <2> QED BY <1>6, <2>4, <2>6, <2>7, <2>8, PartsNext
<1>7. CASE Room(mem, b) >= s + Hdr + MinSize
  <2> DEFINE p  == b + Hdr + s
             m1 == Split(mem, b, p)
             M  == [m1 EXCEPT ![b].used = TRUE]
  <2>1. p \in Nat /\ b + Hdr <= p /\ p + Hdr <= mem[b].next /\ b < p /\ p - (b + Hdr) >= s
    BY <1>1, <1>5, <1>7 DEF Room
  <2>2. M = mem'
    BY <1>2, <1>7 DEF Taken
  <2> HIDE DEF p
  <2>3. List(m1)
    BY <1>3, <1>4, <2>1, SplitSound
  <2>4. /\ DOMAIN m1 = DOMAIN mem \cup {p} /\ p \notin DOMAIN mem /\ p # b
        /\ m1[b].next = p /\ m1[b].prev = mem[b].prev /\ m1[b].used = mem[b].used
        /\ m1[p].next = mem[b].next /\ m1[p].prev = b /\ m1[p].used = FALSE
        /\ \A x \in DOMAIN mem \ {b} :
             /\ m1[x].next = mem[x].next /\ m1[x].used = mem[x].used
             /\ m1[x].prev = IF x = mem[b].next THEN p ELSE mem[x].prev
        /\ Typed(m1)
    BY <1>3, <1>4, <2>1, SplitFields
  <2> HIDE DEF m1
  <2>5. b \in DOMAIN m1
    BY <1>4, <2>4
  <2>6. /\ List(M) /\ DOMAIN M = DOMAIN m1 /\ M[b].used = TRUE
        /\ \A x \in DOMAIN m1 : M[x].next = m1[x].next /\ M[x].prev = m1[x].prev
        /\ \A x \in DOMAIN m1 \ {b} : M[x].used = m1[x].used
    BY <2>3, <2>5, UseFacts
  <2> HIDE DEF M
  <2> QED BY <1>4, <1>6, <2>1, <2>2, <2>4, <2>5, <2>6
<1>8. CASE ~(Room(mem, b) >= s + Hdr + MinSize)
  <2> DEFINE M == [mem EXCEPT ![b].used = TRUE]
  <2>1. M = mem'
    BY <1>2, <1>8 DEF Taken
  <2>2. /\ List(M) /\ DOMAIN M = DOMAIN mem /\ M[b].used = TRUE
        /\ \A x \in DOMAIN mem : M[x].next = mem[x].next /\ M[x].prev = mem[x].prev
        /\ \A x \in DOMAIN mem \ {b} : M[x].used = mem[x].used
    BY <1>3, <1>4, UseFacts
  <2> HIDE DEF M
  <2> QED BY <1>4, <1>6, <2>1, <2>2
<1> QED BY <1>7, <1>8

\* mem_free, after the block is marked free: joined with the one after it.
LEMMA JoinAfter ==
  ASSUME NEW m, List(m), NEW b \in DOMAIN m, ~m[b].used, NEW l, Lowest(m, l),
         \A x \in Unused(m) : m[x].next \in Unused(m) => x = b \/ m[x].next = b
  PROVE  LET M == IF FreeAfter(m, b) THEN Join(m, b) ELSE m
             L == IF FreeAfter(m, b) THEN Moved(l, m[b].next, b) ELSE l
         IN /\ List(M) /\ Lowest(M, L) /\ ApartBut(M, b) /\ InUse(M) = InUse(m)
            /\ b \in DOMAIN M /\ ~M[b].used
            /\ \A x \in InUse(m) : M[x].next = m[x].next
<1>1. \A x \in DOMAIN m : x \in Nat
  BY BlockFields DEF List
<1>2. CASE ~FreeAfter(m, b)
  <2>1. ApartBut(m, b)
    <3> SUFFICES ASSUME NEW x \in Unused(m), m[x].next \in Unused(m), m[x].next # b
                 PROVE  FALSE
      BY DEF ApartBut
    <3>1. m[b].next \in Unused(m)
      OBVIOUS
    <3>2. m[b].next # End
      BY <3>1, BlockFields DEF List, Unused
    <3> QED BY <1>2, <3>1, <3>2 DEF FreeAfter, Unused
  <2> QED BY <1>2, <2>1
<1>3. CASE FreeAfter(m, b)
  <2> DEFINE n == m[b].next
             M == Join(m, b)
             L == Moved(l, n, b)
  <2>1. n # End /\ ~m[n].used
    BY <1>3 DEF FreeAfter
  <2>2. List(M)
    BY <2>1, JoinSound
  <2>3. /\ DOMAIN M = DOMAIN m \ {n} /\ n \in DOMAIN m /\ b < n /\ b # n
        /\ M[b].next = m[n].next /\ M[b].prev = m[b].prev /\ M[b].used = m[b].used
        /\ \A x \in DOMAIN m \ {b, n} :
             /\ M[x].next = m[x].next /\ M[x].used = m[x].used
             /\ M[x].prev = IF x = m[n].next THEN b ELSE m[x].prev
        /\ Typed(M)
    BY <2>1, JoinFields
  <2> HIDE DEF M, n
  <2>4. Unused(M) = Unused(m) \ {n} /\ InUse(M) = InUse(m)
    BY <2>1, <2>3 DEF Unused, InUse
  <2>5. Lowest(M, L)
    <3>1. l <= b /\ l # n /\ l \in Unused(m) /\ b \in Unused(m)
      <4>1. b \in Unused(m) /\ l <= b
        BY DEF Unused, Lowest
      <4>2. l \in Nat /\ b < End /\ End \in Nat /\ n \in Nat
        BY <1>1, <2>3, BlockFields, Consts DEF Lowest, Unused, List
      <4> QED BY <1>1, <2>3, <4>1, <4>2 DEF Lowest
    <3> QED BY <2>4, <3>1 DEF Lowest, Moved
  <2>6. ApartBut(M, b)
    <3> SUFFICES ASSUME NEW x \in Unused(M), M[x].next \in Unused(M), M[x].next # b
                 PROVE  FALSE
      BY DEF ApartBut
    <3>1. CASE x = b
      <4>1. n \in Unused(m) /\ m[n].next \in Unused(m)
        BY <2>1, <2>3, <2>4, <3>1 DEF Unused
      <4>2. m[n].next # b
        BY <2>3, <3>1
      <4> QED BY <2>3, <4>1, <4>2
    <3>2. CASE x # b
      <4>1. M[x].next = m[x].next /\ x \in Unused(m)
        BY <2>3, <2>4, <3>2 DEF Unused
      <4> QED BY <2>4, <3>2, <4>1
    <3> QED BY <3>1, <3>2
  <2>7. \A x \in InUse(m) : M[x].next = m[x].next
    BY <2>1, <2>3 DEF InUse
  <2> QED BY <1>3, <2>2, <2>3, <2>4, <2>5, <2>6, <2>7 DEF M, n
<1> QED BY <1>2, <1>3

\* ... and with the one before it.
LEMMA JoinBefore ==
  ASSUME NEW m, List(m), NEW b \in DOMAIN m, ~m[b].used, NEW l, Lowest(m, l),
         ApartBut(m, b)
  PROVE  LET p == m[b].prev
             M == IF FreeBefore(m, b) THEN Join(m, p) ELSE m
             L == IF FreeBefore(m, b) THEN Moved(l, b, p) ELSE l
         IN /\ List(M) /\ Lowest(M, L) /\ Apart(M) /\ InUse(M) = InUse(m)
            /\ \A x \in InUse(m) : M[x].next = m[x].next
<1> DEFINE p == m[b].prev
<1>1. \A x \in DOMAIN m : x \in Nat /\ m[x].next \in Nat /\ x < m[x].next /\ x < End
  <2> SUFFICES ASSUME NEW x \in DOMAIN m
               PROVE  x \in Nat /\ m[x].next \in Nat /\ x < m[x].next /\ x < End
    OBVIOUS
  <2>1. x + Hdr <= m[x].next
    BY DEF List, EndToEnd
  <2> QED BY <2>1, BlockFields, Consts DEF List
<1>2. CASE ~FreeBefore(m, b)
  <2>1. Apart(m)
    <3> SUFFICES ASSUME NEW x \in Unused(m), m[x].next \in Unused(m) PROVE FALSE
      BY DEF Apart
    <3>1. m[x].next = b /\ x \in DOMAIN m /\ ~m[x].used
      BY DEF ApartBut, Unused
    <3>2. b # End
      BY <1>1, Consts
    <3>3. p = x
      BY <3>1, <3>2 DEF List, EndToEnd
    <3>4. x # b
      BY <1>1, <3>1
    <3> QED BY <1>2, <3>1, <3>3, <3>4 DEF FreeBefore
  <2> QED BY <1>2, <2>1
<1>3. CASE FreeBefore(m, b)
  <2> DEFINE M == Join(m, p)
             L == Moved(l, b, p)
  <2>1. p # b /\ ~m[p].used
    BY <1>3 DEF FreeBefore
  <2>2. p \in DOMAIN m /\ m[p].next = b
    <3>1. b = 0 => p = 0
      BY DEF List, EndToEnd
    <3> QED BY <2>1, <3>1 DEF List, EndToEnd
  <2>3. m[p].next # End
    BY <1>1, <2>2, Consts
  <2>4. List(M)
    BY <2>2, <2>3, JoinSound
  <2> HIDE DEF p
  <2>6. /\ DOMAIN M = DOMAIN m \ {b} /\ p < b
        /\ M[p].next = m[b].next /\ M[p].used = m[p].used
        /\ \A x \in DOMAIN m \ {p, b} : M[x].next = m[x].next /\ M[x].used = m[x].used
    BY <2>2, <2>3, JoinAt
  <2> HIDE DEF M
  <2>7. Unused(M) = Unused(m) \ {b} /\ InUse(M) = InUse(m)
    BY <2>1, <2>2, <2>6 DEF Unused, InUse
  <2>8. Lowest(M, L)
    <3>1. p \in Unused(m) /\ l <= p
      BY <2>1, <2>2 DEF Unused, Lowest
    <3>2. l \in Nat /\ p \in Nat /\ b \in Nat /\ p < End /\ End \in Nat
      BY <1>1, <2>2, Consts DEF Lowest, Unused
    <3>3. l # b /\ l \in Unused(m)
      BY <2>6, <3>1, <3>2 DEF Lowest
    <3> QED BY <2>7, <3>3 DEF Lowest, Moved
  <2>9. Apart(M)
    <3> SUFFICES ASSUME NEW x \in Unused(M), M[x].next \in Unused(M) PROVE FALSE
      BY DEF Apart
    <3>1. b \in Unused(m)
      BY DEF Unused
    <3>2. CASE x = p
      <4>1. m[b].next \in Unused(m)
        BY <2>6, <2>7, <3>2
      <4>2. m[b].next = b
        BY <3>1, <4>1 DEF ApartBut
      <4> QED BY <1>1, <4>2
    <3>3. CASE x # p
      <4>1. x \in Unused(m) /\ M[x].next = m[x].next
        BY <2>6, <2>7, <3>3 DEF Unused
      <4>2. m[x].next = b
        BY <2>7, <4>1 DEF ApartBut
      <4> QED BY <2>7, <4>1, <4>2
    <3> QED BY <3>2, <3>3
  <2>10. \A x \in InUse(m) : M[x].next = m[x].next
    BY <2>1, <2>6 DEF InUse
  <2> QED BY <1>3, <2>4, <2>7, <2>8, <2>9, <2>10 DEF M, p
<1> QED BY <1>2, <1>3

\* mem_free keeps the heap sound.
LEMMA FreeSound ==
  ASSUME HeapSound, NEW b \in DOMAIN asked, MemFree(b)
  PROVE  HeapSound'
<1> DEFINE m0 == [mem EXCEPT ![b].used = FALSE]
           l0 == IF b < lfree THEN b ELSE lfree
           m1 == IF FreeAfter(m0, b) THEN Join(m0, b) ELSE m0
           l1 == IF FreeAfter(m0, b) THEN Moved(l0, m0[b].next, b) ELSE l0
           p  == m1[b].prev
<1>1. /\ List(mem) /\ Apart(mem) /\ Lowest(mem, lfree)
      /\ DOMAIN asked = InUse(mem) /\ asked \in [DOMAIN asked -> Sizes]
      /\ \A x \in DOMAIN asked : Room(mem, x) >= asked[x]
  BY Parts
<1>2. b \in DOMAIN mem /\ mem[b].used
  BY <1>1 DEF InUse
<1>3. /\ mem'   = IF FreeBefore(m1, b) THEN Join(m1, p) ELSE m1
      /\ lfree' = IF FreeBefore(m1, b) THEN Moved(l1, b, p) ELSE l1
      /\ asked' = [x \in DOMAIN asked \ {b} |-> asked[x]]
  BY DEF MemFree
<1>4. /\ List(m0) /\ DOMAIN m0 = DOMAIN mem /\ m0[b].used = FALSE
      /\ \A x \in DOMAIN mem : m0[x].next = mem[x].next /\ m0[x].prev = mem[x].prev
      /\ \A x \in DOMAIN mem \ {b} : m0[x].used = mem[x].used
  BY <1>1, <1>2, UseFacts
<1> HIDE DEF m0
<1>5. Unused(m0) = Unused(mem) \cup {b} /\ InUse(m0) = InUse(mem) \ {b}
  BY <1>2, <1>4 DEF Unused, InUse
<1>6. Lowest(m0, l0)
  <2>1. b \in Nat /\ End \in Nat /\ b < End /\ \A x \in Unused(mem) : x \in Nat
    BY <1>1, <1>2, BlockFields, Consts DEF List, Unused
  <2>2. lfree \in Nat /\ lfree \in Unused(mem) \cup {End} /\ \A x \in Unused(mem) : lfree <= x
    BY <1>1, <2>1 DEF Lowest
  <2>3. CASE b < lfree
    BY <1>5, <2>1, <2>2, <2>3 DEF Lowest
  <2>4. CASE ~(b < lfree)
    BY <1>5, <2>1, <2>2, <2>4 DEF Lowest
  <2> QED BY <2>3, <2>4
<1>7. \A x \in Unused(m0) : m0[x].next \in Unused(m0) => x = b \/ m0[x].next = b
  BY <1>1, <1>4, <1>5 DEF Apart, Unused
<1> HIDE DEF l0
<1>8. /\ List(m1) /\ Lowest(m1, l1) /\ ApartBut(m1, b) /\ InUse(m1) = InUse(m0)
      /\ b \in DOMAIN m1 /\ ~m1[b].used
      /\ \A x \in InUse(m0) : m1[x].next = m0[x].next
  BY <1>2, <1>4, <1>6, <1>7, JoinAfter
<1> HIDE DEF m1, l1
<1>9. /\ List(mem') /\ Lowest(mem', lfree') /\ Apart(mem') /\ InUse(mem') = InUse(m1)
      /\ \A x \in InUse(m1) : mem'[x].next = m1[x].next
  BY <1>3, <1>8, JoinBefore
<1>10. DOMAIN asked' = InUse(mem') /\ asked' \in [DOMAIN asked' -> Sizes]
  BY <1>1, <1>3, <1>5, <1>8, <1>9
<1>11. ASSUME NEW x \in DOMAIN asked' PROVE Room(mem', x) >= asked'[x]
  <2>1. x \in DOMAIN asked /\ asked'[x] = asked[x] /\ x \in InUse(m0)
    BY <1>1, <1>3, <1>5
  <2>2. mem'[x].next = mem[x].next
    BY <1>1, <1>4, <1>8, <1>9, <2>1 DEF InUse
  <2> QED BY <1>1, <2>1, <2>2 DEF Room
<1> QED BY <1>9, <1>10, <1>11, PartsNext

\* mem_trim: the end of block b becomes a free block at p, in m, where what
\* follows b does not begin free.
LEMMA CutOff ==
  ASSUME HeapSound, NEW b \in DOMAIN asked, NEW n \in Sizes, NEW p \in Nat,
         NEW m, List(m), b \in DOMAIN m,
         b + Hdr <= p, p + Hdr <= m[b].next, p - (b + Hdr) >= n,
         m[b].next \notin Unused(mem),
         \A x \in DOMAIN m : x \in DOMAIN mem /\ m[x].used = mem[x].used,
         \A x \in DOMAIN m \ {b} : m[x].next = mem[x].next,
         InUse(m) = InUse(mem),
         mem' = Split(m, b, p),
         asked' = [asked EXCEPT ![b] = n],
         \A x \in Unused(m) : lfree' <= x,
         lfree' = p \/ (lfree' <= p /\ lfree' \in Unused(m) \cup {End})
  PROVE  HeapSound'
<1> DEFINE M == Split(m, b, p)
<1>1. /\ List(mem) /\ Apart(mem) /\ Lowest(mem, lfree)
      /\ DOMAIN asked = InUse(mem) /\ asked \in [DOMAIN asked -> Sizes]
      /\ \A x \in DOMAIN asked : Room(mem, x) >= asked[x]
  BY Parts
<1>2. /\ DOMAIN M = DOMAIN m \cup {p} /\ p \notin DOMAIN m /\ p # b
      /\ M[b].next = p /\ M[b].prev = m[b].prev /\ M[b].used = m[b].used
      /\ M[p].next = m[b].next /\ M[p].prev = b /\ M[p].used = FALSE
      /\ \A x \in DOMAIN m \ {b} :
           /\ M[x].next = m[x].next /\ M[x].used = m[x].used
           /\ M[x].prev = IF x = m[b].next THEN p ELSE m[x].prev
      /\ Typed(M)
  BY SplitFields
<1>3. List(M)
  BY SplitSound
<1> HIDE DEF M
<1>4. Unused(M) = Unused(m) \cup {p} /\ InUse(M) = InUse(m)
  BY <1>2 DEF Unused, InUse
<1>5. p \in Nat /\ p < m[b].next
  BY BlockFields, Consts DEF List
<1>6. mem[b].used /\ m[b].used
  BY <1>1 DEF InUse
<1>7. Apart(M)
  <2> SUFFICES ASSUME NEW x \in Unused(M), M[x].next \in Unused(M) PROVE FALSE
    BY DEF Apart
  <2>1. CASE x = p
    <3>1. m[b].next \in Unused(M) /\ m[b].next # p
      BY <1>2, <1>5, <2>1
    <3>2. m[b].next \in Unused(m)
      BY <1>4, <3>1
    <3> QED BY <3>2 DEF Unused
  <2>2. CASE x # p
    <3>1. x \in Unused(m) /\ x # b
      BY <1>4, <1>6, <2>2 DEF Unused
    <3>2. M[x].next = mem[x].next
      BY <1>2, <3>1 DEF Unused
    <3>3. M[x].next # p
      <4> SUFFICES ASSUME M[x].next = p PROVE FALSE
        OBVIOUS
      <4>1. p # End /\ x \in DOMAIN M
        BY <1>2, <1>3, BlockFields, Consts DEF List, Unused
      <4>2. M[p].prev = x
        BY <1>3, <4>1 DEF List, EndToEnd
      <4> QED BY <1>2, <3>1, <4>2
    <3>4. M[x].next \in Unused(mem) /\ x \in Unused(mem)
      BY <1>4, <3>1, <3>3 DEF Unused
    <3> QED BY <1>1, <3>2, <3>4 DEF Apart
  <2> QED BY <2>1, <2>2
<1>8. Lowest(M, lfree')
  BY <1>4 DEF Lowest
<1>9. DOMAIN asked' = InUse(M) /\ asked' \in [DOMAIN asked' -> Sizes]
  BY <1>1, <1>4
<1>10. ASSUME NEW x \in DOMAIN asked' PROVE Room(M, x) >= asked'[x]
  <2>1. CASE x = b
    <3>1. asked'[x] = n
      BY <1>1, <2>1
    <3> QED BY <1>2, <2>1, <3>1 DEF Room
  <2>2. CASE x # b
    <3>1. x \in DOMAIN asked /\ asked'[x] = asked[x] /\ x \in DOMAIN m
      BY <1>1, <2>2 DEF InUse
    <3>2. M[x].next = mem[x].next
      BY <1>2, <2>2, <3>1
    <3> QED BY <1>1, <3>1, <3>2 DEF Room
  <2> QED BY <2>1, <2>2
<1>11. M = mem'
  BY DEF M
<1> QED BY <1>3, <1>7, <1>8, <1>9, <1>10, <1>11, PartsNext

\* mem_trim keeps the heap sound.
LEMMA TrimSound ==
  ASSUME HeapSound, NEW b \in DOMAIN asked, NEW n \in Sizes, MemTrim(b, n)
  PROVE  HeapSound'
<1> DEFINE s == Aligned(n)
           p == b + Hdr + s
           k == mem[b].next
<1>1. /\ List(mem) /\ Apart(mem) /\ Lowest(mem, lfree)
      /\ DOMAIN asked = InUse(mem) /\ asked \in [DOMAIN asked -> Sizes]
      /\ \A x \in DOMAIN asked : Room(mem, x) >= asked[x]
  BY Parts
<1>2. s \in Nat /\ s >= n /\ n \in Nat
  BY Consts DEF Aligned
<1>3. /\ s <= Room(mem, b)
      /\ CASE s < Room(mem, b) /\ FreeAfter(mem, b) ->
                /\ mem'   = Split(Join(mem, b), b, p)
                /\ lfree' = Moved(lfree, k, p)
           [] s + Hdr + MinSize <= Room(mem, b) /\ ~FreeAfter(mem, b) ->
                /\ mem'   = Split(mem, b, p)
                /\ lfree' = IF p < lfree THEN p ELSE lfree
           [] OTHER -> UNCHANGED <<mem, lfree>>
      /\ asked' = [asked EXCEPT ![b] = n]
  BY DEF MemTrim
<1> HIDE DEF s
<1>4. b \in DOMAIN mem /\ mem[b].used
  BY <1>1 DEF InUse
<1>5. /\ b \in Nat /\ k \in Nat /\ k <= End /\ End \in Nat /\ Hdr \in Nat /\ Hdr > 0
      /\ MinSize \in Nat /\ \A x \in Unused(mem) : x \in Nat
  BY <1>1, <1>4, BlockFields, Consts DEF List, Unused
<1>6. p \in Nat /\ b + Hdr <= p /\ p - (b + Hdr) >= n /\ b < p /\ (s < Room(mem, b) => p < k)
  BY <1>2, <1>5 DEF Room
<1>7. /\ lfree \in Nat /\ lfree \in Unused(mem) \cup {End}
      /\ \A x \in Unused(mem) : lfree <= x
  BY <1>1, <1>5 DEF Lowest
<1>8. CASE s < Room(mem, b) /\ FreeAfter(mem, b)
  <2> DEFINE m == Join(mem, b)
  <2>1. k # End /\ ~mem[k].used
    BY <1>8 DEF FreeAfter
  <2>2. List(m)
    BY <1>1, <1>4, <2>1, JoinSound
  <2>3. /\ DOMAIN m = DOMAIN mem \ {k} /\ k \in DOMAIN mem /\ b < k /\ b # k
        /\ m[b].next = mem[k].next /\ m[b].prev = mem[b].prev /\ m[b].used = mem[b].used
        /\ \A x \in DOMAIN mem \ {b, k} :
             /\ m[x].next = mem[x].next /\ m[x].used = mem[x].used
             /\ m[x].prev = IF x = mem[k].next THEN b ELSE mem[x].prev
        /\ Typed(m)
    BY <1>1, <1>4, <2>1, JoinFields
  <2>4. mem' = Split(m, b, p) /\ lfree' = Moved(lfree, k, p)
    BY <1>3, <1>8
  <2> HIDE DEF m, k, p
  <2>5. k \in Unused(mem) /\ mem[k].next \notin Unused(mem)
    BY <1>1, <2>1, <2>3 DEF Unused, Apart
  <2>6. k + Hdr <= mem[k].next /\ mem[k].next \in Nat
    BY <1>1, <2>3, BlockFields DEF List, EndToEnd
  <2>7. p + Hdr <= m[b].next
    BY <1>5, <1>6, <1>8, <2>3, <2>6
  <2>8. InUse(m) = InUse(mem) /\ Unused(m) = Unused(mem) \ {k}
    BY <2>1, <2>3 DEF InUse, Unused
  <2>9. \A x \in Unused(m) : k < x \/ x < p
    <3>1. \A c \in DOMAIN mem : c <= b \/ k <= c
      BY <1>1, <1>4 DEF List, EndToEnd, k
    <3> QED BY <1>5, <1>6, <2>3, <2>8, <3>1 DEF Unused
  <2>10. (\A x \in Unused(m) : lfree' <= x) /\ (lfree' = p \/ (lfree' <= p /\ lfree' \in Unused(m)))
    <3>1. lfree <= k
      BY <1>7, <2>5
    <3>2. CASE lfree = k
      <4>1. \A x \in Unused(m) : k <= x /\ x \in Nat
        BY <1>5, <1>7, <2>8, <3>2
      <4>2. lfree' = p
        BY <2>4, <3>2 DEF Moved
      <4> QED BY <1>5, <1>6, <1>8, <2>9, <4>1, <4>2
    <3>3. CASE lfree # k
      <4>1. lfree' = lfree /\ lfree # End
        BY <1>5, <2>1, <2>4, <3>1, <3>3 DEF Moved
      <4>2. lfree \in Unused(m)
        BY <1>7, <2>8, <3>3, <4>1
      <4>3. lfree < p
        BY <1>5, <1>7, <2>9, <3>1, <4>2
      <4> QED BY <1>6, <1>7, <2>8, <4>1, <4>2, <4>3
    <3> QED BY <3>2, <3>3
  <2>11. /\ \A x \in DOMAIN m : x \in DOMAIN mem /\ m[x].used = mem[x].used
         /\ \A x \in DOMAIN m \ {b} : m[x].next = mem[x].next
         /\ b \in DOMAIN m
    BY <1>4, <2>3
  <2> QED BY <1>3, <1>6, <2>2, <2>3, <2>4, <2>5, <2>7, <2>8, <2>10, <2>11, CutOff
<1>9. CASE s + Hdr + MinSize <= Room(mem, b) /\ ~FreeAfter(mem, b)
  <2>1. mem' = Split(mem, b, p) /\ lfree' = IF p < lfree THEN p ELSE lfree
    BY <1>3, <1>9
  <2>2. k \notin Unused(mem)
    <3>1. k \in DOMAIN mem => k # End
      BY <1>1, BlockFields, Consts DEF List
    <3> QED BY <1>9, <3>1 DEF FreeAfter, Unused
  <2>3. p + Hdr <= k
    BY <1>2, <1>5, <1>9 DEF Room
  <2> HIDE DEF p
  <2>4. (\A x \in Unused(mem) : lfree' <= x)
    BY <1>5, <1>6, <1>7, <2>1
  <2>5. lfree' = p \/ (lfree' <= p /\ lfree' \in Unused(mem) \cup {End})
    BY <1>6, <1>7, <2>1
  <2> QED BY <1>1, <1>3, <1>4, <1>6, <2>1, <2>2, <2>3, <2>4, <2>5, CutOff
<1>10. CASE UNCHANGED <<mem, lfree>>
  <2>1. DOMAIN asked' = InUse(mem) /\ asked' \in [DOMAIN asked' -> Sizes]
    BY <1>1, <1>3
  <2>2. ASSUME NEW x \in DOMAIN asked' PROVE Room(mem, x) >= asked'[x]
    <3>1. CASE x = b
      <4>1. asked'[x] = n /\ Room(mem, b) \in Int
        BY <1>1, <1>3, <1>5, <3>1 DEF Room
      <4> QED BY <1>2, <1>3, <3>1, <4>1
    <3>2. CASE x # b
      BY <1>1, <1>3, <2>2, <3>2
    <3> QED BY <3>1, <3>2
  <2> QED BY <1>1, <1>10, <2>1, <2>2, PartsNext
<1> QED BY <1>3, <1>8, <1>9, <1>10

-----------------------------------------------------------------------------
\* Every call keeps the heap sound.
LEMMA NextSound == HeapSound /\ [Next]_vars => HeapSound'
<1> SUFFICES ASSUME HeapSound, [Next]_vars PROVE HeapSound'
  OBVIOUS
<1>1. CASE UNCHANGED vars
  <2>1. mem' = mem /\ lfree' = lfree /\ asked' = asked
    BY <1>1 DEF vars
  <2> QED BY <2>1, Parts, PartsNext
<1> QED BY <1>1, MallocSound, FreeSound, TrimSound DEF Next

(***************************************************************************)
(* The heap is sound after every sequence of mem_malloc, mem_free and      *)
(* mem_trim: no two allocations overlap, neighbours that are free have     *)
(* been joined, lfree is the lowest free block.                            *)
(***************************************************************************)
THEOREM HeapAlwaysSound == Spec => []HeapSound
BY InitSound, NextSound, PTL DEF Spec

(***************************************************************************)
(* mem_malloc's search, from lfree up to the last place the request could  *)
(* have, finds a block if any block is free and big enough.                *)
(***************************************************************************)
THEOREM HeapSearchComplete == Spec => []SearchComplete
<1>1. HeapSound => SearchComplete
  <2> SUFFICES ASSUME HeapSound, NEW n \in Sizes, NEW c \in DOMAIN mem, Fits(c, Aligned(n))
               PROVE  Found(Aligned(n)) # {}
    BY DEF SearchComplete
  <2> DEFINE s == Aligned(n)
             T == {b \in DOMAIN mem : Fits(b, s)}
  <2>1. List(mem) /\ Lowest(mem, lfree)
    BY Parts
  <2>2. T \subseteq Nat /\ T # {} /\ s \in Nat
    BY <2>1, BlockFields, Consts DEF List, Aligned
  <2> HIDE DEF s
  <2>3. PICK b \in T : \A y \in T : <<y, b>> \notin OpToRel(<, Nat)
    BY <2>2, NatLessThanWellFounded, WFMin
  <2>4. \A y \in T : ~(y < b)
    BY <2>2, <2>3 DEF OpToRel
  <2>5. b \in DOMAIN mem /\ ~mem[b].used /\ Room(mem, b) >= s /\ Fits(b, s)
    BY DEF Fits
  <2>6. b < End - s
    <3>1. b \in Nat /\ mem[b].next \in Nat /\ mem[b].next <= End
      BY <2>1, <2>5, BlockFields DEF List
    <3> QED BY <2>2, <2>5, <3>1, Consts DEF Room
  <2>7. lfree <= b
    BY <2>1, <2>5 DEF Lowest, Unused
  <2>8. \A d \in DOMAIN mem : lfree <= d /\ d < b => ~Fits(d, s)
    BY <2>4
  <2>9. b \in Found(s)
    BY <2>5, <2>6, <2>7, <2>8 DEF Found
  <2> QED BY <2>9 DEF s
<1> QED BY <1>1, HeapAlwaysSound, PTL

(***************************************************************************)
(* When everything has been given back, in whatever order, the heap is one *)
(* free block again: it does not fragment for good.                        *)
(***************************************************************************)
THEOREM HeapWholeAgain == Spec => []WholeAgain
<1>1. HeapSound => WholeAgain
  <2> SUFFICES ASSUME HeapSound, DOMAIN asked = {}
               PROVE  mem = [b \in {0} |-> Block(End, 0, FALSE)]
    BY DEF WholeAgain
  <2>1. List(mem) /\ Apart(mem) /\ InUse(mem) = {}
    BY Parts
  <2>2. Unused(mem) = DOMAIN mem /\ 0 \in DOMAIN mem
    BY <2>1 DEF InUse, Unused, List, Typed
  <2>3. mem[0].next = End
    BY <2>1, <2>2 DEF List, EndToEnd, Apart
  <2>4. \A c \in DOMAIN mem : c = 0
    <3>1. \A c \in DOMAIN mem : c <= 0 \/ End <= c
      BY <2>1, <2>2, <2>3 DEF List, EndToEnd
    <3>2. \A c \in DOMAIN mem : c \in Nat /\ c < End
      BY <2>1, BlockFields DEF List
    <3> QED BY <3>1, <3>2, Consts
  <2>5. mem[0].prev = 0 /\ mem[0].used = FALSE
    <3>1. mem[0].used \in BOOLEAN /\ mem[0].prev = 0
      BY <2>1, <2>2, BlockFields DEF List, EndToEnd
    <3> QED BY <2>2, <3>1 DEF Unused
  <2>6. mem[0] = Block(End, 0, FALSE)
    <3>1. mem[0] \in [next : 1 .. End, prev : 0 .. End - 1, used : BOOLEAN]
      BY <2>1, <2>2, BlockFields DEF List
    <3> QED BY <2>3, <2>5, <3>1 DEF Block
  <2>7. mem = [x \in DOMAIN mem |-> mem[x]]
    BY <2>1 DEF List, Typed
  <2>8. DOMAIN mem = {0}
    BY <2>2, <2>4
  <2> QED BY <2>6, <2>7, <2>8
<1> QED BY <1>1, HeapAlwaysSound, PTL
=============================================================================
