---------------------------- MODULE TimeoutsProofs ----------------------------
(***************************************************************************)
(* Proofs about the timers of Timeouts, for every set of cyclic timers,    *)
(* all intervals, every width of the clock and every lateness of the main  *)
(* loop that the width allows.                                             *)
(***************************************************************************)
EXTENDS Timeouts, WellFoundedInduction, SequenceTheorems, TLAPS

-----------------------------------------------------------------------------
(* The clock.                                                              *)

Clock == 0 .. Span - 1

\* The distance of x from n on the clock, and a difference modulo its span.
Dist(x, n) == LET d == (x - n) % Span IN IF d > MaxTimeout THEN d - Span ELSE d

\* The constants, as the proofs use them.
LEMMA Consts ==
  /\ MaxTimeout \in Nat /\ Span \in Nat /\ Span = 2 * MaxTimeout + 2
  /\ MaxLag \in Nat /\ 2 * MaxLag < MaxTimeout
  /\ MaxPcbs \in Nat
  /\ \A h \in Timers : /\ Interval[h] \in Nat /\ Interval[h] >= 1
                       /\ Interval[h] + 2 * MaxLag <= MaxTimeout
  /\ Tcp \in Timers /\ Tcp \notin CyclicSet /\ CyclicSet \subseteq Timers
  /\ "none" \notin Timers
  /\ Cyclic \in Seq(CyclicSet) /\ Len(Cyclic) \in Nat
  /\ PoolSize = Len(Cyclic) + 1
<1>1. Tcp \in Timers /\ CyclicSet \subseteq Timers
  BY DEF Timers
<1>2. \A h \in Timers : Interval[h] \in Nat /\ Interval[h] >= 1
  BY TimeoutsConstantsOK
<1>3. MaxTimeout \in Int /\ Span = 2 * MaxTimeout + 2
  BY TimeoutsConstantsOK, SMT DEF MaxTimeout
<1>4. MaxTimeout \in Nat /\ 2 * MaxLag < MaxTimeout
  BY <1>1, <1>2, <1>3, TimeoutsConstantsOK
<1> QED BY <1>1, <1>2, <1>3, <1>4, TimeoutsConstantsOK

\* The clock has an even span.
LEMMA SpanFacts ==
  MaxTimeout \in Nat /\ MaxTimeout >= 1 /\ Span \in Nat /\ Span = 2 * MaxTimeout + 2
  BY Consts

\* The remainder of what is off by one span at most.
LEMMA Mod ==
  ASSUME NEW k \in 0 .. Span - 1
  PROVE  k % Span = k /\ (k + Span) % Span = k /\ (k - Span) % Span = k
<1>1. Span \in Nat /\ Span > 0 /\ k \in Nat /\ k < Span
  BY SpanFacts
<1>2. k % Span = k
  BY <1>1
<1>3. (k + Span) % Span = k
  BY <1>1, SMT
<1>4. (k - Span) % Span = k
  BY <1>1, SMT
<1> QED BY <1>2, <1>3, <1>4

\* Subtraction on the clock.
LEMMA Minus ==
  ASSUME NEW x \in Clock, NEW n \in Clock
  PROVE  (x - n) % Span = IF x >= n THEN x - n ELSE x - n + Span
<1>1. CASE x >= n
  <2>1. x - n \in 0 .. Span - 1
    BY <1>1, SpanFacts DEF Clock
  <2>2. (x - n) % Span = x - n
    BY <2>1, Mod
  <2> QED BY <1>1, <2>2
<1>2. CASE x < n
  <2> DEFINE k == x - n + Span
  <2>1. k \in 0 .. Span - 1 /\ x - n = k - Span
    BY <1>2, SpanFacts DEF Clock
  <2>2. (k - Span) % Span = k
    BY <2>1, Mod
  <2> HIDE DEF k
  <2>3. (x - n) % Span = k /\ ~(x >= n)
    BY <1>2, <2>1, <2>2 DEF Clock
  <2> QED BY <2>3 DEF k
<1> QED BY <1>1, <1>2 DEF Clock

\* Addition on the clock.
LEMMA Plus ==
  ASSUME NEW x \in Clock, NEW k \in Int, -Span <= k, k <= Span
  PROVE  (x + k) % Span = IF x + k >= Span THEN x + k - Span
                          ELSE IF x + k < 0 THEN x + k + Span ELSE x + k
<1>1. CASE x + k >= Span
  <2> DEFINE j == x + k - Span
  <2>1. j \in 0 .. Span - 1 /\ x + k = j + Span
    BY <1>1, SpanFacts DEF Clock
  <2> HIDE DEF j
  <2>2. (j + Span) % Span = j
    BY <2>1, Mod
  <2>3. (x + k) % Span = j
    BY <2>1, <2>2
  <2> QED BY <1>1, <2>3 DEF j
<1>2. CASE x + k < 0
  <2> DEFINE j == x + k + Span
  <2>1. j \in 0 .. Span - 1 /\ x + k = j - Span
    BY <1>2, SpanFacts DEF Clock
  <2> HIDE DEF j
  <2>2. (j - Span) % Span = j
    BY <2>1, Mod
  <2>3. (x + k) % Span = j /\ ~(x + k >= Span)
    BY <1>2, <2>1, <2>2, SpanFacts DEF Clock
  <2> QED BY <1>2, <2>3 DEF j
<1>3. CASE ~(x + k >= Span) /\ ~(x + k < 0)
  <2>1. x + k \in 0 .. Span - 1
    BY <1>3, SpanFacts DEF Clock
  <2>2. (x + k) % Span = x + k
    BY <2>1, Mod
  <2> QED BY <1>3, <2>2
<1> QED BY <1>1, <1>2, <1>3

\* The signed distance of two times, within half the span.
LEMMA DistFacts ==
  ASSUME NEW x \in Clock, NEW n \in Clock
  PROVE  /\ Dist(x, n) = IF x - n > MaxTimeout THEN x - n - Span
                         ELSE IF x - n < -MaxTimeout - 1 THEN x - n + Span
                         ELSE x - n
         /\ Dist(x, n) \in Int
         /\ -MaxTimeout - 1 <= Dist(x, n) /\ Dist(x, n) <= MaxTimeout
<1> DEFINE d == (x - n) % Span
<1>1. d = IF x >= n THEN x - n ELSE x - n + Span
  BY Minus
<1>2. Dist(x, n) = IF d > MaxTimeout THEN d - Span ELSE d
  BY DEF Dist
<1> HIDE DEF d
<1> QED BY <1>1, <1>2, SpanFacts DEF Clock

\* A time k from n is at distance k.
LEMMA DistPlus ==
  ASSUME NEW n \in Clock, NEW x \in Clock, NEW k \in Int,
         -MaxTimeout - 1 <= Dist(x, n) + k, Dist(x, n) + k <= MaxTimeout,
         -Span <= k, k <= Span
  PROVE  /\ (x + k) % Span \in Clock
         /\ Dist((x + k) % Span, n) = Dist(x, n) + k
<1> DEFINE y == (x + k) % Span
<1>1. y = IF x + k >= Span THEN x + k - Span
          ELSE IF x + k < 0 THEN x + k + Span ELSE x + k
  BY Plus
<1>2. y \in Clock
  BY <1>1, SpanFacts DEF Clock
<1> HIDE DEF y
<1>3. /\ Dist(x, n) = IF x - n > MaxTimeout THEN x - n - Span
                      ELSE IF x - n < -MaxTimeout - 1 THEN x - n + Span ELSE x - n
      /\ Dist(y, n) = IF y - n > MaxTimeout THEN y - n - Span
                      ELSE IF y - n < -MaxTimeout - 1 THEN y - n + Span ELSE y - n
  BY <1>2, DistFacts
<1>4. Dist(y, n) = Dist(x, n) + k
  BY <1>1, <1>2, <1>3, SpanFacts DEF Clock
<1> QED BY <1>2, <1>4 DEF y

\* A tick brings every time one nearer.
LEMMA DistTick ==
  ASSUME NEW n \in Clock, NEW x \in Clock, -MaxTimeout <= Dist(x, n)
  PROVE  /\ (n + 1) % Span \in Clock
         /\ Dist(x, (n + 1) % Span) = Dist(x, n) - 1
<1> DEFINE m == (n + 1) % Span
<1>1. m = IF n + 1 >= Span THEN n + 1 - Span ELSE n + 1
  <2>1. 1 \in Int /\ -Span <= 1 /\ 1 <= Span /\ ~(n + 1 < 0)
    BY SpanFacts DEF Clock
  <2> QED BY <2>1, Plus
<1>2. m \in Clock
  BY <1>1, SpanFacts DEF Clock
<1> HIDE DEF m
<1>3. /\ Dist(x, n) = IF x - n > MaxTimeout THEN x - n - Span
                      ELSE IF x - n < -MaxTimeout - 1 THEN x - n + Span ELSE x - n
      /\ Dist(x, m) = IF x - m > MaxTimeout THEN x - m - Span
                      ELSE IF x - m < -MaxTimeout - 1 THEN x - m + Span ELSE x - m
  BY <1>2, DistFacts
<1>4. Dist(x, m) = Dist(x, n) - 1
  BY <1>1, <1>2, <1>3, SpanFacts DEF Clock
<1> QED BY <1>2, <1>4 DEF m

(***************************************************************************)
(* TIME_LESS_THAN (line 73) compares two times correctly while they are    *)
(* less than half the span apart, wherever the clock wraps.                *)
(***************************************************************************)
LEMMA LessThan ==
  ASSUME NEW n \in Clock, NEW x \in Clock, NEW y \in Clock,
         Dist(x, n) - Dist(y, n) <= MaxTimeout,
         Dist(y, n) - Dist(x, n) <= MaxTimeout
  PROVE  TimeLessThan(x, y) <=> Dist(x, n) < Dist(y, n)
<1> DEFINE d == (x - y) % Span
<1>1. d = IF x >= y THEN x - y ELSE x - y + Span
  BY Minus
<1>2. TimeLessThan(x, y) <=> d > MaxTimeout
  BY DEF TimeLessThan
<1> HIDE DEF d
<1>3. /\ Dist(x, n) = IF x - n > MaxTimeout THEN x - n - Span
                      ELSE IF x - n < -MaxTimeout - 1 THEN x - n + Span ELSE x - n
      /\ Dist(y, n) = IF y - n > MaxTimeout THEN y - n - Span
                      ELSE IF y - n < -MaxTimeout - 1 THEN y - n + Span ELSE y - n
  BY DistFacts
<1> QED BY <1>1, <1>2, <1>3, SpanFacts DEF Clock

-----------------------------------------------------------------------------
(* Lists, as predicates on a list l and a reading n of the clock.          *)

EntrySet == [h : Timers, time : Clock]
Entry(h, time) == [h |-> h, time |-> time]

Elems(l)    == {l[i] : i \in 1 .. Len(l)}
Distinct(l) == \A i, j \in 1 .. Len(l) : l[i].h = l[j].h => i = j
Ordered(l, n) ==
  \A i, j \in 1 .. Len(l) : i < j => Dist(l[i].time, n) <= Dist(l[j].time, n)
Has(l, h) == \E i \in 1 .. Len(l) : l[i].h = h

(***************************************************************************)
(* The inductive invariant.                                                *)
(***************************************************************************)

\* How many entries are in use: what makes the pool suffice.
Count ==
  Len(list) = Len(Cyclic) + (IF active THEN 1 ELSE 0) - (IF handler # "none" THEN 1 ELSE 0)

\* Each timer is in the list or its handler runs, the TCP timer if active.
Present ==
  /\ Distinct(list)
  /\ \A h \in CyclicSet : handler = h \/ Has(list, h)
  /\ active => handler = Tcp \/ Has(list, Tcp)
  /\ ~active => handler # Tcp /\ ~Has(list, Tcp)
  /\ ~Has(list, handler)
  /\ pcbs > 0 => active
  /\ pc = "handler" <=> handler # "none"

\* How far from now a time can be, in terms of how late the loop is.
Times ==
  /\ Ordered(list, now)
  /\ Dist(t0, now) = 0 - lag
  /\ \A e \in Elems(list) :
       /\ 1 - MaxLag - lag <= Dist(e.time, now) /\ Dist(e.time, now) <= Interval[e.h]
       /\ pc = "loop" => 1 - lag <= Dist(e.time, now)
  /\ pc = "handler" => 1 - MaxLag - lag <= Dist(due, now) /\ Dist(due, now) <= -lag

TInv == TypeOK /\ Count /\ Present /\ Times

-----------------------------------------------------------------------------
(* Setting a timeout.                                                      *)

\* A set of naturals has a least member.
LEMMA LeastElement ==
  ASSUME NEW T, T \subseteq Nat, T # {}
  PROVE  \E i \in T : \A j \in T : i <= j
<1>1. PICK i \in T : \A j \in T : <<j, i>> \notin OpToRel(<, Nat)
  BY NatLessThanWellFounded, WFMin
<1>2. \A j \in T : ~(j < i)
  BY <1>1 DEF OpToRel
<1> QED BY <1>2

\* An entry goes before the first that is later.
LEMMA PlaceFacts ==
  ASSUME NEW l, l \in Seq(EntrySet), NEW time
  PROVE  LET p == PlaceFor(l, time) IN
         /\ p \in 1 .. Len(l) + 1
         /\ p <= Len(l) => TimeLessThan(time, l[p].time)
         /\ \A j \in 1 .. p - 1 : ~TimeLessThan(time, l[j].time)
<1> DEFINE T == {i \in 1 .. Len(l) + 1 : i <= Len(l) => TimeLessThan(time, l[i].time)}
<1>1. Len(l) \in Nat
  BY LenProperties
<1>2. Len(l) + 1 \in T /\ T \subseteq Nat
  BY <1>1
<1>3. PICK p \in T : \A j \in T : p <= j
  BY <1>2, LeastElement
<1>4. \A j \in 1 .. p - 1 : ~TimeLessThan(time, l[j].time)
  <2> SUFFICES ASSUME NEW j \in 1 .. p - 1, TimeLessThan(time, l[j].time) PROVE FALSE
    OBVIOUS
  <2>1. j \in T
    BY <1>1
  <2> QED BY <1>1, <1>3, <2>1
<1> QED BY <1>3, <1>4 DEF PlaceFor

\* A list with one entry more.
LEMMA InsertFields ==
  ASSUME NEW l, l \in Seq(EntrySet), NEW e \in EntrySet, NEW p \in 1 .. Len(l) + 1
  PROVE  /\ Insert(l, p, e) \in Seq(EntrySet)
         /\ Len(Insert(l, p, e)) = Len(l) + 1
         /\ \A i \in 1 .. Len(l) + 1 :
              Insert(l, p, e)[i] = IF i < p THEN l[i] ELSE IF i = p THEN e ELSE l[i - 1]
<1> DEFINE a == SubSeq(l, 1, p - 1)
           b == SubSeq(l, p, Len(l))
<1>1. Len(l) \in Nat
  BY LenProperties
<1>2. a \in Seq(EntrySet) /\ Len(a) = p - 1 /\ \A i \in 1 .. p - 1 : a[i] = l[i]
  BY <1>1, SubSeqProperties
<1>3. b \in Seq(EntrySet) /\ Len(b) = Len(l) - p + 1
      /\ \A i \in 1 .. Len(l) - p + 1 : b[i] = l[p + i - 1]
  BY <1>1, SubSeqProperties
<1>4. <<e>> \in Seq(EntrySet) /\ Len(<<e>>) = 1 /\ <<e>>[1] = e
  OBVIOUS
<1> HIDE DEF a, b
<1>5. a \o <<e>> \in Seq(EntrySet) /\ Len(a \o <<e>>) = p
      /\ \A i \in 1 .. p : (a \o <<e>>)[i] = IF i < p THEN l[i] ELSE e
  BY <1>1, <1>2, <1>4
<1>6. Insert(l, p, e) = (a \o <<e>>) \o b
  BY DEF Insert, a, b
<1> DEFINE c == a \o <<e>>
<1>7. c \in Seq(EntrySet) /\ Len(c) = p /\ \A i \in 1 .. p : c[i] = IF i < p THEN l[i] ELSE e
  BY <1>5
<1> HIDE DEF c
<1>8. c \o b \in Seq(EntrySet) /\ Len(c \o b) = Len(l) + 1
      /\ \A i \in 1 .. Len(l) + 1 : (c \o b)[i] = IF i <= p THEN c[i] ELSE b[i - p]
  <2>1. c \in Seq(EntrySet) /\ b \in Seq(EntrySet)
    BY <1>3, <1>7
  <2>2. /\ c \o b \in Seq(EntrySet)
        /\ Len(c \o b) = Len(c) + Len(b)
        /\ \A i \in 1 .. Len(c) + Len(b) :
             (c \o b)[i] = IF i <= Len(c) THEN c[i] ELSE b[i - Len(c)]
    BY <2>1, ConcatProperties, Zenon
  <2> QED BY <1>1, <1>3, <1>7, <2>2
<1>9. \A i \in 1 .. Len(l) + 1 :
        (c \o b)[i] = IF i < p THEN l[i] ELSE IF i = p THEN e ELSE l[i - 1]
  <2> SUFFICES ASSUME NEW i \in 1 .. Len(l) + 1
               PROVE  (c \o b)[i] = IF i < p THEN l[i] ELSE IF i = p THEN e ELSE l[i - 1]
    OBVIOUS
  <2>1. ASSUME i <= p PROVE (c \o b)[i] = IF i < p THEN l[i] ELSE e
    <3>1. i \in 1 .. p /\ (c \o b)[i] = c[i]
      BY <1>1, <1>8, <2>1
    <3>2. c[i] = IF i < p THEN l[i] ELSE e
      BY <1>7, <3>1
    <3> QED BY <3>1, <3>2
  <2>2. ASSUME i > p PROVE (c \o b)[i] = l[i - 1]
    <3>1. b[i - p] = l[i - 1]
      <4>1. i - p \in 1 .. Len(l) - p + 1 /\ p + (i - p) - 1 = i - 1
        BY <1>1, <2>2
      <4> QED BY <1>3, <4>1
    <3>2. (c \o b)[i] = b[i - p]
      BY <1>1, <1>8, <2>2
    <3> QED BY <3>1, <3>2
  <2> DEFINE v == (c \o b)[i]
  <2> HIDE DEF v
  <2>3. i \in Int /\ p \in Int
    BY <1>1
  <2>4. (i <= p => v = IF i < p THEN l[i] ELSE e) /\ (i > p => v = l[i - 1])
    BY <2>1, <2>2, Zenon DEF v
  <2>5. v = IF i < p THEN l[i] ELSE IF i = p THEN e ELSE l[i - 1]
    BY <2>3, <2>4
  <2> QED BY <2>5 DEF v
<1> QED BY <1>6, <1>8, <1>9 DEF c

\* The entries of a list have a handler and a time.
LEMMA ElemsFacts ==
  ASSUME NEW l, l \in Seq(EntrySet), NEW e \in Elems(l)
  PROVE  e \in EntrySet /\ e.h \in Timers /\ e.time \in Clock
<1>1. e \in EntrySet
  BY ElementOfSeq DEF Elems
<1> QED BY <1>1 DEF EntrySet

\* A handler is in the list when an entry has it.
LEMMA HasElems ==
  ASSUME NEW l, NEW h
  PROVE  Has(l, h) <=> \E e \in Elems(l) : e.h = h
  BY DEF Has, Elems

(***************************************************************************)
(* sys_timeout_abs (lines 183-221) puts an entry into a sorted list that   *)
(* has room, whatever lies within half the span of it, and the list stays  *)
(* sorted.                                                                 *)
(***************************************************************************)
LEMMA InsertSound ==
  ASSUME NEW l, l \in Seq(EntrySet), Len(l) < PoolSize, Distinct(l),
         NEW n \in Clock, Ordered(l, n),
         NEW h \in Timers, NEW time \in Clock, ~Has(l, h),
         \A x \in Elems(l) : /\ Dist(x.time, n) - Dist(time, n) <= MaxTimeout
                             /\ Dist(time, n) - Dist(x.time, n) <= MaxTimeout
  PROVE  /\ SysTimeoutAbs(l, time, h) \in Seq(EntrySet)
         /\ Len(SysTimeoutAbs(l, time, h)) = Len(l) + 1
         /\ Elems(SysTimeoutAbs(l, time, h)) = Elems(l) \cup {Entry(h, time)}
         /\ Distinct(SysTimeoutAbs(l, time, h))
         /\ Ordered(SysTimeoutAbs(l, time, h), n)
<1> DEFINE p == PlaceFor(l, time)
           e == Entry(h, time)
           m == Insert(l, p, e)
<1>1. Len(l) \in Nat /\ \A i \in 1 .. Len(l) : l[i] \in EntrySet /\ l[i].time \in Clock
  <2>1. Len(l) \in Nat /\ \A i \in 1 .. Len(l) : l[i] \in EntrySet
    BY LenProperties, ElementOfSeq
  <2> QED BY <2>1 DEF EntrySet
<1>2. p \in 1 .. Len(l) + 1 /\ p \in Int
  <2>1. p \in 1 .. Len(l) + 1
    BY PlaceFacts
  <2> QED BY <1>1, <2>1
<1>3. SysTimeoutAbs(l, time, h) = m
  BY <1>1 DEF SysTimeoutAbs, PoolEmpty, Entry
<1>4. e \in EntrySet /\ e.h = h /\ e.time = time
  BY DEF EntrySet, Entry
<1>5. \A i \in 1 .. Len(l) : TimeLessThan(time, l[i].time) <=> Dist(time, n) < Dist(l[i].time, n)
  BY <1>1, LessThan DEF Elems
<1>6. \A i \in 1 .. Len(l) :
        IF i < p THEN Dist(l[i].time, n) <= Dist(time, n) ELSE Dist(time, n) <= Dist(l[i].time, n)
  <2> SUFFICES ASSUME NEW i \in 1 .. Len(l)
               PROVE  IF i < p THEN Dist(l[i].time, n) <= Dist(time, n)
                      ELSE Dist(time, n) <= Dist(l[i].time, n)
    OBVIOUS
  <2>1. Dist(time, n) \in Int /\ \A j \in 1 .. Len(l) : Dist(l[j].time, n) \in Int
    BY <1>1, DistFacts
  <2>2. CASE i < p
    <3>1. ~TimeLessThan(time, l[i].time)
      BY <1>1, <1>2, <2>2, PlaceFacts
    <3> QED BY <1>5, <2>1, <2>2, <3>1
  <2>3. CASE ~(i < p)
    <3>1. p \in 1 .. Len(l)
      BY <1>1, <1>2, <2>3
    <3>2. TimeLessThan(time, l[p].time)
      BY <3>1, PlaceFacts
    <3>3. Dist(time, n) <= Dist(l[p].time, n)
      BY <1>5, <2>1, <3>1, <3>2
    <3>4. Dist(l[p].time, n) <= Dist(l[i].time, n)
      BY <1>1, <1>2, <2>1, <2>3, <3>1 DEF Ordered
    <3> QED BY <2>1, <2>3, <3>1, <3>3, <3>4
  <2> QED BY <2>2, <2>3
<1> HIDE DEF p, e
<1>7. /\ m \in Seq(EntrySet) /\ Len(m) = Len(l) + 1
      /\ \A i \in 1 .. Len(l) + 1 : m[i] = IF i < p THEN l[i] ELSE IF i = p THEN e ELSE l[i - 1]
  BY <1>2, <1>4, InsertFields
<1> HIDE DEF m
<1>8. /\ \A i \in 1 .. Len(l) + 1 : i < p => i \in 1 .. Len(l) /\ m[i] = l[i]
      /\ m[p] = e
      /\ \A i \in 1 .. Len(l) + 1 : i > p => i - 1 \in 1 .. Len(l) /\ m[i] = l[i - 1]
  <2>1. \A i \in 1 .. Len(l) + 1 : (i < p => i \in 1 .. Len(l)) /\ (i > p => i - 1 \in 1 .. Len(l))
    BY <1>1, <1>2
  <2>2. \A i \in 1 .. Len(l) + 1 : i < p => m[i] = l[i]
    BY <1>7
  <2>3. m[p] = e
    BY <1>2, <1>7
  <2>4. \A i \in 1 .. Len(l) + 1 : i > p => m[i] = l[i - 1]
    BY <1>2, <1>7
  <2> QED BY <2>1, <2>2, <2>3, <2>4
<1>9. Elems(m) = Elems(l) \cup {e}
  <2>1. \A i \in 1 .. Len(m) : m[i] \in Elems(l) \cup {e}
    BY <1>1, <1>2, <1>7, <1>8 DEF Elems
  <2>2. \A j \in 1 .. Len(l) : l[j] \in Elems(m)
    <3> SUFFICES ASSUME NEW j \in 1 .. Len(l) PROVE l[j] \in Elems(m)
      OBVIOUS
    <3>1. CASE j < p
      <4>1. j \in 1 .. Len(m) /\ m[j] = l[j]
        BY <1>1, <1>7, <1>8, <3>1
      <4> QED BY <4>1 DEF Elems
    <3>2. CASE ~(j < p)
      <4>1. j + 1 \in 1 .. Len(l) + 1 /\ j + 1 > p /\ (j + 1) - 1 = j
        BY <1>1, <1>2, <3>2
      <4>2. m[j + 1] = l[j] /\ j + 1 \in 1 .. Len(m)
        BY <1>7, <1>8, <4>1
      <4> QED BY <4>2 DEF Elems
    <3> QED BY <3>1, <3>2
  <2>3. e \in Elems(m)
    BY <1>2, <1>7, <1>8 DEF Elems
  <2> QED BY <2>1, <2>2, <2>3 DEF Elems
<1>10. Distinct(m)
  <2> SUFFICES ASSUME NEW i \in 1 .. Len(l) + 1, NEW j \in 1 .. Len(l) + 1, m[i].h = m[j].h
               PROVE  i = j
    BY <1>7 DEF Distinct
  <2>1. \A k \in 1 .. Len(l) : l[k].h # h
    BY DEF Has
  <2>2. CASE i < p
    BY <1>1, <1>2, <1>4, <1>8, <2>1, <2>2 DEF Distinct
  <2>3. CASE i = p
    BY <1>1, <1>2, <1>4, <1>8, <2>1, <2>3 DEF Distinct
  <2>4. CASE i > p
    <3>1. i - 1 \in 1 .. Len(l) /\ m[i] = l[i - 1]
      BY <1>8, <2>4
    <3>2. CASE j > p
      <4>1. j - 1 \in 1 .. Len(l) /\ m[j] = l[j - 1]
        BY <1>8, <3>2
      <4>2. i - 1 = j - 1
        BY <3>1, <4>1 DEF Distinct
      <4> QED BY <4>2
    <3>3. CASE j = p
      BY <1>4, <1>8, <2>1, <3>1, <3>3
    <3>4. CASE j < p
      <4>1. j \in 1 .. Len(l) /\ m[j] = l[j]
        BY <1>8, <3>4
      <4>2. i - 1 = j
        BY <3>1, <4>1 DEF Distinct
      <4> QED BY <1>2, <2>4, <3>4, <4>2
    <3> QED BY <1>2, <3>2, <3>3, <3>4
  <2> QED BY <1>2, <2>2, <2>3, <2>4
<1>11. Ordered(m, n)
  <2> DEFINE D(k) == Dist(l[k].time, n)
             M(k) == Dist(m[k].time, n)
             d == Dist(time, n)
  <2>1. d \in Int /\ \A k \in 1 .. Len(l) : D(k) \in Int
    BY <1>1, DistFacts
  <2>2. /\ \A k \in 1 .. Len(l) : IF k < p THEN D(k) <= d ELSE d <= D(k)
        /\ \A j, k \in 1 .. Len(l) : j < k => D(j) <= D(k)
    BY <1>6 DEF Ordered
  <2>3. /\ \A k \in 1 .. Len(l) + 1 : k < p => k \in 1 .. Len(l) /\ M(k) = D(k)
        /\ M(p) = d
        /\ \A k \in 1 .. Len(l) + 1 : k > p => k - 1 \in 1 .. Len(l) /\ M(k) = D(k - 1)
    BY <1>4, <1>8
  <2> SUFFICES ASSUME NEW i \in 1 .. Len(l) + 1, NEW j \in 1 .. Len(l) + 1, i < j
               PROVE  M(i) <= M(j)
    BY <1>7 DEF Ordered
  <2> HIDE DEF D, M, d
  <2>4. CASE j < p
    BY <1>1, <1>2, <2>1, <2>2, <2>3, <2>4
  <2>5. CASE j = p
    BY <1>1, <1>2, <2>1, <2>2, <2>3, <2>5
  <2>6. CASE j > p
    <3>1. j - 1 \in 1 .. Len(l) /\ M(j) = D(j - 1) /\ ~(j - 1 < p)
      BY <1>2, <2>3, <2>6
    <3>2. CASE i < p
      BY <1>1, <1>2, <2>1, <2>2, <2>3, <3>1, <3>2
    <3>3. CASE i = p
      BY <2>2, <2>3, <3>1, <3>3
    <3>4. CASE i > p
      <4>1. i - 1 \in 1 .. Len(l) /\ M(i) = D(i - 1) /\ i - 1 < j - 1
        BY <1>1, <2>3, <3>4
      <4> QED BY <2>2, <3>1, <4>1
    <3> QED BY <1>2, <3>2, <3>3, <3>4
  <2> QED BY <1>2, <2>4, <2>5, <2>6
<1> QED BY <1>3, <1>7, <1>9, <1>10, <1>11 DEF e

(***************************************************************************)
(* Taking the head off (sys_check_timeouts, lines 394-398).                *)
(***************************************************************************)
LEMMA TailFacts ==
  ASSUME NEW l, l \in Seq(EntrySet), l # <<>>, Distinct(l), NEW n \in Clock, Ordered(l, n)
  PROVE  /\ Head(l) \in EntrySet /\ Head(l) \in Elems(l)
         /\ Tail(l) \in Seq(EntrySet) /\ Len(Tail(l)) = Len(l) - 1
         /\ Elems(Tail(l)) = Elems(l) \ {Head(l)}
         /\ ~Has(Tail(l), Head(l).h)
         /\ \A x \in Elems(l) : x = Head(l) \/ Dist(Head(l).time, n) <= Dist(x.time, n)
         /\ Distinct(Tail(l)) /\ Ordered(Tail(l), n)
<1>1. Len(l) \in Nat /\ Len(l) >= 1
  BY LenProperties, EmptySeq
<1>2. Head(l) = l[1] /\ l[1] \in EntrySet
  BY <1>1, ElementOfSeq, HeadTailProperties
<1>3. Tail(l) \in Seq(EntrySet) /\ Len(Tail(l)) = Len(l) - 1
      /\ \A i \in 1 .. Len(l) - 1 : Tail(l)[i] = l[i + 1]
  BY HeadTailProperties
<1> DEFINE t == Tail(l)
<1> HIDE DEF t
<1>4. t \in Seq(EntrySet) /\ Len(t) = Len(l) - 1
      /\ \A i \in 1 .. Len(t) : i + 1 \in 1 .. Len(l) /\ t[i] = l[i + 1]
  BY <1>1, <1>3 DEF t
<1>5. ~Has(t, l[1].h) /\ Distinct(t) /\ Ordered(t, n)
  <2>1. ~Has(t, l[1].h)
    BY <1>1, <1>4 DEF Has, Distinct
  <2>2. Distinct(t)
    <3> SUFFICES ASSUME NEW i \in 1 .. Len(t), NEW j \in 1 .. Len(t), t[i].h = t[j].h PROVE i = j
      BY DEF Distinct
    <3>1. i + 1 = j + 1
      BY <1>4 DEF Distinct
    <3> QED BY <3>1
  <2>3. Ordered(t, n)
    <3> SUFFICES ASSUME NEW i \in 1 .. Len(t), NEW j \in 1 .. Len(t), i < j
                 PROVE  Dist(t[i].time, n) <= Dist(t[j].time, n)
      BY DEF Ordered
    <3>1. i + 1 < j + 1 /\ i + 1 \in 1 .. Len(l) /\ j + 1 \in 1 .. Len(l)
          /\ t[i] = l[i + 1] /\ t[j] = l[j + 1]
      BY <1>4
    <3> QED BY <3>1 DEF Ordered
  <2> QED BY <2>1, <2>2, <2>3
<1>6. Elems(t) = Elems(l) \ {l[1]}
  <2>1. \A i \in 1 .. Len(t) : t[i] \in Elems(l) /\ t[i] # l[1]
    BY <1>1, <1>4, <1>5 DEF Elems, Has
  <2>2. \A j \in 1 .. Len(l) : l[j] # l[1] => l[j] \in Elems(t)
    <3> SUFFICES ASSUME NEW j \in 1 .. Len(l), l[j] # l[1] PROVE l[j] \in Elems(t)
      OBVIOUS
    <3>1. j - 1 \in 1 .. Len(t) /\ (j - 1) + 1 = j
      BY <1>1, <1>4
    <3>2. t[j - 1] = l[j]
      BY <1>4, <3>1
    <3> QED BY <3>1, <3>2 DEF Elems
  <2> QED BY <2>1, <2>2 DEF Elems
<1>7. \A x \in Elems(l) : x = l[1] \/ Dist(l[1].time, n) <= Dist(x.time, n)
  <2> SUFFICES ASSUME NEW j \in 1 .. Len(l)
               PROVE  l[j] = l[1] \/ Dist(l[1].time, n) <= Dist(l[j].time, n)
    BY DEF Elems
  <2>1. j = 1 \/ 1 < j
    BY <1>1
  <2> QED BY <1>1, <2>1 DEF Ordered
<1>8. l[1] \in Elems(l)
  BY <1>1 DEF Elems
<1> QED BY <1>2, <1>4, <1>5, <1>6, <1>7, <1>8 DEF t

-----------------------------------------------------------------------------
(* The start.                                                              *)

InitialStep(q, i) == SysTimeoutAbs(q, Interval[Cyclic[i]], Cyclic[i])

\* The loop of sys_timeouts_init reaches every timer.
LEMMA InitialListDef ==
  /\ InitialList[0] = <<>>
  /\ \A i \in 1 .. Len(Cyclic) : InitialList[i] = InitialStep(InitialList[i - 1], i)
<1> DEFINE Upto(k, f) == f = [i \in 0 .. k |-> IF i = 0 THEN <<>> ELSE InitialStep(f[i - 1], i)]
           T == {k \in Nat : ~\E f : Upto(k, f)}
<1>1. T = {}
  <2> SUFFICES ASSUME T # {} PROVE FALSE
    OBVIOUS
  <2>1. PICK k \in T : \A j \in T : k <= j
    BY LeastElement
  <2>2. CASE k = 0
    <3>1. Upto(0, [i \in 0 .. 0 |-> <<>>])
      OBVIOUS
    <3> QED BY <2>1, <2>2, <3>1
  <2>3. CASE k > 0
    <3>1. k \in Nat /\ k - 1 \in Nat /\ k - 1 \notin T
      BY <2>1, <2>3
    <3>2. PICK g : Upto(k - 1, g)
      BY <3>1
    <3> DEFINE f == [i \in 0 .. k |-> IF i < k THEN g[i] ELSE InitialStep(g[k - 1], k)]
    <3>3. ASSUME NEW i \in 0 .. k
          PROVE  f[i] = IF i = 0 THEN <<>> ELSE InitialStep(f[i - 1], i)
      <4>1. CASE i = 0
        <5>1. f[0] = g[0] /\ g[0] = <<>>
          BY <2>3, <3>1, <3>2
        <5> QED BY <4>1, <5>1
      <4>2. CASE i > 0
        <5>1. i \in Int /\ i # 0 /\ i - 1 \in 0 .. k /\ i - 1 < k /\ f[i - 1] = g[i - 1]
          BY <3>1, <4>2
        <5>2. CASE i < k
          <6>1. g[i] = InitialStep(g[i - 1], i)
            BY <3>1, <3>2, <4>2, <5>2
          <6> QED BY <5>1, <5>2, <6>1
        <5>3. CASE i = k
          BY <5>1, <5>3
        <5> QED BY <3>1, <5>2, <5>3
      <4> QED BY <4>1, <4>2
    <3>4. f = [i \in 0 .. k |-> f[i]]
      OBVIOUS
    <3> HIDE DEF f
    <3>5. Upto(k, f)
      BY <3>3, <3>4
    <3> QED BY <2>1, <3>5
  <2> QED BY <2>1, <2>2, <2>3
<1>2. \E f : Upto(Len(Cyclic), f)
  BY <1>1, Consts
<1>3. Upto(Len(Cyclic), InitialList)
  BY <1>2 DEF InitialList, InitialStep
<1> DEFINE f == InitialList
<1>4. Upto(Len(Cyclic), f)
  BY <1>3
<1> HIDE DEF f
<1>5. Len(Cyclic) \in Nat
  BY Consts
<1>6. f[0] = <<>>
  BY <1>4, <1>5
<1>7. \A i \in 1 .. Len(Cyclic) : f[i] = InitialStep(f[i - 1], i)
  BY <1>4, <1>5
<1> QED BY <1>6, <1>7 DEF f

\* An interval and twice the lag are below half the span.
LEMMA IntervalFacts ==
  ASSUME NEW h \in Timers
  PROVE  /\ Interval[h] \in Clock /\ Interval[h] \in Nat /\ Interval[h] >= 1
         /\ Interval[h] + 2 * MaxLag <= MaxTimeout
         /\ Dist(Interval[h], 0) = Interval[h]
         /\ Entry(h, Interval[h]) \in EntrySet
<1>1. Interval[h] \in Nat /\ Interval[h] >= 1 /\ Interval[h] + 2 * MaxLag <= MaxTimeout
  BY Consts
<1>2. Interval[h] \in Clock /\ 0 \in Clock /\ Interval[h] <= MaxTimeout
  BY <1>1, Consts DEF Clock
<1>3. Dist(Interval[h], 0) = Interval[h]
  <2>1. Dist(Interval[h], 0) = IF Interval[h] - 0 > MaxTimeout THEN Interval[h] - 0 - Span
                               ELSE IF Interval[h] - 0 < -MaxTimeout - 1 THEN Interval[h] - 0 + Span
                               ELSE Interval[h] - 0
    BY <1>2, DistFacts
  <2> QED BY <1>1, <1>2, <2>1, SpanFacts
<1> QED BY <1>1, <1>2, <1>3 DEF Entry, EntrySet

\* sys_timeouts_init leaves every cyclic timer in the list, in order.
LEMMA InitialSound ==
  ASSUME NEW i \in 0 .. Len(Cyclic)
  PROVE  LET l == InitialList[i] IN
         /\ l \in Seq(EntrySet) /\ Len(l) = i
         /\ Elems(l) = {Entry(Cyclic[j], Interval[Cyclic[j]]) : j \in 1 .. i}
         /\ Distinct(l) /\ Ordered(l, 0)
<1> DEFINE E(k)  == {Entry(Cyclic[j], Interval[Cyclic[j]]) : j \in 1 .. k}
           Ok(k) == LET l == InitialList[k] IN
                    /\ l \in Seq(EntrySet) /\ Len(l) = k
                    /\ Elems(l) = E(k)
                    /\ Distinct(l) /\ Ordered(l, 0)
           T == {k \in 0 .. Len(Cyclic) : ~Ok(k)}
<1>0. Len(Cyclic) \in Nat
  BY Consts
<1> HIDE DEF Ok, E
<1>1. T = {}
  <2> SUFFICES ASSUME T # {} PROVE FALSE
    OBVIOUS
  <2>0. T \subseteq Nat
    BY <1>0
  <2>1. PICK k \in T : \A j \in T : k <= j
    BY <2>0, LeastElement, Zenon
  <2>2. CASE k = 0
    <3>1. InitialList[0] = <<>>
      BY InitialListDef
    <3>2. Ok(0)
      BY <3>1 DEF Elems, Distinct, Ordered, Ok, E
    <3> QED BY <2>1, <2>2, <3>2
  <2>3. CASE k > 0
    <3> DEFINE l == InitialList[k - 1]
               h == Cyclic[k]
               x == Interval[h]
    <3>1. k \in 1 .. Len(Cyclic) /\ k - 1 \in 0 .. Len(Cyclic) /\ k \in Nat
      BY <2>1, <2>3, <1>0
    <3>2. Ok(k - 1)
      BY <2>1, <3>1
    <3>3. InitialList[k] = SysTimeoutAbs(l, x, h)
      BY <3>1, InitialListDef DEF InitialStep
    <3>4. \A j \in 1 .. Len(Cyclic) : Cyclic[j] \in Timers
      BY Consts, ElementOfSeq DEF CyclicSet
    <3>5. h \in Timers /\ x \in Clock /\ 0 \in Clock /\ Dist(x, 0) \in 1 .. MaxTimeout
      BY <3>1, <3>4, IntervalFacts, Consts DEF Clock
    <3>6. \A y \in Elems(l) : Dist(y.time, 0) \in 1 .. MaxTimeout /\ y.h # h
      <4> SUFFICES ASSUME NEW j \in 1 .. k - 1
                   PROVE  Dist(Interval[Cyclic[j]], 0) \in 1 .. MaxTimeout /\ Cyclic[j] # h
        BY <3>2 DEF Entry, Ok, E
      <4>1. j \in 1 .. Len(Cyclic) /\ j # k
        BY <3>1, Consts
      <4>2. Cyclic[j] # h
        BY <3>1, <4>1, TimeoutsConstantsOK
      <4> QED BY <3>4, <4>1, <4>2, IntervalFacts, Consts
    <3>7. ~Has(l, h)
      BY <3>6, HasElems
    <3>8. \A y \in Elems(l) : /\ Dist(y.time, 0) - Dist(x, 0) <= MaxTimeout
                              /\ Dist(x, 0) - Dist(y.time, 0) <= MaxTimeout
      BY <3>5, <3>6, SpanFacts
    <3>9. l \in Seq(EntrySet) /\ Len(l) = k - 1 /\ Len(l) < PoolSize /\ Distinct(l) /\ Ordered(l, 0)
      BY <3>1, <3>2, Consts DEF Ok
    <3> HIDE DEF l, h, x
    <3>10. /\ SysTimeoutAbs(l, x, h) \in Seq(EntrySet)
           /\ Len(SysTimeoutAbs(l, x, h)) = Len(l) + 1
           /\ Elems(SysTimeoutAbs(l, x, h)) = Elems(l) \cup {Entry(h, x)}
           /\ Distinct(SysTimeoutAbs(l, x, h))
           /\ Ordered(SysTimeoutAbs(l, x, h), 0)
      BY <3>5, <3>7, <3>8, <3>9, InsertSound
    <3>11. E(k) = E(k - 1) \cup {Entry(h, x)}
      <4>1. \A j \in 1 .. k : j \in 1 .. k - 1 \/ j = k
        BY <3>1
      <4>2. \A j \in 1 .. k - 1 : j \in 1 .. k
        BY <3>1
      <4>3. k \in 1 .. k
        BY <3>1
      <4> QED BY <4>1, <4>2, <4>3 DEF h, x, E
    <3>12. Elems(l) = E(k - 1)
      BY <3>2 DEF l, Ok
    <3>13. Ok(k)
      <4>1. Len(l) + 1 = k
        BY <3>1, <3>9
      <4> QED BY <3>3, <3>10, <3>11, <3>12, <4>1 DEF Ok
    <3> QED BY <2>1, <3>13
  <2> QED BY <1>0, <2>1, <2>2, <2>3
<1> QED BY <1>1 DEF Ok, E

\* The invariant holds after sys_timeouts_init.
LEMMA InitTInv ==
  ASSUME Init PROVE TInv
<1> DEFINE N == Len(Cyclic)
<1>1. N \in Nat /\ N \in 0 .. N /\ PoolSize = N + 1
  BY Consts
<1>2. /\ list \in Seq(EntrySet) /\ Len(list) = N
      /\ Elems(list) = {Entry(Cyclic[j], Interval[Cyclic[j]]) : j \in 1 .. N}
      /\ Distinct(list) /\ Ordered(list, 0)
  BY <1>1, InitialSound DEF Init
<1>3. 0 \in Clock /\ Dist(0, 0) = 0
  <2>1. 0 \in Clock
    BY SpanFacts DEF Clock
  <2>2. Dist(0, 0) = IF 0 - 0 > MaxTimeout THEN 0 - 0 - Span
                     ELSE IF 0 - 0 < -MaxTimeout - 1 THEN 0 - 0 + Span ELSE 0 - 0
    BY <2>1, DistFacts
  <2> QED BY <2>1, <2>2, SpanFacts
<1>4. \A j \in 1 .. N : Cyclic[j] \in CyclicSet /\ Cyclic[j] \in Timers
  BY Consts DEF CyclicSet
<1>5. \A e \in Elems(list) : /\ e.h \in CyclicSet
                             /\ 1 <= Dist(e.time, 0) /\ Dist(e.time, 0) <= Interval[e.h]
  <2> SUFFICES ASSUME NEW j \in 1 .. N
               PROVE  /\ Cyclic[j] \in CyclicSet
                      /\ 1 <= Dist(Interval[Cyclic[j]], 0)
                      /\ Dist(Interval[Cyclic[j]], 0) <= Interval[Cyclic[j]]
    BY <1>2 DEF Entry
  <2> QED BY <1>4, IntervalFacts
<1>6. \A h \in CyclicSet : Has(list, h)
  <2> SUFFICES ASSUME NEW j \in 1 .. N PROVE Has(list, Cyclic[j])
    BY DEF CyclicSet
  <2>1. Entry(Cyclic[j], Interval[Cyclic[j]]) \in Elems(list)
    BY <1>2
  <2> QED BY <2>1, HasElems DEF Entry
<1>7. ~Has(list, Tcp) /\ ~Has(list, "none")
  BY <1>5, HasElems, Consts
<1>8. TypeOK
  <2>1. list \in Seq([h : Timers, time : 0 .. Span - 1]) /\ Len(list) <= PoolSize
    BY <1>1, <1>2 DEF EntrySet, Clock
  <2>2. 0 \in 0 .. Span - 1 /\ 0 \in 0 .. MaxPcbs /\ 0 \in 0 .. MaxLag
    BY <1>3, Consts DEF Clock
  <2> QED BY <2>1, <2>2 DEF TypeOK, Init
<1>9. Count
  BY <1>1, <1>2 DEF Count, Init
<1>10. Present
  BY <1>2, <1>6, <1>7, Consts DEF Present, Init
<1>11. Times
  <2>1. \A e \in Elems(list) : Dist(e.time, 0) \in Int
    <3>1. \A e \in Elems(list) : e.time \in Clock
      BY <1>2, ElemsFacts
    <3> QED BY <1>3, <3>1, DistFacts
  <2> QED BY <1>2, <1>3, <1>5, <2>1, Consts DEF Times, Init
<1> QED BY <1>8, <1>9, <1>10, <1>11 DEF TInv

-----------------------------------------------------------------------------
(* Every action preserves the invariant.                                   *)

\* The types, out of the invariant.
LEMMA TypeFacts ==
  ASSUME TInv
  PROVE  /\ now \in Clock /\ due \in Clock /\ t0 \in Clock
         /\ list \in Seq(EntrySet) /\ Len(list) \in Nat
         /\ lag \in Nat /\ lag <= MaxLag
         /\ active \in BOOLEAN /\ pcbs \in Nat /\ handler \in Timers \cup {"none"}
<1>1. TypeOK
  BY DEF TInv
<1>2. list \in Seq(EntrySet) /\ Len(list) \in Nat
  BY <1>1, LenProperties DEF TypeOK, EntrySet, Clock
<1>3. lag \in Nat /\ lag <= MaxLag /\ pcbs \in Nat
  BY <1>1, Consts DEF TypeOK
<1> QED BY <1>1, <1>2, <1>3 DEF TypeOK, Clock

\* Every entry is due between the lag ago and its interval ahead.
LEMMA EntryFacts ==
  ASSUME TInv, NEW e \in Elems(list)
  PROVE  /\ e \in EntrySet /\ e.h \in Timers /\ e.time \in Clock
         /\ Dist(e.time, now) \in Int
         /\ 1 - MaxLag - lag <= Dist(e.time, now) /\ Dist(e.time, now) <= Interval[e.h]
         /\ pc = "loop" => 1 - lag <= Dist(e.time, now)
         /\ Interval[e.h] \in Nat /\ Interval[e.h] + 2 * MaxLag <= MaxTimeout
<1>1. e \in EntrySet /\ e.h \in Timers /\ e.time \in Clock
  BY TypeFacts, ElemsFacts
<1>2. Dist(e.time, now) \in Int
  BY <1>1, TypeFacts, DistFacts
<1>3. Interval[e.h] \in Nat /\ Interval[e.h] + 2 * MaxLag <= MaxTimeout
  BY <1>1, Consts
<1> QED BY <1>1, <1>2, <1>3 DEF TInv, Times

\* No time is away from itself.
LEMMA DistSelf ==
  ASSUME NEW n \in Clock PROVE Dist(n, n) = 0
<1>1. Dist(n, n) = IF n - n > MaxTimeout THEN n - n - Span
                   ELSE IF n - n < -MaxTimeout - 1 THEN n - n + Span ELSE n - n
  BY DistFacts
<1>2. n \in Int /\ n - n = 0
  BY SpanFacts DEF Clock
<1> QED BY <1>1, <1>2, SpanFacts

\* One interval from n on is at the distance of the interval.
LEMMA FromNowOn ==
  ASSUME NEW n \in Clock, NEW h \in Timers
  PROVE  /\ (n + Interval[h]) % Span \in Clock
         /\ Dist((n + Interval[h]) % Span, n) = Interval[h]
<1> DEFINE k == Interval[h]
<1>1. k \in Int /\ 0 <= k /\ k <= MaxTimeout
  BY Consts
<1>2. Dist(n, n) = 0
  BY DistSelf
<1> HIDE DEF k
<1>3. -MaxTimeout - 1 <= Dist(n, n) + k /\ Dist(n, n) + k <= MaxTimeout /\ -Span <= k /\ k <= Span
  BY <1>1, <1>2, SpanFacts
<1>4. (n + k) % Span \in Clock /\ Dist((n + k) % Span, n) = Dist(n, n) + k
  BY <1>1, <1>3, DistPlus
<1> QED BY <1>1, <1>2, <1>4 DEF k

\* A timer that is not in the list is set to a time at most its interval away.
LEMMA SetFacts ==
  ASSUME TInv, NEW h \in Timers, ~Has(list, h), Len(list) <= Len(Cyclic),
         NEW time \in Clock,
         1 - MaxLag - lag <= Dist(time, now), Dist(time, now) <= Interval[h]
  PROVE  LET m == SysTimeoutAbs(list, time, h) IN
         /\ m \in Seq(EntrySet) /\ Len(m) = Len(list) + 1
         /\ Elems(m) = Elems(list) \cup {Entry(h, time)}
         /\ Distinct(m) /\ Ordered(m, now)
         /\ \A g : Has(m, g) <=> Has(list, g) \/ g = h
         /\ \A e \in Elems(m) :
              /\ 1 - MaxLag - lag <= Dist(e.time, now) /\ Dist(e.time, now) <= Interval[e.h]
              /\ pc = "loop" /\ 1 - lag <= Dist(time, now) => 1 - lag <= Dist(e.time, now)
<1> DEFINE m == SysTimeoutAbs(list, time, h)
           d == Dist(time, now)
<1>1. now \in Clock /\ list \in Seq(EntrySet) /\ lag \in Nat /\ lag <= MaxLag
  BY TypeFacts
<1>2. Len(list) < PoolSize
  BY Consts, TypeFacts
<1>3. Distinct(list) /\ Ordered(list, now)
  BY DEF TInv, Present, Times
<1>4. d \in Int /\ 1 - MaxLag - lag <= d /\ d <= Interval[h] /\ Interval[h] \in Nat
      /\ Interval[h] + 2 * MaxLag <= MaxTimeout
      /\ MaxLag \in Nat /\ MaxTimeout \in Nat
  BY <1>1, DistFacts, Consts
<1> HIDE DEF d
<1>5. \A x \in Elems(list) : /\ Dist(x.time, now) - d <= MaxTimeout
                             /\ d - Dist(x.time, now) <= MaxTimeout
  <2> SUFFICES ASSUME NEW x \in Elems(list)
               PROVE  Dist(x.time, now) - d <= MaxTimeout /\ d - Dist(x.time, now) <= MaxTimeout
    OBVIOUS
  <2> DEFINE dx == Dist(x.time, now)
             i  == Interval[h]
             ix == Interval[x.h]
  <2>1. /\ dx \in Int /\ 1 - MaxLag - lag <= dx /\ dx <= ix
        /\ ix \in Nat /\ ix + 2 * MaxLag <= MaxTimeout
    BY EntryFacts
  <2>2. d \in Int /\ 1 - MaxLag - lag <= d /\ d <= i /\ i \in Nat
        /\ i + 2 * MaxLag <= MaxTimeout /\ MaxLag \in Nat /\ MaxTimeout \in Nat
        /\ lag \in Nat /\ lag <= MaxLag
    BY <1>1, <1>4
  <2> HIDE DEF dx, i, ix
  <2>3. dx - d <= MaxTimeout /\ d - dx <= MaxTimeout
    BY ONLY <2>1, <2>2
  <2> QED BY <2>3 DEF dx
<1>6. /\ m \in Seq(EntrySet) /\ Len(m) = Len(list) + 1
      /\ Elems(m) = Elems(list) \cup {Entry(h, time)}
      /\ Distinct(m) /\ Ordered(m, now)
  BY <1>1, <1>2, <1>3, <1>5, InsertSound DEF d
<1> HIDE DEF m
<1>7. \A g : Has(m, g) <=> Has(list, g) \/ g = h
  <2>1. Entry(h, time).h = h
    BY DEF Entry
  <2> QED BY <1>6, <2>1, HasElems
<1>8. ASSUME NEW e \in Elems(m)
      PROVE  /\ 1 - MaxLag - lag <= Dist(e.time, now) /\ Dist(e.time, now) <= Interval[e.h]
             /\ pc = "loop" /\ 1 - lag <= d => 1 - lag <= Dist(e.time, now)
  <2>1. CASE e \in Elems(list)
    BY <2>1, EntryFacts
  <2>2. CASE e = Entry(h, time)
    <3>1. e.h = h /\ Dist(e.time, now) = d
      BY <2>2 DEF Entry, d
    <3> QED BY <1>4, <3>1
  <2> QED BY <1>6, <2>1, <2>2
<1> QED BY <1>6, <1>7, <1>8 DEF m, d

\* tcp_timer_needed adds its timer when there is none.
LEMMA TcpRegStep ==
  ASSUME TInv, TcpReg PROVE TInv'
<1>0. /\ pc = "loop" /\ pcbs' = pcbs + 1 /\ pcbs < MaxPcbs /\ active' = TRUE
      /\ UNCHANGED <<now, due, pc, t0, handler, lag>>
  BY DEF TcpReg
<1>1. TypeOK /\ Count /\ Present /\ Times
  BY DEF TInv
<1>2. handler = "none" /\ pcbs' \in 0 .. MaxPcbs
  BY <1>0, <1>1, Consts, TypeFacts DEF Present
<1>3. CASE active
  <2>1. list' = list /\ active' = active
    BY <1>0, <1>3, TypeFacts DEF TcpReg
  <2>2. TypeOK'
    BY <1>0, <1>1, <1>2, <2>1 DEF TypeOK
  <2>3. Count' /\ Present'
    BY <1>0, <1>1, <1>3, <2>1 DEF Count, Present
  <2>4. Times'
    BY <1>0, <1>1, <2>1 DEF Times
  <2> QED BY <2>2, <2>3, <2>4 DEF TInv
<1>4. CASE ~active
  <2> DEFINE time == (now + Interval[Tcp]) % Span
             m == SysTimeoutAbs(list, time, Tcp)
  <2>1. list' = m
    BY <1>0, <1>4 DEF TcpReg, SysTimeout
  <2>2. Tcp \in Timers /\ time \in Clock /\ Dist(time, now) = Interval[Tcp]
    BY Consts, TypeFacts, FromNowOn
  <2>3. ~Has(list, Tcp) /\ Len(list) = Len(Cyclic) /\ Len(list) <= Len(Cyclic)
    BY <1>1, <1>2, <1>4, Consts DEF Present, Count
  <2>4. /\ Interval[Tcp] \in Nat /\ 1 - MaxLag - lag <= Interval[Tcp]
        /\ 1 - lag <= Interval[Tcp] /\ Interval[Tcp] <= Interval[Tcp]
    BY Consts, TypeFacts
  <2>5. /\ m \in Seq(EntrySet) /\ Len(m) = Len(list) + 1
        /\ Distinct(m) /\ Ordered(m, now)
        /\ \A g : Has(m, g) <=> Has(list, g) \/ g = Tcp
        /\ \A e \in Elems(m) :
              /\ 1 - MaxLag - lag <= Dist(e.time, now) /\ Dist(e.time, now) <= Interval[e.h]
              /\ 1 - lag <= Dist(e.time, now)
    <3> HIDE DEF time
    <3> QED BY <1>0, <2>2, <2>3, <2>4, SetFacts
  <2> HIDE DEF m, time
  <2>6. Len(m) <= PoolSize
    BY <2>3, <2>5, Consts
  <2>7. TypeOK'
    BY <1>0, <1>1, <1>2, <2>1, <2>5, <2>6 DEF TypeOK, EntrySet, Clock
  <2>8. Count'
    BY <1>0, <1>1, <1>2, <1>4, <2>1, <2>5, Consts DEF Count
  <2>9. Present'
    <3>1. ~Has(m, handler)
      BY <1>1, <1>2, <2>5, Consts DEF Present
    <3> QED BY <1>0, <1>1, <1>2, <2>1, <2>5, <3>1 DEF Present
  <2>10. Times'
    BY <1>0, <1>1, <2>1, <2>5 DEF Times
  <2> QED BY <2>7, <2>8, <2>9, <2>10 DEF TInv
<1> QED BY <1>3, <1>4

\* A connection that goes leaves the timer to stop by itself.
LEMMA TcpRmvStep ==
  ASSUME TInv, TcpRmv PROVE TInv'
<1>1. pcbs' \in 0 .. MaxPcbs /\ (pcbs' > 0 => pcbs > 0)
  BY Consts DEF TcpRmv, TInv, TypeOK
<1> QED BY <1>1 DEF TcpRmv, TInv, TypeOK, Count, Present, Times

\* sys_check_timeouts reads the clock.
LEMMA CheckTimeoutsStep ==
  ASSUME TInv, CheckTimeouts PROVE TInv'
<1>0. /\ pc = "loop" /\ t0' = now /\ pc' = "check" /\ lag' = 0
      /\ UNCHANGED <<now, list, due, active, pcbs, handler>>
  BY DEF CheckTimeouts
<1>1. TypeOK /\ Count /\ Present /\ Times
  BY DEF TInv
<1>2. TypeOK'
  <2>1. 0 \in 0 .. MaxLag
    BY Consts
  <2> QED BY <1>0, <1>1, <2>1 DEF TypeOK
<1>3. Count' /\ Present'
  BY <1>0, <1>1 DEF Count, Present
<1>4. Times'
  <2>1. Dist(now, now) = 0
    BY TypeFacts, DistSelf
  <2>2. ASSUME NEW e \in Elems(list)
        PROVE  1 - MaxLag - 0 <= Dist(e.time, now) /\ Dist(e.time, now) <= Interval[e.h]
    BY <1>0, EntryFacts, TypeFacts, Consts
  <2>3. Dist(t0', now') = 0 - lag'
    BY <1>0, <2>1
  <2>4. Ordered(list, now)
    BY <1>1 DEF Times
  <2> QED BY <1>0, <2>2, <2>3, <2>4 DEF Times
<1> QED BY <1>2, <1>3, <1>4 DEF TInv

\* The first entry is due and its handler runs.
LEMMA ExpireStep ==
  ASSUME TInv, Expire PROVE TInv'
<1>0. /\ pc = "check" /\ list # <<>> /\ ~TimeLessThan(t0, Head(list).time)
      /\ list' = Tail(list) /\ due' = Head(list).time /\ handler' = Head(list).h /\ pc' = "handler"
      /\ UNCHANGED <<now, active, pcbs, t0, lag>>
  BY DEF Expire, Expired
<1>1. TypeOK /\ Count /\ Present /\ Times
  BY DEF TInv
<1> DEFINE e == Head(list)
           t == Tail(list)
<1>2. /\ e \in Elems(list)
      /\ t \in Seq(EntrySet) /\ Len(t) = Len(list) - 1
      /\ Elems(t) = Elems(list) \ {e}
      /\ ~Has(t, e.h)
      /\ Distinct(t) /\ Ordered(t, now)
  BY <1>0, <1>1, TypeFacts, TailFacts DEF Present, Times
<1> HIDE DEF t, e
<1>3. /\ e.h \in Timers /\ e.time \in Clock /\ Dist(e.time, now) \in Int
      /\ 1 - MaxLag - lag <= Dist(e.time, now) /\ Dist(e.time, now) <= Interval[e.h]
      /\ Interval[e.h] \in Nat /\ Interval[e.h] + 2 * MaxLag <= MaxTimeout
  BY <1>2, EntryFacts
<1>4. handler = "none" /\ e.h # "none"
  BY <1>0, <1>1, <1>3, Consts DEF Present
<1>5. Dist(e.time, now) <= -lag
  <2>1. Dist(t0, now) = 0 - lag /\ now \in Clock /\ t0 \in Clock /\ lag \in Nat /\ lag <= MaxLag
    BY <1>1, TypeFacts DEF Times
  <2>2. /\ Dist(t0, now) - Dist(e.time, now) <= MaxTimeout
        /\ Dist(e.time, now) - Dist(t0, now) <= MaxTimeout
    BY <1>3, <2>1, Consts
  <2>3. ~(Dist(t0, now) < Dist(e.time, now))
    BY <1>0, <1>3, <2>1, <2>2, LessThan DEF e
  <2> QED BY <1>3, <2>1, <2>3
<1>6. /\ list' = t /\ due' = e.time /\ handler' = e.h
  BY <1>0 DEF e, t
<1>7. TypeOK'
  <2>1. Len(t) <= PoolSize
    BY <1>1, <1>2, TypeFacts, Consts DEF TypeOK
  <2> QED BY <1>0, <1>1, <1>2, <1>3, <1>6, <2>1 DEF TypeOK, EntrySet, Clock
<1>8. Count'
  BY <1>0, <1>1, <1>2, <1>4, <1>6, Consts DEF Count
<1>9. Present'
  <2>1. ASSUME NEW g, Has(list, g) PROVE g = e.h \/ Has(t, g)
    BY <1>2, <2>1, HasElems
  <2>2. ASSUME NEW g, Has(t, g) PROVE Has(list, g)
    BY <1>2, <2>2, HasElems
  <2>3. \A h \in CyclicSet : handler' = h \/ Has(t, h)
    BY <1>1, <1>4, <1>6, <2>1, Consts DEF Present
  <2>4. active => handler' = Tcp \/ Has(t, Tcp)
    BY <1>1, <1>4, <1>6, <2>1, Consts DEF Present
  <2>5. ~active => handler' # Tcp /\ ~Has(t, Tcp)
    <3>1. Has(list, e.h)
      BY <1>2, HasElems
    <3> QED BY <1>1, <1>6, <2>2, <3>1 DEF Present
  <2> QED BY <1>0, <1>1, <1>2, <1>4, <1>6, <2>3, <2>4, <2>5 DEF Present
<1>10. Times'
  <2>1. \A x \in Elems(t) :
          1 - MaxLag - lag <= Dist(x.time, now) /\ Dist(x.time, now) <= Interval[x.h]
    BY <1>2, EntryFacts
  <2>2. Dist(t0, now) = 0 - lag
    BY <1>1 DEF Times
  <2> QED BY <1>0, <1>2, <1>3, <1>5, <1>6, <2>1, <2>2 DEF Times
<1> QED BY <1>7, <1>8, <1>9, <1>10 DEF TInv

\* Nothing is due, and the loop goes on.
LEMMA NoneExpiredStep ==
  ASSUME TInv, NoneExpired PROVE TInv'
<1>0. /\ pc = "check" /\ pc' = "loop" /\ ~Expired
      /\ UNCHANGED <<now, list, due, active, pcbs, t0, handler, lag>>
  BY DEF NoneExpired
<1>1. TypeOK /\ Count /\ Present /\ Times
  BY DEF TInv
<1>2. ASSUME NEW x \in Elems(list) PROVE 1 - lag <= Dist(x.time, now)
  <2> DEFINE e == Head(list)
  <2>1. list # <<>>
    BY DEF Elems
  <2>2. e \in Elems(list) /\ (x = e \/ Dist(e.time, now) <= Dist(x.time, now))
    BY <1>1, <2>1, TypeFacts, TailFacts DEF Present, Times
  <2>3. TimeLessThan(t0, e.time)
    BY <1>0, <2>1 DEF Expired
  <2> HIDE DEF e
  <2>4. Dist(t0, now) = 0 - lag /\ now \in Clock /\ t0 \in Clock /\ lag \in Nat /\ lag <= MaxLag
    BY <1>1, TypeFacts DEF Times
  <2>5. /\ e.time \in Clock /\ Dist(e.time, now) \in Int
        /\ 1 - MaxLag - lag <= Dist(e.time, now) /\ Dist(e.time, now) <= Interval[e.h]
        /\ Interval[e.h] \in Nat /\ Interval[e.h] + 2 * MaxLag <= MaxTimeout
    BY <2>2, EntryFacts
  <2>6. /\ Dist(t0, now) - Dist(e.time, now) <= MaxTimeout
        /\ Dist(e.time, now) - Dist(t0, now) <= MaxTimeout
    BY <2>4, <2>5, Consts
  <2>7. Dist(t0, now) < Dist(e.time, now)
    BY <2>3, <2>4, <2>5, <2>6, LessThan
  <2>8. Dist(x.time, now) \in Int
    BY EntryFacts
  <2> QED BY <2>2, <2>4, <2>5, <2>7, <2>8
<1>3. TypeOK'
  BY <1>0, <1>1 DEF TypeOK
<1>4. Count' /\ Present'
  BY <1>0, <1>1 DEF Count, Present
<1>5. Times'
  BY <1>0, <1>1, <1>2 DEF Times
<1> QED BY <1>3, <1>4, <1>5 DEF TInv

\* lwip_cyclic_timer (lines 237-248): one interval from the due time, or from now.
LEMMA NextDueFacts ==
  ASSUME TInv, pc = "handler", handler # Tcp
  PROVE  /\ handler \in CyclicSet /\ handler \in Timers
         /\ NextDue(handler) \in Clock
         /\ Dist(NextDue(handler), now) =
              IF Dist(due, now) + Interval[handler] < 0 THEN Interval[handler]
              ELSE Dist(due, now) + Interval[handler]
         /\ MaxLag >= 1
         /\ Dist(due, now) \in Int /\ 1 - MaxLag - lag <= Dist(due, now) /\ Dist(due, now) <= -lag
<1> DEFINE I == Interval[handler]
           d == Dist(due, now)
           next == (due + I) % Span
<1>1. handler \in CyclicSet /\ handler \in Timers
  BY TypeFacts DEF TInv, Present, Timers
<1>2. I \in Nat /\ I >= 1 /\ I + 2 * MaxLag <= MaxTimeout /\ MaxLag \in Nat /\ MaxTimeout \in Nat
  BY <1>1, Consts
<1>3. now \in Clock /\ due \in Clock /\ lag \in Nat /\ lag <= MaxLag
  BY TypeFacts
<1>4. d \in Int /\ 1 - MaxLag - lag <= d /\ d <= -lag
  BY <1>3, DistFacts DEF TInv, Times
<1>5. MaxLag >= 1
  BY <1>2, <1>3, <1>4
<1>6. next \in Clock /\ Dist(next, now) = d + I
  <2>1. I \in Int /\ -MaxTimeout - 1 <= d + I /\ d + I <= MaxTimeout /\ -Span <= I /\ I <= Span
    <3> HIDE DEF I, d
    <3> QED BY <1>2, <1>3, <1>4, SpanFacts
  <2> HIDE DEF I
  <2> QED BY <1>3, <2>1, DistPlus
<1>7. Dist(now, now) = 0
  BY <1>3, DistSelf
<1>8. TimeLessThan(next, now) <=> d + I < 0
  <2>1. Dist(next, now) - Dist(now, now) <= MaxTimeout
        /\ Dist(now, now) - Dist(next, now) <= MaxTimeout
    <3> HIDE DEF next, d, I
    <3> QED BY <1>2, <1>3, <1>4, <1>6, <1>7
  <2>2. TimeLessThan(next, now) <=> Dist(next, now) < Dist(now, now)
    <3> HIDE DEF next
    <3> QED BY <1>3, <1>6, <2>1, LessThan
  <2> QED BY <1>6, <1>7, <2>2
<1>9. (now + I) % Span \in Clock /\ Dist((now + I) % Span, now) = I
  BY <1>1, <1>3, FromNowOn
<1>10. NextDue(handler) = IF d + I < 0 THEN (now + I) % Span ELSE next
  BY <1>8 DEF NextDue
<1> QED BY <1>1, <1>4, <1>5, <1>6, <1>9, <1>10

\* A cyclic handler sets its timer again.
LEMMA CyclicTimerStep ==
  ASSUME TInv, CyclicTimer PROVE TInv'
<1>0. /\ pc = "handler" /\ handler # Tcp /\ handler' = "none" /\ pc' = "check"
      /\ list' = SysTimeoutAbs(list, NextDue(handler), handler)
      /\ UNCHANGED <<now, due, active, pcbs, t0, lag>>
  BY DEF CyclicTimer
<1>1. TypeOK /\ Count /\ Present /\ Times
  BY DEF TInv
<1> DEFINE time == NextDue(handler)
           m == SysTimeoutAbs(list, time, handler)
<1>2. /\ handler \in CyclicSet /\ handler \in Timers /\ time \in Clock
      /\ 1 - MaxLag - lag <= Dist(time, now) /\ Dist(time, now) <= Interval[handler]
  <2> DEFINE D == Dist(time, now)
             d == Dist(due, now)
             I == Interval[handler]
  <2>1. /\ handler \in CyclicSet /\ handler \in Timers /\ time \in Clock
        /\ D = IF d + I < 0 THEN I ELSE d + I
        /\ MaxLag >= 1 /\ d \in Int /\ d <= -lag
    BY <1>0, NextDueFacts
  <2>2. I \in Nat /\ lag \in Nat /\ MaxLag \in Nat
    BY <2>1, Consts, TypeFacts
  <2> HIDE DEF D, d, I
  <2>3. 1 - MaxLag - lag <= D /\ D <= I
    BY <2>1, <2>2
  <2> QED BY <2>1, <2>3 DEF D, I
<1>3. ~Has(list, handler) /\ handler # "none"
  BY <1>1, <1>2, Consts DEF Present
<1>4. Len(list) = Len(Cyclic) + (IF active THEN 1 ELSE 0) - 1 /\ Len(list) <= Len(Cyclic)
  BY <1>1, <1>3, Consts, TypeFacts DEF Count
<1>5. /\ m \in Seq(EntrySet) /\ Len(m) = Len(list) + 1
      /\ Distinct(m) /\ Ordered(m, now)
      /\ \A g : Has(m, g) <=> Has(list, g) \/ g = handler
      /\ \A e \in Elems(m) :
           1 - MaxLag - lag <= Dist(e.time, now) /\ Dist(e.time, now) <= Interval[e.h]
  <2> HIDE DEF time
  <2> QED BY <1>2, <1>3, <1>4, SetFacts
<1>6. list' = m
  BY <1>0
<1> HIDE DEF m, time
<1>7. TypeOK'
  <2>1. Len(m) <= PoolSize
    BY <1>4, <1>5, Consts
  <2> QED BY <1>0, <1>1, <1>5, <1>6, <2>1 DEF TypeOK, EntrySet, Clock
<1>8. Count'
  BY <1>0, <1>4, <1>5, <1>6, Consts DEF Count
<1>9. Present'
  <2>1. ~Has(m, "none")
    <3>1. \A e \in Elems(m) : e.h # "none"
      BY <1>5, ElemsFacts, Consts
    <3> QED BY <3>1, HasElems
  <2>2. \A h \in CyclicSet : Has(m, h)
    BY <1>1, <1>5 DEF Present
  <2>3. IF active THEN Has(m, Tcp) ELSE ~Has(m, Tcp)
    BY <1>0, <1>1, <1>5 DEF Present
  <2>4. active' = active /\ pcbs' = pcbs /\ (pcbs > 0 => active) /\ "none" # Tcp
    BY <1>0, <1>1, Consts DEF Present
  <2> QED BY <1>0, <1>5, <1>6, <2>1, <2>2, <2>3, <2>4 DEF Present
<1>10. Times'
  <2>1. Dist(t0, now) = 0 - lag
    BY <1>1 DEF Times
  <2> QED BY <1>0, <1>5, <1>6, <2>1 DEF Times
<1> QED BY <1>7, <1>8, <1>9, <1>10 DEF TInv

\* The TCP handler sets its timer again, or stops.
LEMMA TcpipTcpTimerStep ==
  ASSUME TInv, TcpipTcpTimer PROVE TInv'
<1>0. /\ pc = "handler" /\ handler = Tcp /\ handler' = "none" /\ pc' = "check"
      /\ pcbs' \in 0 .. pcbs
      /\ UNCHANGED <<now, due, t0, lag>>
  BY DEF TcpipTcpTimer
<1>1. TypeOK /\ Count /\ Present /\ Times
  BY DEF TInv
<1>2. active /\ ~Has(list, Tcp) /\ "none" # Tcp /\ Tcp \in Timers
  BY <1>0, <1>1, Consts DEF Present
<1>3. Len(list) = Len(Cyclic) /\ Len(list) <= Len(Cyclic)
  BY <1>0, <1>1, <1>2, Consts DEF Count
<1>4. pcbs' \in 0 .. MaxPcbs
  BY <1>0, <1>1, Consts DEF TypeOK
<1>5. ASSUME NEW m, m \in Seq(EntrySet) PROVE ~Has(m, "none")
  <2>1. \A e \in Elems(m) : e.h # "none"
    BY <1>5, ElemsFacts, Consts
  <2> QED BY <2>1, HasElems
<1>6. CASE pcbs' > 0
  <2> DEFINE time == (now + Interval[Tcp]) % Span
             m == SysTimeoutAbs(list, time, Tcp)
  <2>1. list' = m /\ active' = active
    BY <1>0, <1>6 DEF TcpipTcpTimer, SysTimeout
  <2>2. time \in Clock /\ Dist(time, now) = Interval[Tcp]
    BY Consts, TypeFacts, FromNowOn
  <2>3. /\ Interval[Tcp] \in Nat /\ 1 - MaxLag - lag <= Interval[Tcp]
        /\ Interval[Tcp] <= Interval[Tcp]
    BY Consts, TypeFacts
  <2>4. /\ m \in Seq(EntrySet) /\ Len(m) = Len(list) + 1
        /\ Distinct(m) /\ Ordered(m, now)
        /\ \A g : Has(m, g) <=> Has(list, g) \/ g = Tcp
        /\ \A e \in Elems(m) :
             1 - MaxLag - lag <= Dist(e.time, now) /\ Dist(e.time, now) <= Interval[e.h]
    <3> HIDE DEF time
    <3> QED BY <1>2, <1>3, <2>2, <2>3, SetFacts
  <2> HIDE DEF m, time
  <2>5. TypeOK'
    <3>1. Len(m) <= PoolSize
      BY <1>3, <2>4, Consts
    <3> QED BY <1>0, <1>1, <1>4, <2>1, <2>4, <3>1 DEF TypeOK, EntrySet, Clock
  <2>6. Count'
    BY <1>0, <1>2, <1>3, <2>1, <2>4, Consts DEF Count
  <2>7. Present'
    <3>1. ~Has(m, "none")
      BY <1>5, <2>4
    <3>2. \A h \in CyclicSet : Has(m, h)
      BY <1>0, <1>1, <2>4, Consts DEF Present
    <3> QED BY <1>0, <1>2, <2>1, <2>4, <3>1, <3>2 DEF Present
  <2>8. Times'
    <3>1. Dist(t0, now) = 0 - lag
      BY <1>1 DEF Times
    <3> QED BY <1>0, <2>1, <2>4, <3>1 DEF Times
  <2> QED BY <2>5, <2>6, <2>7, <2>8 DEF TInv
<1>7. CASE ~(pcbs' > 0)
  <2>1. list' = list /\ active' = FALSE
    BY <1>0, <1>7 DEF TcpipTcpTimer
  <2>2. TypeOK'
    BY <1>0, <1>1, <1>4, <2>1 DEF TypeOK
  <2>3. Count'
    BY <1>0, <1>3, <2>1, Consts DEF Count
  <2>4. Present'
    <3>1. ~Has(list, "none")
      BY <1>5, TypeFacts
    <3>2. \A h \in CyclicSet : Has(list, h)
      BY <1>0, <1>1, Consts DEF Present
    <3> QED BY <1>0, <1>1, <1>2, <1>7, <2>1, <3>1, <3>2 DEF Present
  <2>5. Times'
    <3>1. \A x \in Elems(list) :
            1 - MaxLag - lag <= Dist(x.time, now) /\ Dist(x.time, now) <= Interval[x.h]
      BY EntryFacts
    <3>2. Dist(t0, now) = 0 - lag /\ Ordered(list, now)
      BY <1>1 DEF Times
    <3> QED BY <1>0, <2>1, <3>1, <3>2 DEF Times
  <2> QED BY <2>2, <2>3, <2>4, <2>5 DEF TInv
<1> QED BY <1>6, <1>7

\* The clock goes on, within the lag of the loop.
LEMMA TickStep ==
  ASSUME TInv, Tick PROVE TInv'
<1>0. /\ lag < MaxLag /\ now' = (now + 1) % Span /\ lag' = lag + 1
      /\ UNCHANGED <<list, due, active, pcbs, pc, t0, handler>>
  BY DEF Tick
<1>1. TypeOK /\ Count /\ Present /\ Times
  BY DEF TInv
<1>2. /\ now \in Clock /\ due \in Clock /\ t0 \in Clock
      /\ lag \in Nat /\ MaxLag \in Nat /\ 2 * MaxLag < MaxTimeout
      /\ MaxTimeout \in Nat
  BY TypeFacts, Consts
<1>3. ASSUME NEW x \in Clock, 1 - MaxLag - lag <= Dist(x, now)
      PROVE  now' \in Clock /\ Dist(x, now') = Dist(x, now) - 1 /\ Dist(x, now) \in Int
  <2>1. Dist(x, now) \in Int
    BY <1>2, DistFacts
  <2>2. -MaxTimeout <= Dist(x, now)
    BY <1>0, <1>2, <1>3, <2>1
  <2> QED BY <1>0, <1>2, <2>1, <2>2, DistTick
<1>4. Dist(t0, now) = 0 - lag /\ 1 - MaxLag - lag <= 0 - lag
  BY <1>0, <1>1, <1>2 DEF Times
<1>5. now' \in Clock /\ Dist(t0, now') = 0 - lag - 1
  BY <1>2, <1>3, <1>4
<1>6. ASSUME NEW e \in Elems(list)
      PROVE  Dist(e.time, now') = Dist(e.time, now) - 1 /\ Dist(e.time, now) \in Int
  BY <1>3, EntryFacts
<1>7. TypeOK'
  BY <1>0, <1>1, <1>2, <1>5 DEF TypeOK, Clock
<1>8. Count' /\ Present'
  BY <1>0, <1>1 DEF Count, Present
<1>9. Ordered(list, now')
  <2> SUFFICES ASSUME NEW i \in 1 .. Len(list), NEW j \in 1 .. Len(list), i < j
               PROVE  Dist(list[i].time, now') <= Dist(list[j].time, now')
    BY DEF Ordered
  <2>1. Dist(list[i].time, now) <= Dist(list[j].time, now)
    BY <1>1 DEF Times, Ordered
  <2>2. list[i] \in Elems(list) /\ list[j] \in Elems(list)
    BY DEF Elems
  <2> QED BY <1>6, <2>1, <2>2
<1>10. ASSUME NEW e \in Elems(list)
       PROVE  /\ 1 - MaxLag - (lag + 1) <= Dist(e.time, now') /\ Dist(e.time, now') <= Interval[e.h]
              /\ pc = "loop" => 1 - (lag + 1) <= Dist(e.time, now')
  BY <1>2, <1>6, EntryFacts
<1>11. pc = "handler" => 1 - MaxLag - (lag + 1) <= Dist(due, now') /\ Dist(due, now') <= -(lag + 1)
  <2> SUFFICES ASSUME pc = "handler"
               PROVE  1 - MaxLag - (lag + 1) <= Dist(due, now') /\ Dist(due, now') <= -(lag + 1)
    OBVIOUS
  <2>1. 1 - MaxLag - lag <= Dist(due, now) /\ Dist(due, now) <= -lag
    BY <1>1 DEF Times
  <2>2. Dist(due, now') = Dist(due, now) - 1 /\ Dist(due, now) \in Int
    BY <1>2, <1>3, <2>1
  <2> QED BY <1>2, <2>1, <2>2
<1>12. Times'
  <2>1. 0 - lag - 1 = 0 - (lag + 1)
    BY <1>2
  <2> QED BY <1>0, <1>5, <1>9, <1>10, <1>11, <2>1 DEF Times
<1> QED BY <1>7, <1>8, <1>12 DEF TInv

\* Every step keeps the invariant.
LEMMA NextTInv ==
  ASSUME TInv, [Next]_vars PROVE TInv'
<1>1. CASE UNCHANGED vars
  BY <1>1 DEF vars, TInv, TypeOK, Count, Present, Times
<1>2. CASE Next
  BY <1>2, TcpRegStep, TcpRmvStep, CheckTimeoutsStep, ExpireStep, NoneExpiredStep,
     CyclicTimerStep, TcpipTcpTimerStep, TickStep DEF Next, MainLoop
<1> QED BY <1>1, <1>2

\* The invariant holds always.
LEMMA Invariance == Spec => []TInv
<1>1. Init => TInv
  BY InitTInv
<1>2. TInv /\ [Next]_vars => TInv'
  BY NextTInv
<1> QED BY <1>1, <1>2, PTL DEF Spec

-----------------------------------------------------------------------------
(* What the invariant means.                                               *)

(***************************************************************************)
(* No timer is lost or doubled, for any number of timers: the pool that    *)
(* sys_timeout_abs draws on (lines 188-192) is never empty when it does,   *)
(* and tcpip_tcp_timer_active is exact.                                    *)
(***************************************************************************)
LEMMA TInvScheduled ==
  ASSUME TInv PROVE TimersScheduled
<1>1. TypeOK /\ Present
  BY DEF TInv
<1>2. ASSUME NEW h, h # handler, Has(list, h) PROVE Scheduled(h)
  <2>1. PICK i \in 1 .. Len(list) : list[i].h = h
    BY <1>2 DEF Has
  <2>2. Entries(h) = {i}
    BY <1>1, <2>1 DEF Entries, Present, Distinct
  <2> QED BY <1>2, <2>2 DEF Scheduled
<1>3. ASSUME NEW h, ~Has(list, h) PROVE Entries(h) = {}
  BY <1>3 DEF Has, Entries
<1>4. ASSUME NEW h, handler = h PROVE Scheduled(h)
  BY <1>1, <1>3, <1>4 DEF Present, Scheduled
<1>5. \A h \in CyclicSet : Scheduled(h)
  BY <1>1, <1>2, <1>4 DEF Present
<1>6. active => Scheduled(Tcp)
  BY <1>1, <1>2, <1>4 DEF Present
<1>7. ~active => Unscheduled(Tcp)
  BY <1>1, <1>3 DEF Present, Unscheduled
<1> QED BY <1>1, <1>5, <1>6, <1>7 DEF Present, TimersScheduled

(***************************************************************************)
(* No timer is ever lost or doubled, by the timers that set themselves up  *)
(* again (sys_timeout_abs, lines 188-192), by one that is set up from      *)
(* another's handler, or by tcpip_tcp_timer_active (lines 151-175).        *)
(***************************************************************************)
THEOREM TimersAreScheduled == Spec => []TimersScheduled
  BY Invariance, TInvScheduled, PTL

(***************************************************************************)
(* next_timeout stays sorted by the real order of the due times, wherever  *)
(* the clock wraps between them (lines 205-220).                           *)
(***************************************************************************)
THEOREM ListIsSorted == Spec => []Sorted
<1>1. TInv => Sorted
  BY DEF TInv, Times, Ordered, Sorted, FromNow, Dist
<1> QED BY <1>1, Invariance, PTL

-----------------------------------------------------------------------------
(* The refinement of TimerQueue.                                           *)

LeftOf(l, n) ==
  [h \in {l[i].h : i \in 1 .. Len(l)} |->
     Dist(l[CHOOSE i \in {j \in 1 .. Len(l) : l[j].h = h} : TRUE].time, n)]

WithTimer(f, h, v)  == [g \in DOMAIN f \cup {h} |-> IF g = h THEN v ELSE f[g]]
WithoutTimer(f, h)  == [g \in DOMAIN f \ {h} |-> f[g]]

\* What is left of each timer of a list.
LEMMA LeftFacts ==
  ASSUME NEW l, l \in Seq(EntrySet), Distinct(l), NEW n
  PROVE  /\ DOMAIN LeftOf(l, n) = {h \in Timers : Has(l, h)}
         /\ LeftOf(l, n) = [h \in {g \in Timers : Has(l, g)} |-> LeftOf(l, n)[h]]
         /\ \A e \in Elems(l) : LeftOf(l, n)[e.h] = Dist(e.time, n)
<1>1. {l[i].h : i \in 1 .. Len(l)} = {h \in Timers : Has(l, h)}
  <2>1. \A i \in 1 .. Len(l) : l[i] \in EntrySet
    BY ElementOfSeq
  <2>2. \A i \in 1 .. Len(l) : l[i].h \in Timers
    BY <2>1 DEF EntrySet
  <2> QED BY <2>2 DEF Has
<1>2. ASSUME NEW e \in Elems(l) PROVE LeftOf(l, n)[e.h] = Dist(e.time, n)
  <2>1. PICK i \in 1 .. Len(l) : e = l[i]
    BY DEF Elems
  <2>2. {j \in 1 .. Len(l) : l[j].h = e.h} = {i}
    BY <2>1 DEF Distinct
  <2>3. (CHOOSE j \in {k \in 1 .. Len(l) : l[k].h = e.h} : TRUE) = i
    BY <2>2
  <2> QED BY <2>1, <2>3 DEF LeftOf
<1>3. LeftOf(l, n) = [h \in {g \in Timers : Has(l, g)} |-> LeftOf(l, n)[h]]
  BY <1>1 DEF LeftOf
<1>4. DOMAIN LeftOf(l, n) = {h \in Timers : Has(l, h)}
  BY <1>1 DEF LeftOf
<1> QED BY <1>2, <1>3, <1>4

\* Two such functions are equal when their entries are.
LEMMA LeftIs ==
  ASSUME NEW l, l \in Seq(EntrySet), Distinct(l), NEW n,
         NEW f, f = [h \in DOMAIN f |-> f[h]],
         \A h : h \in DOMAIN f <=> Has(l, h),
         \A e \in Elems(l) : f[e.h] = Dist(e.time, n)
  PROVE  LeftOf(l, n) = f
<1> DEFINE g == LeftOf(l, n)
<1>1. DOMAIN f = {h \in Timers : Has(l, h)}
  <2>1. \A h : Has(l, h) => h \in Timers
    BY ElemsFacts, HasElems
  <2> QED BY <2>1
<1>2. g = [h \in DOMAIN f |-> g[h]] /\ \A e \in Elems(l) : g[e.h] = Dist(e.time, n)
  BY <1>1, LeftFacts
<1> HIDE DEF g
<1>3. \A h \in DOMAIN f : g[h] = f[h]
  BY <1>2, HasElems
<1>4. g = f
  BY <1>2, <1>3
<1> QED BY <1>4 DEF g

\* An entry more is a timer more.
LEMMA LeftInsert ==
  ASSUME NEW l, l \in Seq(EntrySet), Distinct(l), NEW m, m \in Seq(EntrySet), Distinct(m),
         NEW n, NEW h \in Timers, NEW time, ~Has(l, h), Elems(m) = Elems(l) \cup {Entry(h, time)}
  PROVE  LeftOf(m, n) = WithTimer(LeftOf(l, n), h, Dist(time, n))
<1> DEFINE f == [g \in DOMAIN LeftOf(l, n) \cup {h} |->
                   IF g = h THEN Dist(time, n) ELSE LeftOf(l, n)[g]]
<1>1. Entry(h, time).h = h /\ Entry(h, time).time = time
  BY DEF Entry
<1>2. \A g : g \in DOMAIN f <=> Has(m, g)
  <2>1. \A g : Has(m, g) <=> Has(l, g) \/ g = h
    BY <1>1, HasElems
  <2>2. \A g : Has(l, g) => g \in Timers
    BY ElemsFacts, HasElems
  <2>3. DOMAIN LeftOf(l, n) = {g \in Timers : Has(l, g)}
    BY LeftFacts
  <2> QED BY <2>1, <2>2, <2>3
<1>3. \A e \in Elems(m) : f[e.h] = Dist(e.time, n)
  <2> SUFFICES ASSUME NEW e \in Elems(m) PROVE f[e.h] = Dist(e.time, n)
    OBVIOUS
  <2>1. CASE e = Entry(h, time)
    BY <1>1, <2>1
  <2>2. CASE e \in Elems(l)
    <3>1. Has(l, e.h) /\ e.h # h
      BY <2>2, HasElems
    <3>2. e.h \in DOMAIN LeftOf(l, n) /\ LeftOf(l, n)[e.h] = Dist(e.time, n)
      BY <2>2, <3>1, LeftFacts, ElemsFacts
    <3> QED BY <3>1, <3>2
  <2> QED BY <2>1, <2>2
<1>4. f = [g \in DOMAIN f |-> f[g]]
  OBVIOUS
<1> HIDE DEF f
<1>5. LeftOf(m, n) = f
  BY <1>2, <1>3, <1>4, LeftIs
<1> QED BY <1>5 DEF f, WithTimer

\* An entry less is a timer less.
LEMMA LeftTail ==
  ASSUME NEW l, l \in Seq(EntrySet), Distinct(l), NEW t, t \in Seq(EntrySet), Distinct(t),
         NEW n, NEW e \in Elems(l), Elems(t) = Elems(l) \ {e}, ~Has(t, e.h)
  PROVE  LeftOf(t, n) = WithoutTimer(LeftOf(l, n), e.h)
<1> DEFINE f == [g \in DOMAIN LeftOf(l, n) \ {e.h} |-> LeftOf(l, n)[g]]
<1>1. \A g : g \in DOMAIN f <=> Has(t, g)
  <2>1. \A g : Has(l, g) <=> Has(t, g) \/ g = e.h
    BY HasElems
  <2>2. \A g : Has(l, g) => g \in Timers
    BY ElemsFacts, HasElems
  <2>3. DOMAIN LeftOf(l, n) = {g \in Timers : Has(l, g)}
    BY LeftFacts
  <2> QED BY <2>1, <2>2, <2>3
<1>2. \A x \in Elems(t) : f[x.h] = Dist(x.time, n)
  <2> SUFFICES ASSUME NEW x \in Elems(t) PROVE f[x.h] = Dist(x.time, n)
    OBVIOUS
  <2>1. x.h \in DOMAIN f
    BY <1>1, HasElems
  <2>2. LeftOf(l, n)[x.h] = Dist(x.time, n)
    BY LeftFacts
  <2> QED BY <2>1, <2>2
<1>3. f = [g \in DOMAIN f |-> f[g]]
  OBVIOUS
<1> HIDE DEF f
<1>4. LeftOf(t, n) = f
  BY <1>1, <1>2, <1>3, LeftIs
<1> QED BY <1>4 DEF f, WithoutTimer

\* A tick takes one off every timer.
LEMMA LeftTick ==
  ASSUME NEW l, l \in Seq(EntrySet), Distinct(l), NEW n, NEW k,
         \A e \in Elems(l) : Dist(e.time, k) = Dist(e.time, n) - 1
  PROVE  LeftOf(l, k) = [g \in DOMAIN LeftOf(l, n) |-> LeftOf(l, n)[g] - 1]
<1> DEFINE f == [g \in DOMAIN LeftOf(l, n) |-> LeftOf(l, n)[g] - 1]
<1>1. \A g : g \in DOMAIN f <=> Has(l, g)
  <2>1. \A g : Has(l, g) => g \in Timers
    BY ElemsFacts, HasElems
  <2>2. DOMAIN LeftOf(l, n) = {g \in Timers : Has(l, g)}
    BY LeftFacts
  <2> QED BY <2>1, <2>2
<1>2. \A x \in Elems(l) : f[x.h] = Dist(x.time, k)
  <2> SUFFICES ASSUME NEW x \in Elems(l) PROVE f[x.h] = Dist(x.time, k)
    OBVIOUS
  <2>1. x.h \in DOMAIN f
    BY <1>1, HasElems
  <2>2. LeftOf(l, n)[x.h] = Dist(x.time, n)
    BY LeftFacts
  <2> QED BY <2>1, <2>2
<1>3. f = [g \in DOMAIN f |-> f[g]]
  OBVIOUS
<1> HIDE DEF f
<1>4. LeftOf(l, k) = f
  BY <1>1, <1>2, <1>3, LeftIs
<1> QED BY <1>4 DEF f

\* The refinement mapping in terms of LeftOf.
LEMMA TimeLeftIs ==
  /\ TimeLeft = LeftOf(list, now)
  /\ TimeLeft' = LeftOf(list', now')
  /\ Late = IF handler = "none" THEN 0 ELSE Dist(due, now)
  /\ Late' = IF handler' = "none" THEN 0 ELSE Dist(due', now')
  BY DEF TimeLeft, Late, LeftOf, FromNow, Dist, Entries

\* The refinement begins where TimerQueue begins.
LEMMA QueueInit ==
  ASSUME Init PROVE Queue!Init
<1> DEFINE N == Len(Cyclic)
           f == [h \in CyclicSet |-> Interval[h]]
<1>1. N \in 0 .. N
  BY Consts
<1>2. /\ list \in Seq(EntrySet) /\ Distinct(list)
      /\ Elems(list) = {Entry(Cyclic[j], Interval[Cyclic[j]]) : j \in 1 .. N}
  BY <1>1, InitialSound DEF Init
<1>3. \A j \in 1 .. N : Cyclic[j] \in CyclicSet /\ Cyclic[j] \in Timers
  BY Consts DEF CyclicSet
<1>4. \A e \in Elems(list) : e.h \in CyclicSet /\ e.time = Interval[e.h]
  BY <1>2, <1>3 DEF Entry
<1>5. \A h \in CyclicSet : Has(list, h)
  <2> SUFFICES ASSUME NEW j \in 1 .. N PROVE Has(list, Cyclic[j])
    BY DEF CyclicSet
  <2>1. Entry(Cyclic[j], Interval[Cyclic[j]]) \in Elems(list)
    BY <1>2
  <2> QED BY <2>1, HasElems DEF Entry
<1>6. \A h : h \in DOMAIN f <=> Has(list, h)
  BY <1>4, <1>5, HasElems
<1>7. \A e \in Elems(list) : f[e.h] = Dist(e.time, 0)
  BY <1>4, IntervalFacts, Consts
<1>8. f = [h \in DOMAIN f |-> f[h]]
  OBVIOUS
<1>9. LeftOf(list, 0) = f
  <2> HIDE DEF f
  <2> QED BY <1>2, <1>6, <1>7, <1>8, LeftIs
<1>10. now = 0 /\ handler = "none"
  BY DEF Init
<1> QED BY <1>9, <1>10, TimeLeftIs DEF Queue!Init, Queue!None

\* What leaves the list and the clock alone does not show.
LEMMA QueueStutter ==
  ASSUME UNCHANGED <<list, now, due, handler>> PROVE UNCHANGED Queue!vars
  BY TimeLeftIs DEF Queue!vars

\* A tick is time that passes for the queue.
LEMMA QueueTick ==
  ASSUME TInv, Tick PROVE Queue!TimePasses
<1>0. /\ lag < MaxLag /\ now' = (now + 1) % Span
      /\ UNCHANGED <<list, due, handler>>
  BY DEF Tick
<1>1. /\ now \in Clock /\ due \in Clock /\ list \in Seq(EntrySet) /\ Distinct(list)
      /\ lag \in Nat /\ lag <= MaxLag /\ MaxLag \in Nat /\ 2 * MaxLag < MaxTimeout
      /\ MaxTimeout \in Nat
  BY TypeFacts, Consts DEF TInv, Present
<1>2. ASSUME NEW x \in Clock, 1 - MaxLag - lag <= Dist(x, now)
      PROVE  Dist(x, now') = Dist(x, now) - 1
  <2>1. Dist(x, now) \in Int
    BY <1>1, DistFacts
  <2>2. -MaxTimeout <= Dist(x, now)
    BY <1>0, <1>1, <1>2, <2>1
  <2> QED BY <1>0, <1>1, <2>2, DistTick
<1>3. \A e \in Elems(list) : Dist(e.time, now') = Dist(e.time, now) - 1
  BY <1>2, EntryFacts
<1>4. LeftOf(list, now') = [g \in DOMAIN LeftOf(list, now) |-> LeftOf(list, now)[g] - 1]
  BY <1>1, <1>3, LeftTick
<1>5. handler # "none" => Dist(due, now') = Dist(due, now) - 1
  BY <1>1, <1>2 DEF TInv, Present, Times
<1> QED BY <1>0, <1>4, <1>5, TimeLeftIs DEF Queue!TimePasses, Queue!Armed, Queue!None

\* The TCP timer starts.
LEMMA QueueStart ==
  ASSUME TInv, TcpReg, ~active PROVE Queue!Start
<1>0. /\ pc = "loop" /\ list' = SysTimeout(list, Tcp)
      /\ UNCHANGED <<now, due, handler>>
  BY DEF TcpReg
<1> DEFINE time == (now + Interval[Tcp]) % Span
           m == SysTimeoutAbs(list, time, Tcp)
<1>1. list' = m
  BY <1>0 DEF SysTimeout
<1>2. /\ handler = "none" /\ ~Has(list, Tcp) /\ Distinct(list) /\ Len(list) = Len(Cyclic)
      /\ Len(list) <= Len(Cyclic)
  BY <1>0, Consts DEF TInv, Present, Count
<1>3. /\ Tcp \in Timers /\ time \in Clock /\ Dist(time, now) = Interval[Tcp]
      /\ 1 - MaxLag - lag <= Interval[Tcp] /\ Interval[Tcp] <= Interval[Tcp]
  BY Consts, TypeFacts, FromNowOn
<1>4. m \in Seq(EntrySet) /\ Distinct(m) /\ Elems(m) = Elems(list) \cup {Entry(Tcp, time)}
  <2> HIDE DEF time
  <2> QED BY <1>2, <1>3, SetFacts
<1> HIDE DEF m, time
<1>5. LeftOf(m, now) = WithTimer(LeftOf(list, now), Tcp, Interval[Tcp])
  BY <1>2, <1>3, <1>4, LeftInsert, TypeFacts
<1>6. Tcp \notin DOMAIN LeftOf(list, now)
  BY <1>2, LeftFacts, TypeFacts
<1> QED BY <1>0, <1>1, <1>2, <1>5, <1>6, TimeLeftIs
        DEF Queue!Start, Queue!With, WithTimer, Queue!Armed, Queue!None

\* The entry that expires is an armed timer that runs.
LEMMA QueueRun ==
  ASSUME TInv, Expire PROVE \E h \in Queue!Armed : Queue!Run(h)
<1> DEFINE e == Head(list)
           t == Tail(list)
<1>0. /\ pc = "check" /\ list # <<>> /\ ~TimeLessThan(t0, e.time)
      /\ list' = t /\ due' = e.time /\ handler' = e.h /\ now' = now
  BY DEF Expire, Expired
<1>1. /\ Distinct(list) /\ Ordered(list, now) /\ list \in Seq(EntrySet)
      /\ handler = "none" /\ now \in Clock
  BY <1>0, TypeFacts DEF TInv, Present, Times
<1>2. /\ e \in Elems(list)
      /\ t \in Seq(EntrySet) /\ Distinct(t) /\ Elems(t) = Elems(list) \ {e} /\ ~Has(t, e.h)
      /\ \A x \in Elems(list) : x = e \/ Dist(e.time, now) <= Dist(x.time, now)
  BY <1>0, <1>1, TailFacts
<1> HIDE DEF e, t
<1>3. e.h \in Timers /\ e.h # "none" /\ Dist(e.time, now) \in Int
  BY <1>2, EntryFacts, Consts
<1>4. TInv'
  BY ExpireStep
<1>5. Dist(e.time, now) <= -lag
  <2>1. pc' = "handler" /\ lag' = lag
    BY DEF Expire
  <2> QED BY <1>0, <1>4, <2>1 DEF TInv, Times
<1>6. Dist(e.time, now) <= 0
  BY <1>3, <1>5, TypeFacts
<1> DEFINE L == LeftOf(list, now)
<1>7. /\ DOMAIN L = {h \in Timers : Has(list, h)}
      /\ \A x \in Elems(list) : L[x.h] = Dist(x.time, now)
  BY <1>1, LeftFacts
<1>8. LeftOf(t, now) = WithoutTimer(L, e.h)
  BY <1>1, <1>2, LeftTail
<1> HIDE DEF L
<1>9. e.h \in DOMAIN L /\ L[e.h] = Dist(e.time, now)
  BY <1>2, <1>3, <1>7, HasElems
<1>10. \A g \in DOMAIN L : L[e.h] <= L[g]
  <2> SUFFICES ASSUME NEW g \in DOMAIN L PROVE L[e.h] <= L[g]
    OBVIOUS
  <2>1. PICK x \in Elems(list) : x.h = g
    BY <1>7, HasElems
  <2>2. x = e \/ Dist(e.time, now) <= Dist(x.time, now)
    BY <1>2
  <2> QED BY <1>3, <1>7, <1>9, <2>1, <2>2
<1>11. TimeLeft = L /\ TimeLeft' = LeftOf(t, now) /\ Late' = Dist(e.time, now)
  BY <1>0, <1>3, TimeLeftIs DEF L
<1>12. Queue!Run(e.h)
  BY <1>0, <1>1, <1>6, <1>8, <1>9, <1>10, <1>11
     DEF Queue!Run, Queue!Without, WithoutTimer, Queue!Armed, Queue!None
<1> QED BY <1>9, <1>11, <1>12 DEF Queue!Armed

\* A cyclic timer repeats, from when it was due.
LEMMA QueueRepeat ==
  ASSUME TInv, CyclicTimer PROVE Queue!Repeat
<1> DEFINE time == NextDue(handler)
           m == SysTimeoutAbs(list, time, handler)
           d == Dist(due, now)
<1>0. /\ pc = "handler" /\ handler # Tcp /\ handler' = "none" /\ list' = m /\ now' = now
  BY DEF CyclicTimer
<1>1. /\ handler \in CyclicSet /\ handler \in Timers /\ time \in Clock
      /\ Dist(time, now) = IF d + Interval[handler] < 0 THEN Interval[handler]
                           ELSE d + Interval[handler]
      /\ MaxLag >= 1 /\ d \in Int /\ d <= -lag
  BY <1>0, NextDueFacts
<1>2. handler # "none"
  BY <1>1, Consts
<1>3. /\ ~Has(list, handler) /\ Distinct(list) /\ list \in Seq(EntrySet)
      /\ Len(list) <= Len(Cyclic)
  BY <1>2, Consts, TypeFacts DEF TInv, Present, Count
<1>4. 1 - MaxLag - lag <= Dist(time, now) /\ Dist(time, now) <= Interval[handler]
  <2> DEFINE D == Dist(time, now)
             I == Interval[handler]
  <2>1. I \in Nat /\ lag \in Nat /\ MaxLag \in Nat
    BY <1>1, Consts, TypeFacts
  <2>2. D = IF d + I < 0 THEN I ELSE d + I
    BY <1>1
  <2> HIDE DEF D, d, I, time
  <2>3. 1 - MaxLag - lag <= D /\ D <= I
    BY <1>1, <2>1, <2>2
  <2> QED BY <2>3 DEF D, I
<1>5. m \in Seq(EntrySet) /\ Distinct(m) /\ Elems(m) = Elems(list) \cup {Entry(handler, time)}
  <2> HIDE DEF time
  <2> QED BY <1>1, <1>3, <1>4, SetFacts
<1> HIDE DEF m, time
<1>6. LeftOf(m, now) = WithTimer(LeftOf(list, now), handler, Dist(time, now))
  BY <1>1, <1>3, <1>5, LeftInsert
<1>7. /\ TimeLeft = LeftOf(list, now) /\ TimeLeft' = LeftOf(m, now)
      /\ Late = d /\ Late' = 0
  BY <1>0, <1>2, TimeLeftIs
<1> HIDE DEF d
<1> QED BY <1>0, <1>1, <1>6, <1>7 DEF Queue!Repeat, Queue!With, WithTimer, Queue!Armed, Queue!None

\* The TCP timer repeats or stops.
LEMMA QueueRepeatOrStop ==
  ASSUME TInv, TcpipTcpTimer PROVE Queue!RepeatOrStop
<1>0. /\ pc = "handler" /\ handler = Tcp /\ handler' = "none" /\ now' = now
  BY DEF TcpipTcpTimer
<1>1. /\ ~Has(list, Tcp) /\ Distinct(list) /\ list \in Seq(EntrySet) /\ Len(list) <= Len(Cyclic)
      /\ Tcp \in Timers
  BY <1>0, Consts, TypeFacts DEF TInv, Present, Count
<1>2. TimeLeft' \in {TimeLeft, Queue!With(Tcp, Interval[Tcp])}
  <2>1. CASE pcbs' > 0
    <3> DEFINE time == (now + Interval[Tcp]) % Span
               m == SysTimeoutAbs(list, time, Tcp)
    <3>1. list' = m
      BY <2>1 DEF TcpipTcpTimer, SysTimeout
    <3>2. /\ time \in Clock /\ Dist(time, now) = Interval[Tcp]
          /\ 1 - MaxLag - lag <= Interval[Tcp] /\ Interval[Tcp] <= Interval[Tcp]
      BY Consts, TypeFacts, FromNowOn
    <3>3. m \in Seq(EntrySet) /\ Distinct(m) /\ Elems(m) = Elems(list) \cup {Entry(Tcp, time)}
      <4> HIDE DEF time
      <4> QED BY <1>1, <3>2, SetFacts
    <3> HIDE DEF m, time
    <3>4. LeftOf(m, now) = WithTimer(LeftOf(list, now), Tcp, Interval[Tcp])
      BY <1>1, <3>2, <3>3, LeftInsert
    <3> QED BY <1>0, <3>1, <3>4, TimeLeftIs DEF Queue!With, WithTimer, Queue!Armed
  <2>2. CASE ~(pcbs' > 0)
    <3>1. list' = list
      BY <2>2 DEF TcpipTcpTimer
    <3> QED BY <1>0, <3>1, TimeLeftIs
  <2> QED BY <2>1, <2>2
<1> QED BY <1>0, <1>2, TimeLeftIs DEF Queue!RepeatOrStop, Queue!None

\* Every step is one of the queue, or does not show.
LEMMA QueueNext ==
  ASSUME TInv, [Next]_vars PROVE [Queue!Next]_(Queue!vars)
<1>1. ASSUME UNCHANGED <<list, now, due, handler>> PROVE [Queue!Next]_(Queue!vars)
  BY <1>1, QueueStutter
<1>2. CASE UNCHANGED vars \/ TcpRmv \/ CheckTimeouts \/ NoneExpired
  BY <1>1, <1>2 DEF vars, TcpRmv, CheckTimeouts, NoneExpired
<1>3. CASE TcpReg
  <2>1. CASE active
    <3>1. UNCHANGED <<list, now, due, handler>>
      BY <1>3, <2>1 DEF TcpReg
    <3> QED BY <1>1, <3>1
  <2>2. CASE ~active
    BY <1>3, <2>2, QueueStart DEF Queue!Next
  <2> QED BY <2>1, <2>2
<1>4. CASE Expire
  BY <1>4, QueueRun DEF Queue!Next
<1>5. CASE CyclicTimer
  BY <1>5, QueueRepeat DEF Queue!Next
<1>6. CASE TcpipTcpTimer
  BY <1>6, QueueRepeatOrStop DEF Queue!Next
<1>7. CASE Tick
  BY <1>7, QueueTick DEF Queue!Next
<1> QED BY <1>2, <1>3, <1>4, <1>5, <1>6, <1>7 DEF Next, MainLoop

(***************************************************************************)
(* The sorted list on a clock that wraps does what TimerQueue does with    *)
(* integers: no handler runs early, the one due for longest runs first,    *)
(* and a cyclic timer keeps its rhythm (sys_check_timeouts and             *)
(* lwip_cyclic_timer), for every width of the clock that is wide enough.   *)
(***************************************************************************)
THEOREM TimersImplementQueue == Spec => ImplementsQueue
<1>1. Init => Queue!Init
  BY QueueInit
<1>2. TInv /\ [Next]_vars => [Queue!Next]_(Queue!vars)
  BY QueueNext
<1> QED BY <1>1, <1>2, Invariance, PTL DEF Spec, ImplementsQueue, Queue!Spec
===============================================================================
