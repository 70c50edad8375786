--------------------------- MODULE TcpReceiveProofs ---------------------------
(***************************************************************************)
(* Proofs about the receiver of TcpReceive, for every window, every stream *)
(* that is shorter than the numbers of tcpwnd_size_t, every pool of        *)
(* segments and every width of the sequence numbers, wherever they begin.  *)
(***************************************************************************)
EXTENDS TcpReceive, WellFoundedInduction, SequenceTheorems, TLAPS

-----------------------------------------------------------------------------
(* Sequence numbers.  At(i) is the number of the place i of the stream;    *)
(* places up to the farthest right edge, and a watermark behind it, are    *)
(* near enough to be compared.                                             *)

At(i)  == Plus(Isn, i)
Place  == 0 .. 2 * Window + WndSpan
Half   == Span \div 2

\* What the assumption says of the constants, in numbers.
LEMMA SpanFacts ==
  /\ Window \in Nat /\ Window >= 1 /\ SegPool \in Nat /\ SegPool >= 1
  /\ Watermark \in Nat /\ Watermark >= 1 /\ Watermark <= Window
  /\ WndSpan \in Nat /\ Window < WndSpan /\ MaxStream \in Nat /\ MaxStream + 1 < WndSpan
  /\ Span \in Nat /\ Half \in Nat /\ Span = 2 * Half /\ 2 * Window + WndSpan < Half
  /\ Isn \in Nat /\ Isn < Span
<1>1. Span \in Nat /\ Span % 2 = 0
  BY TcpReceiveConstantsOK
<1>2. Half \in Nat /\ Span = 2 * Half
  BY <1>1, SMT DEF Half
<1> QED BY <1>2, TcpReceiveConstantsOK DEF Half

\* A number below the span is its own remainder, also when a span off.
LEMMA Mod ==
  ASSUME NEW k \in 0 .. Span - 1
  PROVE  k % Span = k /\ (k + Span) % Span = k /\ (k - Span) % Span = k
<1>1. Span \in Nat /\ Span > 0 /\ k \in Nat /\ k < Span
  BY SpanFacts
<1>2. k % Span = k
  BY <1>1
<1>3. (k + Span) % Span = k
  BY <1>1, SMT
<1>4. (k - Span) % Span = k
  BY <1>1, SMT
<1> QED BY <1>2, <1>3, <1>4

\* A remainder near zero, on either side.
LEMMA ModNear ==
  ASSUME NEW x \in Int, -Span <= x, x < 2 * Span
  PROVE  x % Span = IF x >= Span THEN x - Span ELSE IF x < 0 THEN x + Span ELSE x
<1>1. CASE x >= Span
  <2> DEFINE j == x - Span
  <2>1. j \in 0 .. Span - 1 /\ x = j + Span
    BY <1>1, SpanFacts
  <2> HIDE DEF j
  <2>2. x % Span = j
    BY <2>1, Mod
  <2> QED BY <1>1, <2>2 DEF j
<1>2. CASE x < 0
  <2> DEFINE j == x + Span
  <2>1. j \in 0 .. Span - 1 /\ x = j - Span /\ ~(x >= Span)
    BY <1>2, SpanFacts
  <2> HIDE DEF j
  <2>2. x % Span = j
    BY <2>1, Mod
  <2> QED BY <1>2, <2>1, <2>2 DEF j
<1>3. CASE ~(x >= Span) /\ ~(x < 0)
  <2>1. x \in 0 .. Span - 1
    BY <1>3, SpanFacts
  <2> QED BY <1>3, <2>1, Mod
<1> QED BY <1>1, <1>2, <1>3

\* The number of a place is a u32_t; where it has wrapped is a span less.
LEMMA AtFacts ==
  ASSUME NEW i \in Place
  PROVE  /\ At(i) = IF Isn + i >= Span THEN Isn + i - Span ELSE Isn + i
         /\ At(i) \in 0 .. Span - 1
<1>1. PICK x \in Int : x = Isn + i
  BY SpanFacts DEF Place
<1>2. -Span <= x /\ x < 2 * Span /\ ~(x < 0)
  BY <1>1, SpanFacts DEF Place
<1>3. x % Span = IF x >= Span THEN x - Span ELSE IF x < 0 THEN x + Span ELSE x
  BY <1>2, ModNear
<1>4. At(i) = x % Span
  BY <1>1 DEF At, Plus
<1>5. At(i) = IF x >= Span THEN x - Span ELSE IF x < 0 THEN x + Span ELSE x
  BY <1>3, <1>4, Zenon
<1> QED BY <1>1, <1>2, <1>5, SpanFacts DEF Place

\* Adding to a sequence number goes on by as many places.
LEMMA AtPlus ==
  ASSUME NEW i \in Place, NEW k \in Int, i + k \in Place
  PROVE  Plus(At(i), k) = At(i + k)
<1> DEFINE x == At(i) + k
<1>1. /\ At(i) = IF Isn + i >= Span THEN Isn + i - Span ELSE Isn + i
      /\ At(i + k) = IF Isn + (i + k) >= Span THEN Isn + (i + k) - Span ELSE Isn + (i + k)
  BY AtFacts
<1>2. x \in Int /\ -Span <= x /\ x < 2 * Span
  BY <1>1, SpanFacts DEF Place
<1>3. x % Span = IF x >= Span THEN x - Span ELSE IF x < 0 THEN x + Span ELSE x
  BY <1>2, ModNear
<1>4. x % Span = At(i + k)
  BY <1>1, <1>2, <1>3, SpanFacts DEF Place
<1> QED BY <1>4 DEF Plus

\* The difference of two numbers is that of their places.
LEMMA AtMinus ==
  ASSUME NEW i \in Place, NEW j \in Place
  PROVE  (At(j) - At(i)) % Span = IF i <= j THEN j - i ELSE j - i + Span
<1> DEFINE x == At(j) - At(i)
<1>1. /\ At(i) = IF Isn + i >= Span THEN Isn + i - Span ELSE Isn + i
      /\ At(j) = IF Isn + j >= Span THEN Isn + j - Span ELSE Isn + j
  BY AtFacts
<1>2. x \in Int /\ -Span <= x /\ x < 2 * Span
  BY <1>1, SpanFacts DEF Place
<1>3. x % Span = IF x >= Span THEN x - Span ELSE IF x < 0 THEN x + Span ELSE x
  BY <1>2, ModNear
<1> QED BY <1>1, <1>2, <1>3, SpanFacts DEF Place

\* The distance of a place's number from Isn is the place.
LEMMA AtPlace ==
  ASSUME NEW i \in Place
  PROVE  (At(i) - Isn) % Span = i
<1>1. At(0) = Isn /\ 0 \in Place
  BY AtFacts, SpanFacts DEF Place
<1>2. (At(i) - At(0)) % Span = IF 0 <= i THEN i - 0 ELSE i - 0 + Span
  BY <1>1, AtMinus
<1> QED BY <1>1, <1>2 DEF Place

\* Different places have different numbers.
LEMMA AtDifferent ==
  ASSUME NEW i \in Place, NEW j \in Place, At(i) = At(j)
  PROVE  i = j
  BY AtPlace

(***************************************************************************)
(* TCP_SEQ_LT and its relatives (tcp_priv.h 109-114) order two numbers as  *)
(* their places in the stream, wherever the numbers wrap.                  *)
(***************************************************************************)
LEMMA Compare ==
  ASSUME NEW i \in Place, NEW j \in Place
  PROVE  /\ Lt(At(i), At(j)) <=> i < j
         /\ Gt(At(i), At(j)) <=> i > j
         /\ Leq(At(i), At(j)) <=> i <= j
         /\ Geq(At(i), At(j)) <=> i >= j
<1>1. \A a, b \in Place : Lt(At(a), At(b)) <=> a < b
  <2> SUFFICES ASSUME NEW a \in Place, NEW b \in Place PROVE Lt(At(a), At(b)) <=> a < b
    OBVIOUS
  <2> DEFINE d == (At(a) - At(b)) % Span
  <2>1. d = IF b <= a THEN a - b ELSE a - b + Span
    BY AtMinus
  <2>2. Lt(At(a), At(b)) <=> d >= Half
    BY DEF Lt, Half
  <2> HIDE DEF d
  <2> QED BY <2>1, <2>2, SpanFacts DEF Place
<1>2. i \in Int /\ j \in Int
  BY DEF Place
<1> QED BY <1>1, <1>2 DEF Gt, Leq, Geq

-----------------------------------------------------------------------------
(* Segments of a stream of m bytes, by the places they begin and end at.   *)

SegSet(m) == [seq : 0 .. Span - 1, data : Seq(1 .. m), fin : BOOLEAN]
First(s)  == (s.seq - Isn) % Span
End(s)    == First(s) + Len(s.data)

\* s holds the client's bytes of its numbers, and a FIN only at the end.
Piece(s, m) ==
  /\ First(s) \in 0 .. m /\ End(s) \in First(s) .. m
  /\ s.fin \in BOOLEAN /\ (s.fin => End(s) = m)
  /\ s = Segment(First(s), End(s), s.fin)

\* What the client sends is a piece of its stream.
LEMMA SegmentFacts ==
  ASSUME NEW m \in 0 .. MaxStream, NEW i \in 0 .. m, NEW j \in i .. m,
         NEW f \in BOOLEAN, f => j = m
  PROVE  LET s == Segment(i, j, f) IN
         /\ s \in SegSet(m)
         /\ s.seq = At(i) /\ s.fin = f
         /\ Len(s.data) = j - i
         /\ \A k \in 1 .. j - i : s.data[k] = i + k
         /\ First(s) = i /\ End(s) = j
         /\ Piece(s, m)
<1> DEFINE s == Segment(i, j, f)
           d == [k \in 1 .. j - i |-> i + k]
<1>1. MaxStream \in Nat /\ m \in Nat /\ i \in Nat /\ j \in Nat /\ j - i \in Nat /\ m <= MaxStream
      /\ i <= j /\ j <= m
  BY SpanFacts
<1>2. i \in Place
  BY <1>1, SpanFacts DEF Place
<1>3. d \in Seq(1 .. m) /\ Len(d) = j - i
  <2>1. \A k \in 1 .. j - i : i + k \in 1 .. m
    BY <1>1
  <2> QED BY <1>1, <2>1
<1>4. \A k \in 1 .. j - i : d[k] = i + k
  OBVIOUS
<1>5. s = [seq |-> At(i), data |-> d, fin |-> f]
  BY DEF Segment, At
<1> HIDE DEF d, s
<1>6. s.seq = At(i) /\ s.data = d /\ s.fin = f
  BY <1>5
<1>7. s \in SegSet(m)
  BY <1>2, <1>3, <1>5, AtFacts DEF SegSet
<1>8. First(s) = i
  BY <1>2, <1>6, AtPlace DEF First
<1>9. End(s) = j
  BY <1>1, <1>3, <1>6, <1>8 DEF End
<1>10. Piece(s, m)
  BY <1>1, <1>6, <1>8, <1>9 DEF Piece, s
<1> QED BY <1>3, <1>4, <1>6, <1>7, <1>8, <1>9, <1>10 DEF s

\* The same in short.
LEMMA SegmentPiece ==
  ASSUME NEW m \in 0 .. MaxStream, NEW i \in 0 .. m, NEW j \in i .. m,
         NEW f \in BOOLEAN, f => j = m
  PROVE  /\ Piece(Segment(i, j, f), m) /\ First(Segment(i, j, f)) = i
         /\ End(Segment(i, j, f)) = j /\ Segment(i, j, f).fin = f
<1>1. \A g \in BOOLEAN : (g => j = m) =>
        LET t == Segment(i, j, g) IN
        /\ t \in SegSet(m)
        /\ t.seq = At(i) /\ t.fin = g
        /\ Len(t.data) = j - i
        /\ \A k \in 1 .. j - i : t.data[k] = i + k
        /\ First(t) = i /\ End(t) = j
        /\ Piece(t, m)
  BY SegmentFacts
<1> QED BY <1>1, Zenon

\* A piece's bytes, length and numbers follow from where it begins and ends.
LEMMA PieceFacts ==
  ASSUME NEW m \in 0 .. MaxStream, NEW s, Piece(s, m)
  PROVE  /\ s \in SegSet(m)
         /\ First(s) \in 0 .. m /\ End(s) \in 0 .. m /\ First(s) <= End(s)
         /\ First(s) \in Place /\ End(s) \in Place
         /\ s.fin \in BOOLEAN /\ (s.fin => End(s) = m)
         /\ s.seq = At(First(s)) /\ DataEnd(s) = At(End(s))
         /\ Len(s.data) = End(s) - First(s)
         /\ TcpLen(s) = End(s) - First(s) + IF s.fin THEN 1 ELSE 0
         /\ \A k \in 1 .. End(s) - First(s) : s.data[k] = First(s) + k
<1> SUFFICES ASSUME NEW i, NEW j, i = First(s), j = End(s)
             PROVE  /\ s \in SegSet(m)
                    /\ i \in 0 .. m /\ j \in 0 .. m /\ i <= j
                    /\ i \in Place /\ j \in Place
                    /\ s.fin \in BOOLEAN /\ (s.fin => j = m)
                    /\ s.seq = At(i) /\ DataEnd(s) = At(j)
                    /\ Len(s.data) = j - i
                    /\ TcpLen(s) = j - i + IF s.fin THEN 1 ELSE 0
                    /\ \A k \in 1 .. j - i : s.data[k] = i + k
  OBVIOUS
<1>1. /\ i \in 0 .. m /\ j \in i .. m /\ s.fin \in BOOLEAN /\ (s.fin => j = m)
      /\ s = Segment(i, j, s.fin)
  BY DEF Piece
<1>2. /\ s \in SegSet(m)
      /\ s.seq = At(i) /\ Len(s.data) = j - i
      /\ \A k \in 1 .. j - i : s.data[k] = i + k
  <2>1. \A f \in BOOLEAN : (f => j = m) =>
          LET t == Segment(i, j, f) IN
          /\ t \in SegSet(m) /\ t.seq = At(i) /\ Len(t.data) = j - i
          /\ \A k \in 1 .. j - i : t.data[k] = i + k
    BY <1>1, SegmentFacts
  <2> QED BY <1>1, <2>1, Zenon
<1>3. i \in Place /\ j \in Place /\ i + (j - i) = j /\ j - i \in Int /\ j \in 0 .. m /\ i <= j
  BY <1>1, SpanFacts DEF Place
<1>4. DataEnd(s) = At(j)
  BY <1>2, <1>3, AtPlus DEF DataEnd
<1>5. TcpLen(s) = j - i + IF s.fin THEN 1 ELSE 0
  BY <1>2 DEF TcpLen
<1>6. i \in 0 .. m /\ j \in 0 .. m /\ i <= j /\ i \in Place /\ j \in Place
  BY <1>1, <1>3
<1>7. s.fin \in BOOLEAN /\ (s.fin => j = m)
  BY <1>1
<1> QED BY <1>2, <1>4, <1>5, <1>6, <1>7, Zenon

\* A piece with another FIN flag.
LEMMA Refin ==
  ASSUME NEW s, NEW m, s \in SegSet(m), NEW i, NEW j, s = Segment(i, j, s.fin), NEW f
  PROVE  [s EXCEPT !.fin = f] = Segment(i, j, f)
<1> DEFINE t == Segment(i, j, f)
<1>1. s.seq = t.seq /\ s.data = t.data
  BY DEF Segment
<1>2. t = [seq |-> t.seq, data |-> t.data, fin |-> f]
  BY DEF Segment
<1>3. s = [seq |-> s.seq, data |-> s.data, fin |-> s.fin]
  BY DEF SegSet
<1>4. [s EXCEPT !.fin = f] = [seq |-> s.seq, data |-> s.data, fin |-> f]
  BY <1>3
<1> QED BY <1>1, <1>2, <1>4, Zenon

\* A part of a sequence.
LEMMA SubSeqPart ==
  ASSUME NEW S, NEW t \in Seq(S), NEW a \in Int, NEW b \in Int,
         1 <= a, a <= b + 1, b <= Len(t)
  PROVE  /\ SubSeq(t, a, b) \in Seq(S) /\ Len(SubSeq(t, a, b)) = b - a + 1
         /\ \A k \in 1 .. b - a + 1 : SubSeq(t, a, b)[k] = t[a + k - 1]
<1>1. \A k \in a .. b : t[k] \in S
  <2> SUFFICES ASSUME NEW k \in a .. b PROVE t[k] \in S
    OBVIOUS
  <2>1. k \in 1 .. Len(t)
    BY LenProperties
  <2> QED BY <2>1, ElementOfSeq
<1>2. /\ SubSeq(t, a, b) \in Seq(S)
      /\ Len(SubSeq(t, a, b)) = IF a <= b THEN b - a + 1 ELSE 0
      /\ \A k \in 1 .. b - a + 1 : SubSeq(t, a, b)[k] = t[a + k - 1]
  BY <1>1, SubSeqProperties
<1>3. (IF a <= b THEN b - a + 1 ELSE 0) = b - a + 1
  OBVIOUS
<1> QED BY <1>2, <1>3

\* A piece that is cut at its end (pbuf_realloc).
LEMMA UpToPiece ==
  ASSUME NEW m \in 0 .. MaxStream, NEW s, Piece(s, m), ~s.fin,
         NEW q \in First(s) .. End(s)
  PROVE  /\ Piece(UpTo(s, At(q)), m)
         /\ First(UpTo(s, At(q))) = First(s) /\ End(UpTo(s, At(q))) = q
         /\ ~UpTo(s, At(q)).fin
<1> DEFINE i == First(s)
           j == End(s)
           d == SubSeq(s.data, 1, q - i)
<1>1. /\ i \in 0 .. m /\ j \in 0 .. m /\ i <= j /\ i \in Place /\ s \in SegSet(m)
      /\ s.seq = At(i) /\ Len(s.data) = j - i
      /\ \A k \in 1 .. j - i : s.data[k] = i + k
  BY PieceFacts
<1>2. q \in i .. j
  OBVIOUS
<1> HIDE DEF i, j
<1>3. q \in Place /\ i <= q /\ q \in i .. m /\ i \in Nat /\ q \in Nat /\ q - i \in 0 .. j - i
  BY <1>1, <1>2, SpanFacts DEF Place
<1>4. (At(q) - s.seq) % Span = q - i
  BY <1>1, <1>3, AtMinus
<1>5. d = [k \in 1 .. q - i |-> i + k]
  <2>1. s.data \in Seq(1 .. m)
    BY <1>1 DEF SegSet
  <2>2. d \in Seq(1 .. m) /\ Len(d) = q - i /\ \A k \in 1 .. q - i : d[k] = s.data[k]
    <3> DEFINE b == q - i
    <3>1. b \in Int /\ 1 \in Int /\ 1 <= 1 /\ 1 <= b + 1 /\ b <= Len(s.data) /\ b - 1 + 1 = b
      BY <1>1, <1>3
    <3> HIDE DEF b
    <3>2. /\ SubSeq(s.data, 1, b) \in Seq(1 .. m) /\ Len(SubSeq(s.data, 1, b)) = b - 1 + 1
          /\ \A k \in 1 .. b - 1 + 1 : SubSeq(s.data, 1, b)[k] = s.data[1 + k - 1]
      BY <2>1, <3>1, SubSeqPart
    <3>3. \A k \in 1 .. b : 1 + k - 1 = k
      BY <3>1
    <3>4. /\ SubSeq(s.data, 1, b) \in Seq(1 .. m) /\ Len(SubSeq(s.data, 1, b)) = b
          /\ \A k \in 1 .. b : SubSeq(s.data, 1, b)[k] = s.data[k]
      BY <3>1, <3>2, <3>3
    <3> QED BY <3>4, Zenon DEF b
  <2> HIDE DEF d
  <2>3. DOMAIN d = 1 .. q - i /\ d = [k \in DOMAIN d |-> d[k]]
    BY <1>3, <2>2
  <2>4. \A k \in 1 .. q - i : d[k] = i + k
    <3>1. \A k \in 1 .. q - i : k \in 1 .. j - i
      BY <1>1, <1>3
    <3> QED BY <1>1, <2>2, <3>1, Zenon
  <2>5. d = [k \in 1 .. q - i |-> d[k]]
    BY <2>3, Zenon
  <2>6. [k \in 1 .. q - i |-> d[k]] = [k \in 1 .. q - i |-> i + k]
    BY <2>4, Zenon
  <2> QED BY <2>5, <2>6, Zenon
<1>6. UpTo(s, At(q)) = [s EXCEPT !.data = d]
  BY <1>4 DEF UpTo
<1> HIDE DEF d
<1>7. UpTo(s, At(q)) = Segment(i, q, FALSE)
  BY <1>1, <1>5, <1>6 DEF SegSet, Segment, At
<1>8. FALSE \in BOOLEAN /\ (FALSE => q = m) /\ i \in 0 .. m /\ q \in i .. m
  BY <1>1, <1>3
<1>9. /\ First(Segment(i, q, FALSE)) = i /\ End(Segment(i, q, FALSE)) = q
      /\ Piece(Segment(i, q, FALSE), m) /\ Segment(i, q, FALSE).fin = FALSE
  BY <1>8, SegmentPiece
<1> QED BY <1>7, <1>9, Zenon DEF i

\* A piece that is cut to the window (lines 1465-1494).
LEMMA UpToWithoutFinPiece ==
  ASSUME NEW m \in 0 .. MaxStream, NEW s, Piece(s, m), NEW q \in First(s) .. End(s)
  PROVE  /\ Piece(UpToWithoutFin(s, At(q)), m)
         /\ First(UpToWithoutFin(s, At(q))) = First(s)
         /\ End(UpToWithoutFin(s, At(q))) = q
         /\ ~UpToWithoutFin(s, At(q)).fin
<1> DEFINE i == First(s)
           j == End(s)
           r == [s EXCEPT !.fin = FALSE]
<1>1. /\ i \in 0 .. m /\ j \in i .. m /\ s = Segment(i, j, s.fin)
      /\ s \in SegSet(m)
  BY PieceFacts DEF Piece
<1>2. q \in i .. j
  OBVIOUS
<1> HIDE DEF i, j
<1>3. r = Segment(i, j, FALSE)
  <2>1. \A f : [s EXCEPT !.fin = f] = Segment(i, j, f)
    BY <1>1, Refin
  <2> QED BY <2>1, Zenon
<1>4. Piece(r, m) /\ First(r) = i /\ End(r) = j /\ ~r.fin
  <2>1. FALSE \in BOOLEAN /\ (FALSE => j = m)
    OBVIOUS
  <2> HIDE DEF r
  <2> QED BY <1>1, <1>3, <2>1, SegmentPiece
<1>5. UpToWithoutFin(s, At(q)) = UpTo(r, At(q))
  BY <1>1 DEF UpToWithoutFin, UpTo, Segment
<1> HIDE DEF r
<1> QED BY <1>2, <1>4, <1>5, UpToPiece DEF i

\* A piece that takes over the FIN of one it covers (lines 1072-1083).
LEMMA WithFinPiece ==
  ASSUME NEW m \in 0 .. MaxStream, NEW s, Piece(s, m), NEW f \in BOOLEAN, f => End(s) = m
  PROVE  /\ Piece([s EXCEPT !.fin = f], m)
         /\ First([s EXCEPT !.fin = f]) = First(s)
         /\ End([s EXCEPT !.fin = f]) = End(s)
         /\ [s EXCEPT !.fin = f].fin = f
<1> DEFINE i == First(s)
           j == End(s)
           r == [s EXCEPT !.fin = f]
<1>1. /\ i \in 0 .. m /\ j \in i .. m /\ s = Segment(i, j, s.fin) /\ (f => j = m)
      /\ s \in SegSet(m)
  BY PieceFacts DEF Piece
<1> HIDE DEF i, j
<1>3. r = Segment(i, j, f)
  BY <1>1, Refin
<1> HIDE DEF r
<1>4. Piece(r, m) /\ First(r) = i /\ End(r) = j /\ r.fin = f
  <2>1. /\ Piece(Segment(i, j, f), m) /\ First(Segment(i, j, f)) = i
        /\ End(Segment(i, j, f)) = j /\ Segment(i, j, f).fin = f
    BY <1>1, SegmentPiece, Zenon
  <2> QED BY <1>3, <2>1, Zenon
<1> QED BY <1>4 DEF i, j, r

\* A piece whose old bytes have been cut off (lines 1410-1449).
LEMMA FromPiece ==
  ASSUME NEW m \in 0 .. MaxStream, NEW s, Piece(s, m), NEW q \in First(s) .. End(s)
  PROVE  /\ Piece(From(s, At(q)), m)
         /\ First(From(s, At(q))) = q /\ End(From(s, At(q))) = End(s)
         /\ From(s, At(q)).fin = s.fin
<1> DEFINE i == First(s)
           j == End(s)
           d == SubSeq(s.data, q - i + 1, j - i)
<1>1. /\ i \in 0 .. m /\ j \in 0 .. m /\ i <= j /\ i \in Place /\ s \in SegSet(m)
      /\ s.seq = At(i) /\ Len(s.data) = j - i /\ (s.fin => j = m) /\ s.fin \in BOOLEAN
      /\ \A k \in 1 .. j - i : s.data[k] = i + k
  BY PieceFacts
<1>2. q \in i .. j
  OBVIOUS
<1> HIDE DEF i, j
<1>3. q \in Place /\ i <= q /\ q \in i .. m /\ i \in Nat /\ q \in Nat /\ q - i \in 0 .. j - i
      /\ j - q \in Nat /\ j \in q .. m /\ q \in 0 .. m /\ j \in Nat
  BY <1>1, <1>2, SpanFacts DEF Place
<1>4. (At(q) - s.seq) % Span = q - i
  BY <1>1, <1>3, AtMinus
<1>5. d = [k \in 1 .. j - q |-> q + k]
  <2>1. s.data \in Seq(1 .. m)
    BY <1>1 DEF SegSet
  <2>2. d \in Seq(1 .. m) /\ Len(d) = j - q
        /\ \A k \in 1 .. j - q : d[k] = s.data[q - i + k]
    <3> DEFINE a == q - i + 1
               b == j - i
               t == s.data
               S == 1 .. m
    <3>1. b - a + 1 = j - q /\ \A k \in Int : a + k - 1 = q - i + k
      BY <1>1, <1>3
    <3>a. a \in Int /\ b \in Int /\ 1 <= a /\ a <= b + 1 /\ b <= Len(t) /\ t \in Seq(S)
      BY <1>1, <1>3, <2>1
    <3> HIDE DEF a, b, t, S
    <3>2. /\ SubSeq(t, a, b) \in Seq(S) /\ Len(SubSeq(t, a, b)) = b - a + 1
          /\ \A k \in 1 .. b - a + 1 : SubSeq(t, a, b)[k] = t[a + k - 1]
      BY <3>a, SubSeqPart
    <3>3. Len(SubSeq(t, a, b)) = j - q
      BY <3>1, <3>2
    <3>4. ASSUME NEW k \in 1 .. j - q
          PROVE  SubSeq(t, a, b)[k] = t[q - i + k]
      <4>1. k \in 1 .. b - a + 1 /\ a + k - 1 = q - i + k
        BY <3>1
      <4> QED BY <3>2, <4>1
    <3>5. /\ SubSeq(t, a, b) \in Seq(S) /\ Len(SubSeq(t, a, b)) = j - q
          /\ \A k \in 1 .. j - q : SubSeq(t, a, b)[k] = t[q - i + k]
      BY <3>2, <3>3, <3>4, Zenon
    <3> QED BY <3>5, Zenon DEF a, b, t, S
  <2> HIDE DEF d
  <2>3. DOMAIN d = 1 .. j - q /\ d = [k \in DOMAIN d |-> d[k]]
    BY <1>3, <2>2
  <2>4. \A k \in 1 .. j - q : d[k] = q + k
    <3> SUFFICES ASSUME NEW k \in 1 .. j - q PROVE d[k] = q + k
      OBVIOUS
    <3>1. q - i + k \in 1 .. j - i /\ i + (q - i + k) = q + k
      BY <1>3
    <3> QED BY <1>1, <2>2, <3>1
  <2> QED BY <2>3, <2>4
<1>6. From(s, At(q)) = [s EXCEPT !.seq = At(q), !.data = d]
  BY <1>1, <1>4 DEF From
<1> HIDE DEF d
<1>7. From(s, At(q)) = Segment(q, j, s.fin)
  BY <1>1, <1>5, <1>6 DEF SegSet, Segment, At
<1> QED BY <1>1, <1>3, <1>7, SegmentFacts DEF j

-----------------------------------------------------------------------------
(* Queues of pieces from place lo on, apart and in order; only the last    *)
(* has a FIN.                                                              *)

Queue(l, lo, m) ==
  /\ l \in Seq(SegSet(m))
  /\ \A i \in 1 .. Len(l) :
       Piece(l[i], m) /\ First(l[i]) >= lo /\ (l[i].fin => i = Len(l))
  /\ \A i, j \in 1 .. Len(l) : i < j => End(l[i]) <= First(l[j])

\* One that ends by place hi and goes on behind it.
Ahead(l, hi) == \A i \in 1 .. Len(l) : End(l[i]) <= hi /\ ~l[i].fin

\* The entries of a queue, one by one.
LEMMA QueueFacts ==
  ASSUME NEW m \in 0 .. MaxStream, NEW lo, NEW l, Queue(l, lo, m)
  PROVE  /\ Len(l) \in Nat /\ l \in Seq(SegSet(m))
         /\ \A i \in 1 .. Len(l) :
              /\ Piece(l[i], m) /\ l[i] \in SegSet(m)
              /\ First(l[i]) \in 0 .. m /\ End(l[i]) \in 0 .. m
              /\ First(l[i]) <= End(l[i]) /\ First(l[i]) >= lo
              /\ First(l[i]) \in Int /\ End(l[i]) \in Int
<1>1. Len(l) \in Nat /\ l \in Seq(SegSet(m))
  BY LenProperties DEF Queue
<1>2. ASSUME NEW i \in 1 .. Len(l)
      PROVE  /\ Piece(l[i], m) /\ l[i] \in SegSet(m)
             /\ First(l[i]) \in 0 .. m /\ End(l[i]) \in 0 .. m
             /\ First(l[i]) <= End(l[i]) /\ First(l[i]) >= lo
             /\ First(l[i]) \in Int /\ End(l[i]) \in Int
  <2>1. Piece(l[i], m) /\ First(l[i]) >= lo
    BY DEF Queue
  <2>2. /\ l[i] \in SegSet(m) /\ First(l[i]) \in 0 .. m /\ End(l[i]) \in 0 .. m
        /\ First(l[i]) <= End(l[i])
    BY <2>1, PieceFacts
  <2> QED BY <2>1, <2>2
<1> QED BY <1>1, <1>2

\* One piece is a queue.
LEMMA QueueOne ==
  ASSUME NEW m \in 0 .. MaxStream, NEW s, Piece(s, m), NEW lo \in Int, First(s) >= lo
  PROVE  Queue(<<s>>, lo, m) /\ Len(<<s>>) = 1 /\ <<s>>[1] = s
<1>1. s \in SegSet(m)
  BY PieceFacts
<1>2. <<s>> \in Seq(SegSet(m)) /\ Len(<<s>>) = 1 /\ <<s>>[1] = s
  BY <1>1
<1>3. \A i \in 1 .. Len(<<s>>) : i = 1
  BY <1>2
<1> QED BY <1>2, <1>3 DEF Queue

\* So is none.
LEMMA QueueNone ==
  ASSUME NEW m, NEW lo
  PROVE  Queue(<<>>, lo, m) /\ Len(<<>>) = 0
<1>1. <<>> \in Seq(SegSet(m)) /\ Len(<<>>) = 0 /\ 1 .. 0 = {}
  OBVIOUS
<1> QED BY <1>1 DEF Queue

\* Any part of a queue is one.
LEMMA QueuePart ==
  ASSUME NEW m \in 0 .. MaxStream, NEW lo \in Int, NEW l, Queue(l, lo, m),
         NEW a \in 1 .. Len(l) + 1, NEW b \in a - 1 .. Len(l), NEW lo2 \in Int,
         a <= b => First(l[a]) >= lo2
  PROVE  LET p == SubSeq(l, a, b) IN
         /\ Queue(p, lo2, m) /\ Len(p) = b - a + 1
         /\ \A i \in 1 .. b - a + 1 : p[i] = l[a + i - 1]
         /\ b < Len(l) => \A i \in 1 .. b - a + 1 : ~p[i].fin
<1> DEFINE p == SubSeq(l, a, b)
<1>1. Len(l) \in Nat /\ l \in Seq(SegSet(m))
  BY LenProperties DEF Queue
<1>2. a \in Int /\ b \in Int /\ b - a + 1 \in Nat /\ 1 <= a /\ b <= Len(l)
  BY <1>1
<1>3. \A i \in a .. b : i \in 1 .. Len(l) /\ l[i] \in SegSet(m)
  BY <1>1, <1>2
<1>4. p \in Seq(SegSet(m)) /\ Len(p) = b - a + 1 /\ \A i \in 1 .. b - a + 1 : p[i] = l[a + i - 1]
  <2>1. /\ p \in Seq(SegSet(m)) /\ Len(p) = IF a <= b THEN b - a + 1 ELSE 0
        /\ \A i \in 1 .. b - a + 1 : p[i] = l[a + i - 1]
    BY <1>2, <1>3, SubSeqProperties
  <2> QED BY <1>2, <2>1
<1> HIDE DEF p
<1>5. \A i \in 1 .. Len(p) :
        /\ Piece(p[i], m) /\ First(p[i]) >= lo2 /\ (p[i].fin => i = Len(p))
        /\ b < Len(l) => ~p[i].fin
  <2> SUFFICES ASSUME NEW i \in 1 .. Len(p)
               PROVE  /\ Piece(p[i], m) /\ First(p[i]) >= lo2 /\ (p[i].fin => i = Len(p))
                      /\ b < Len(l) => ~p[i].fin
    OBVIOUS
  <2>a. i \in 1 .. b - a + 1
    BY <1>4
  <2>b. a + i - 1 \in 1 .. Len(l) /\ a \in 1 .. Len(l) /\ a <= b
    BY <1>1, <1>2, <2>a
  <2>1. a + i - 1 \in 1 .. Len(l) /\ p[i] = l[a + i - 1] /\ a \in 1 .. Len(l) /\ a <= b
    BY <1>4, <2>a, <2>b, Zenon
  <2>2. Piece(l[a + i - 1], m) /\ (l[a + i - 1].fin => a + i - 1 = Len(l))
    BY <2>1 DEF Queue
  <2>3. First(l[a + i - 1]) >= First(l[a])
    <3>1. CASE i = 1
      <4>1. a + i - 1 = a
        BY <1>2, <3>1
      <4>2. First(l[a]) \in Int
        BY <2>1, PieceFacts DEF Queue
      <4> QED BY <4>1, <4>2
    <3>2. CASE i # 1
      <4>1. End(l[a]) <= First(l[a + i - 1])
        BY <1>2, <2>1, <3>2, SMTT(30) DEF Queue
      <4>2. /\ First(l[a]) \in Int /\ End(l[a]) \in Int /\ First(l[a]) <= End(l[a])
            /\ First(l[a + i - 1]) \in Int
        BY <2>1, QueueFacts
      <4> QED BY <4>1, <4>2
    <3> QED BY <3>1, <3>2
  <2>4. First(l[a]) \in Int /\ First(l[a + i - 1]) \in Int /\ First(l[a]) >= lo2
    BY <2>1, QueueFacts
  <2>5. First(p[i]) >= lo2 /\ Piece(p[i], m)
    BY <2>1, <2>2, <2>3, <2>4
  <2>6. p[i].fin => a + i - 1 = Len(l)
    BY <2>1, <2>2
  <2>7. (a + i - 1 = Len(l)) => i = Len(p) /\ ~(b < Len(l))
    BY <1>1, <1>2, <1>4
  <2> QED BY <2>5, <2>6, <2>7, Zenon
<1>6. \A i, j \in 1 .. Len(p) : i < j => End(p[i]) <= First(p[j])
  <2> SUFFICES ASSUME NEW i \in 1 .. Len(p), NEW j \in 1 .. Len(p), i < j
               PROVE  End(p[i]) <= First(p[j])
    OBVIOUS
  <2>1. i \in 1 .. b - a + 1 /\ j \in 1 .. b - a + 1
    BY <1>4
  <2>2. p[i] = l[a + i - 1] /\ p[j] = l[a + j - 1]
    BY <1>4, <2>1
  <2>3. a + i - 1 \in 1 .. Len(l) /\ a + j - 1 \in 1 .. Len(l) /\ a + i - 1 < a + j - 1
    BY <1>1, <1>2, <2>1
  <2> QED BY <2>2, <2>3 DEF Queue
<1>7. Queue(p, lo2, m)
  BY <1>4, <1>5, <1>6 DEF Queue
<1> QED BY <1>4, <1>5, <1>7 DEF p

\* What is in front of an entry ends before it and has no FIN.
LEMMA QueueFore ==
  ASSUME NEW m \in 0 .. MaxStream, NEW lo \in Int, NEW l, Queue(l, lo, m),
         NEW p \in Nat, p < Len(l)
  PROVE  LET a == SubSeq(l, 1, p) IN
         /\ Queue(a, lo, m) /\ Len(a) = p
         /\ \A i \in 1 .. p : a[i] = l[i]
         /\ Ahead(a, First(l[p + 1]))
<1> DEFINE a == SubSeq(l, 1, p)
<1>1. Len(l) \in Nat
  BY QueueFacts
<1>2. 1 \in 1 .. Len(l) + 1 /\ p \in 1 - 1 .. Len(l)
  BY <1>1
<1>3. 1 <= p => First(l[1]) >= lo
  BY <1>1, QueueFacts
<1>4. /\ Queue(a, lo, m) /\ Len(a) = p - 1 + 1
      /\ \A i \in 1 .. p - 1 + 1 : a[i] = l[1 + i - 1]
      /\ p < Len(l) => \A i \in 1 .. p - 1 + 1 : ~a[i].fin
  BY <1>2, <1>3, QueuePart
<1> HIDE DEF a
<1>5. /\ Len(a) = p
      /\ \A i \in 1 .. p : a[i] = l[i] /\ ~a[i].fin
  BY <1>1, <1>4
<1>6. \A i \in 1 .. Len(a) : End(a[i]) <= First(l[p + 1]) /\ ~a[i].fin
  <2> SUFFICES ASSUME NEW i \in 1 .. p PROVE End(l[i]) <= First(l[p + 1])
    BY <1>5
  <2>1. i \in 1 .. Len(l) /\ p + 1 \in 1 .. Len(l) /\ i < p + 1
    BY <1>1
  <2> QED BY <2>1 DEF Queue
<1> QED BY <1>4, <1>5, <1>6 DEF a, Ahead

\* Two queues, one ahead of the other, make one.
LEMMA QueueJoin ==
  ASSUME NEW m \in 0 .. MaxStream, NEW lo \in Int, NEW hi \in Int, lo <= hi,
         NEW a, Queue(a, lo, m), Ahead(a, hi), NEW b, Queue(b, hi, m)
  PROVE  /\ Queue(a \o b, lo, m) /\ Len(a \o b) = Len(a) + Len(b)
         /\ \A i \in 1 .. Len(a) + Len(b) :
              (a \o b)[i] = IF i <= Len(a) THEN a[i] ELSE b[i - Len(a)]
<1> DEFINE c == a \o b
<1>1. /\ Len(a) \in Nat /\ Len(b) \in Nat
      /\ a \in Seq(SegSet(m)) /\ b \in Seq(SegSet(m))
  BY LenProperties DEF Queue
<1>2. /\ c \in Seq(SegSet(m)) /\ Len(c) = Len(a) + Len(b)
      /\ \A i \in 1 .. Len(a) + Len(b) : c[i] = IF i <= Len(a) THEN a[i] ELSE b[i - Len(a)]
  BY <1>1, ConcatProperties, Zenon
<1> HIDE DEF c
<1>3. \A i \in 1 .. Len(c) :
        \/ i \in 1 .. Len(a) /\ c[i] = a[i]
        \/ i > Len(a) /\ i - Len(a) \in 1 .. Len(b) /\ c[i] = b[i - Len(a)]
  BY <1>1, <1>2
<1>4. \A i \in 1 .. Len(c) :
        Piece(c[i], m) /\ First(c[i]) >= lo /\ (c[i].fin => i = Len(c))
  <2> SUFFICES ASSUME NEW i \in 1 .. Len(c)
               PROVE  Piece(c[i], m) /\ First(c[i]) >= lo /\ (c[i].fin => i = Len(c))
    OBVIOUS
  <2>1. CASE i \in 1 .. Len(a) /\ c[i] = a[i]
    BY <2>1 DEF Queue, Ahead
  <2>2. CASE i > Len(a) /\ i - Len(a) \in 1 .. Len(b) /\ c[i] = b[i - Len(a)]
    <3>1. /\ Piece(c[i], m) /\ First(c[i]) >= hi
          /\ (c[i].fin => i - Len(a) = Len(b))
      BY <2>2 DEF Queue
    <3>2. First(c[i]) \in Int
      BY <3>1, PieceFacts
    <3> QED BY <1>1, <1>2, <3>1, <3>2
  <2> QED BY <1>3, <2>1, <2>2
<1>5. \A i, j \in 1 .. Len(c) : i < j => End(c[i]) <= First(c[j])
  <2> SUFFICES ASSUME NEW i \in 1 .. Len(c), NEW j \in 1 .. Len(c), i < j
               PROVE  End(c[i]) <= First(c[j])
    OBVIOUS
  <2>1. CASE i \in 1 .. Len(a) /\ c[i] = a[i] /\ j \in 1 .. Len(a) /\ c[j] = a[j]
    BY <2>1 DEF Queue
  <2>2. CASE /\ i \in 1 .. Len(a) /\ c[i] = a[i]
             /\ j > Len(a) /\ j - Len(a) \in 1 .. Len(b) /\ c[j] = b[j - Len(a)]
    <3>1. End(c[i]) <= hi /\ First(c[j]) >= hi
      BY <2>2 DEF Queue, Ahead
    <3>2. End(c[i]) \in Int /\ First(c[j]) \in Int
      BY <1>4, PieceFacts
    <3> QED BY <3>1, <3>2
  <2>3. CASE /\ i > Len(a) /\ i - Len(a) \in 1 .. Len(b) /\ c[i] = b[i - Len(a)]
             /\ j > Len(a) /\ j - Len(a) \in 1 .. Len(b) /\ c[j] = b[j - Len(a)]
    <3>1. i - Len(a) < j - Len(a)
      BY <1>1, <1>2
    <3> QED BY <2>3, <3>1 DEF Queue
  <2>4. ~(i > Len(a) /\ j \in 1 .. Len(a))
    BY <1>1, <1>2
  <2> QED BY <1>3, <2>1, <2>2, <2>3, <2>4
<1> QED BY <1>2, <1>4, <1>5 DEF Queue, c

-----------------------------------------------------------------------------
(* A segment among the queued ones.                                        *)

\* A set of numbers has a least element.
LEMMA LeastElement ==
  ASSUME NEW T, T \subseteq Nat, T # {}
  PROVE  \E i \in T : \A j \in T : i <= j
<1>1. PICK i \in T : \A j \in T : <<j, i>> \notin OpToRel(<, Nat)
  BY NatLessThanWellFounded, WFMin
<1>2. \A j \in T : ~(j < i)
  BY <1>1 DEF OpToRel
<1> QED BY <1>2

\* What does not hold everywhere fails somewhere first.
LEMMA FirstFailure ==
  ASSUME NEW l \in Nat, NEW P
  PROVE  \E k \in 0 .. l : /\ \A i \in 1 .. k : P[i]
                           /\ k < l => ~P[k + 1]
<1> DEFINE T == {i \in 1 .. l + 1 : i <= l => ~P[i]}
<1>1. T \subseteq Nat /\ l + 1 \in T
  OBVIOUS
<1>2. PICK p \in T : \A j \in T : p <= j
  BY <1>1, LeastElement
<1>3. p \in 1 .. l + 1 /\ p - 1 \in 0 .. l /\ (p <= l => ~P[p]) /\ p = (p - 1) + 1
  BY <1>2
<1>4. \A i \in 1 .. p - 1 : P[i]
  <2> SUFFICES ASSUME NEW i \in 1 .. p - 1, ~P[i] PROVE FALSE
    OBVIOUS
  <2>1. i \in T /\ ~(p <= i)
    BY <1>3
  <2> QED BY <1>2, <2>1
<1>5. p - 1 < l => ~P[(p - 1) + 1]
  BY <1>3
<1> QED BY <1>3, <1>4, <1>5

\* Covered counts the entries that a segment reaches the end of.
LEMMA CoveredFacts ==
  ASSUME NEW m \in 0 .. MaxStream, NEW lo, NEW l, Queue(l, lo, m), NEW s, Piece(s, m)
  PROVE  /\ Covered(s, l) \in 0 .. Len(l)
         /\ \A i \in 1 .. Covered(s, l) : End(l[i]) <= End(s)
         /\ Covered(s, l) < Len(l) => End(s) < End(l[Covered(s, l) + 1])
<1> DEFINE Test == [i \in 1 .. Len(l) |-> Geq(DataEnd(s), DataEnd(l[i]))]
<1>1. Len(l) \in Nat
  BY QueueFacts
<1>2. \A i \in 1 .. Len(l) : Geq(DataEnd(s), DataEnd(l[i])) <=> End(l[i]) <= End(s)
  <2> SUFFICES ASSUME NEW i \in 1 .. Len(l)
               PROVE  Geq(DataEnd(s), DataEnd(l[i])) <=> End(l[i]) <= End(s)
    OBVIOUS
  <2>1. Piece(l[i], m)
    BY DEF Queue
  <2>2. /\ DataEnd(s) = At(End(s)) /\ End(s) \in Place
        /\ DataEnd(l[i]) = At(End(l[i])) /\ End(l[i]) \in Place
    BY <2>1, PieceFacts
  <2>3. Geq(At(End(s)), At(End(l[i]))) <=> End(s) >= End(l[i])
    BY <2>2, Compare
  <2>4. End(s) \in Int /\ End(l[i]) \in Int
    BY <2>2 DEF Place
  <2> QED BY <2>2, <2>3, <2>4
<1>3. PICK k \in 0 .. Len(l) : (\A i \in 1 .. k : Test[i]) /\ (k < Len(l) => ~Test[k + 1])
  <2> HIDE DEF Test
  <2> QED BY <1>1, FirstFailure
<1>4. /\ \A i \in 1 .. k : Geq(DataEnd(s), DataEnd(l[i]))
      /\ k < Len(l) => ~Geq(DataEnd(s), DataEnd(l[k + 1]))
  BY <1>1, <1>3
<1> DEFINE c == Covered(s, l)
<1>5. /\ c \in 0 .. Len(l)
      /\ \A i \in 1 .. c : Geq(DataEnd(s), DataEnd(l[i]))
      /\ c < Len(l) => ~Geq(DataEnd(s), DataEnd(l[c + 1]))
  BY <1>4, Zenon DEF Covered
<1> HIDE DEF c
<1>6. \A i \in 1 .. c : End(l[i]) <= End(s)
  BY <1>1, <1>2, <1>5
<1>7. c < Len(l) => End(s) < End(l[c + 1])
  <2> SUFFICES ASSUME c < Len(l) PROVE End(s) < End(l[c + 1])
    OBVIOUS
  <2>1. c + 1 \in 1 .. Len(l)
    BY <1>1, <1>5
  <2>2. ~(End(l[c + 1]) <= End(s))
    BY <1>2, <1>5, <2>1
  <2>3. End(l[c + 1]) \in Int /\ End(s) \in Int
    <3>1. Piece(l[c + 1], m)
      BY <2>1 DEF Queue
    <3> QED BY <3>1, PieceFacts
  <2> QED BY <2>2, <2>3
<1> QED BY <1>5, <1>6, <1>7 DEF c

\* Where a segment ends, its FIN included, and a queue that goes no farther.
Stop(s)       == End(s) + IF s.fin THEN 1 ELSE 0
Within(l, hi) == \A i \in 1 .. Len(l) : Stop(l[i]) <= hi

\* A queue of one segment.
LEMMA WithinOne ==
  ASSUME NEW x, NEW hi, Stop(x) <= hi
  PROVE  Within(<<x>>, hi)
<1>1. \A i \in 1 .. Len(<<x>>) : <<x>>[i] = x
  OBVIOUS
<1> QED BY <1>1 DEF Within

(***************************************************************************)
(* tcp_oos_insert_segment puts a segment in front of entries that begin    *)
(* no earlier: what it covers goes, what it overlaps stays as it is, and   *)
(* the queue goes no farther than the segment or the queue did.            *)
(***************************************************************************)
LEMMA BeforeQueue ==
  ASSUME NEW m \in 0 .. MaxStream, NEW s, Piece(s, m), NEW l, Queue(l, First(s), m)
  PROVE  /\ Queue(Before(s, l), First(s), m)
         /\ Len(Before(s, l)) \in 1 .. Len(l) + 1
         /\ First(Before(s, l)[1]) = First(s)
         /\ \A hi \in Int : Stop(s) <= hi /\ Within(l, hi) => Within(Before(s, l), hi)
<1> DEFINE k    == Covered(s, l)
           rest == SubSeq(l, k + 1, Len(l))
           f    == \E i \in 1 .. k : l[i].fin
           s1   == [s EXCEPT !.fin = f]
           x    == IF rest # <<>> /\ Gt(DataEnd(s), Head(rest).seq)
                   THEN UpTo(s1, Head(rest).seq) ELSE s1
<1>1. /\ First(s) \in Int /\ End(s) \in Int /\ First(s) <= End(s) /\ End(s) <= m
      /\ First(s) \in Place /\ End(s) \in Place
      /\ DataEnd(s) = At(End(s)) /\ m \in Nat
  BY PieceFacts
<1>2. Len(l) \in Nat
  BY QueueFacts
<1>3. /\ k \in 0 .. Len(l) /\ \A i \in 1 .. k : End(l[i]) <= End(s)
      /\ k < Len(l) => End(s) < End(l[k + 1])
  BY CoveredFacts
<1>4. CASE s.fin
  <2>1. Before(s, l) = <<s>>
    BY <1>4 DEF Before
  <2>2. First(s) >= First(s)
    BY <1>1
  <2>3. Queue(<<s>>, First(s), m) /\ Len(<<s>>) = 1 /\ <<s>>[1] = s
    BY <1>1, <2>2, QueueOne
  <2>4. \A hi \in Int : Stop(s) <= hi => Within(<<s>>, hi)
    BY WithinOne
  <2> QED BY <1>2, <2>1, <2>3, <2>4
<1>5. CASE ~s.fin
  <2>1. Before(s, l) = <<x>> \o rest
    BY <1>5 DEF Before
  <2> HIDE DEF k
  <2>2. CASE k = Len(l)
    <3>1. rest = <<>>
      BY <1>2, <2>2, SubSeqEmpty
    <3>2. /\ f \in BOOLEAN /\ (f => End(s) = m)
          /\ f => \E i \in 1 .. Len(l) : l[i].fin /\ End(l[i]) = m
      <4> SUFFICES ASSUME NEW i \in 1 .. k, l[i].fin
                   PROVE  End(s) = m /\ i \in 1 .. Len(l) /\ End(l[i]) = m
        OBVIOUS
      <4>1. Piece(l[i], m) /\ End(l[i]) <= End(s)
        BY <1>3, <2>2 DEF Queue
      <4>2. End(l[i]) = m
        BY <4>1, PieceFacts
      <4> QED BY <1>1, <2>2, <4>1, <4>2
    <3> HIDE DEF f
    <3>3. Piece(s1, m) /\ First(s1) = First(s) /\ End(s1) = End(s) /\ s1.fin = f
      BY <3>2, WithFinPiece
    <3>4. x = s1
      BY <3>1
    <3>5. Before(s, l) = <<s1>>
      <4>1. Before(s, l) = <<s1>> \o <<>>
        BY <2>1, <3>1, <3>4
      <4> HIDE DEF s1
      <4>2. <<s1>> \in Seq(SegSet(m))
        BY <3>3, PieceFacts
      <4> QED BY <4>1, <4>2, ConcatEmptySeq, Zenon
    <3> HIDE DEF s1
    <3>6. First(s1) >= First(s)
      BY <1>1, <3>3
    <3>7. Queue(<<s1>>, First(s), m) /\ Len(<<s1>>) = 1 /\ <<s1>>[1] = s1
      BY <1>1, <3>3, <3>6, QueueOne
    <3>8. \A hi \in Int : Stop(s) <= hi /\ Within(l, hi) => Within(<<s1>>, hi)
      <4> SUFFICES ASSUME NEW hi \in Int, Stop(s) <= hi, Within(l, hi)
                   PROVE  Stop(s1) <= hi
        BY WithinOne
      <4>1. CASE f
        <5>1. PICK i \in 1 .. Len(l) : l[i].fin /\ End(l[i]) = m
          BY <3>2, <4>1
        <5>2. m + 1 <= hi
          BY <5>1 DEF Within, Stop
        <5> QED BY <3>2, <3>3, <4>1, <5>2 DEF Stop
      <4>2. CASE ~f
        <5>1. End(s) <= hi
          BY <1>1, <1>5 DEF Stop
        <5> QED BY <1>1, <3>2, <3>3, <4>2, <5>1 DEF Stop
      <4> QED BY <4>1, <4>2
    <3> QED BY <1>2, <3>3, <3>5, <3>7, <3>8
  <2>3. CASE k # Len(l)
    <3> DEFINE h == l[k + 1]
    <3>1. k + 1 \in 1 .. Len(l) /\ Len(l) \in (k + 1) - 1 .. Len(l) /\ k + 1 <= Len(l)
          /\ k \in Nat
      BY <1>2, <1>3, <2>3
    <3>2. /\ Piece(h, m) /\ First(h) >= First(s) /\ First(h) \in Int
      BY <3>1, QueueFacts
    <3>3. ~f
      <4> SUFFICES ASSUME NEW i \in 1 .. k, l[i].fin PROVE FALSE
        OBVIOUS
      <4>1. i \in 1 .. Len(l) /\ i # Len(l)
        BY <1>2, <1>3, <3>1
      <4> QED BY <4>1 DEF Queue
    <3> HIDE DEF f
    <3>4. f = FALSE
      BY <3>3 DEF f
    <3>5. Piece(s1, m) /\ First(s1) = First(s) /\ End(s1) = End(s) /\ ~s1.fin
      <4>1. FALSE \in BOOLEAN /\ (FALSE => End(s) = m)
        OBVIOUS
      <4> DEFINE g == FALSE
      <4>2. g \in BOOLEAN /\ (g => End(s) = m) /\ g = f /\ ~g
        BY <3>4
      <4> HIDE DEF g
      <4>3. /\ Piece([s EXCEPT !.fin = g], m) /\ First([s EXCEPT !.fin = g]) = First(s)
            /\ End([s EXCEPT !.fin = g]) = End(s) /\ [s EXCEPT !.fin = g].fin = g
        BY <4>2, WithFinPiece
      <4> QED BY <4>2, <4>3, Zenon
    <3>6. First(h) >= First(h) /\ First(h) \in Int /\ k + 1 \in 1 .. Len(l) + 1
      BY <3>1, <3>2
    <3>7. /\ Queue(rest, First(h), m) /\ Len(rest) = Len(l) - k
          /\ rest[1] = h
          /\ \A i \in 1 .. Len(rest) : k + i \in 1 .. Len(l) /\ rest[i] = l[k + i]
      <4> DEFINE a == k + 1
      <4>1. a \in 1 .. Len(l) + 1 /\ Len(l) \in a - 1 .. Len(l) /\ First(l[a]) >= First(h)
        BY <3>1, <3>6
      <4>2. First(s) \in Int /\ First(h) \in Int
        BY <1>1, <3>2
      <4> HIDE DEF a, h
      <4>3. /\ Queue(SubSeq(l, a, Len(l)), First(h), m)
            /\ Len(SubSeq(l, a, Len(l))) = Len(l) - a + 1
            /\ \A i \in 1 .. Len(l) - a + 1 : SubSeq(l, a, Len(l))[i] = l[a + i - 1]
        BY <4>1, <4>2, QueuePart
      <4>4. /\ Len(l) - a + 1 = Len(l) - k /\ 1 \in 1 .. Len(l) - a + 1 /\ a + 1 - 1 = k + 1
            /\ \A i \in 1 .. Len(l) - a + 1 : k + i \in 1 .. Len(l) /\ a + i - 1 = k + i
        BY <1>2, <3>1 DEF a
      <4> QED BY <4>3, <4>4 DEF a, h
    <3>8. rest # <<>> /\ Head(rest) = h
      <4> HIDE DEF rest
      <4>1. rest \in Seq(SegSet(m)) /\ Len(rest) >= 1
        BY <1>2, <3>1, <3>7 DEF Queue
      <4> QED BY <3>7, <4>1
    <3>9. /\ h.seq = At(First(h)) /\ First(h) \in Place
      BY <3>2, PieceFacts
    <3>10. Gt(DataEnd(s), h.seq) <=> End(s) > First(h)
      BY <1>1, <3>9, Compare
    <3>11. Piece(x, m) /\ First(x) = First(s) /\ End(x) <= First(h) /\ ~x.fin
      <4>1. CASE End(s) > First(h)
        <5>1. x = UpTo(s1, At(First(h)))
          BY <3>8, <3>9, <3>10, <4>1
        <5>2. First(h) \in First(s1) .. End(s1)
          BY <1>1, <3>2, <3>5, <4>1
        <5> HIDE DEF s1
        <5>3. /\ Piece(UpTo(s1, At(First(h))), m)
              /\ First(UpTo(s1, At(First(h)))) = First(s1) /\ End(UpTo(s1, At(First(h)))) = First(h)
              /\ ~UpTo(s1, At(First(h))).fin
          BY <3>5, <5>2, UpToPiece
        <5> HIDE DEF x
        <5> QED BY <3>2, <3>5, <5>1, <5>3
      <4>2. CASE ~(End(s) > First(h))
        <5>1. x = s1
          BY <3>8, <3>10, <4>2
        <5> HIDE DEF x, s1
        <5> QED BY <1>1, <3>2, <3>5, <4>2, <5>1
      <4> QED BY <4>1, <4>2
    <3> HIDE DEF x, rest, h
    <3>12. First(x) >= First(s)
      BY <1>1, <3>11
    <3>13. Queue(<<x>>, First(s), m) /\ Len(<<x>>) = 1 /\ <<x>>[1] = x
      BY <1>1, <3>11, <3>12, QueueOne
    <3>14. Ahead(<<x>>, First(h))
      BY <3>11, <3>13 DEF Ahead
    <3> DEFINE one == <<x>>
    <3>15. Queue(one, First(s), m) /\ Len(one) = 1 /\ one[1] = x /\ Ahead(one, First(h))
      BY <3>13, <3>14
    <3> HIDE DEF one
    <3>17. First(s) <= First(h)
      BY <1>1, <3>2
    <3>16. /\ Queue(one \o rest, First(s), m) /\ Len(one \o rest) = Len(one) + Len(rest)
           /\ \A i \in 1 .. Len(one) + Len(rest) :
                (one \o rest)[i] = IF i <= Len(one) THEN one[i] ELSE rest[i - Len(one)]
      <4> DEFINE lo == First(s)
                 hi == First(h)
      <4>1. lo \in Int /\ hi \in Int /\ lo <= hi
        BY <1>1, <3>2, <3>17
      <4>2. Queue(one, lo, m) /\ Ahead(one, hi) /\ Queue(rest, hi, m)
        BY <3>7, <3>15
      <4> HIDE DEF lo, hi
      <4>3. /\ Queue(one \o rest, lo, m) /\ Len(one \o rest) = Len(one) + Len(rest)
            /\ \A i \in 1 .. Len(one) + Len(rest) :
                 (one \o rest)[i] = IF i <= Len(one) THEN one[i] ELSE rest[i - Len(one)]
        BY <4>1, <4>2, QueueJoin
      <4> QED BY <4>3 DEF lo
    <3>18. Len(one) + Len(rest) \in 1 .. Len(l) + 1 /\ 1 \in 1 .. Len(one) + Len(rest)
      BY <1>2, <3>1, <3>7, <3>15
    <3>19. (one \o rest)[1] = x
      BY <3>15, <3>16, <3>18
    <3>20. Before(s, l) = one \o rest
      BY <2>1 DEF one
    <3>21. \A hi \in Int : Stop(s) <= hi /\ Within(l, hi) => Within(one \o rest, hi)
      <4> SUFFICES ASSUME NEW hi \in Int, Within(l, hi), NEW i \in 1 .. Len(one) + Len(rest)
                   PROVE  Stop((one \o rest)[i]) <= hi
        BY <3>16 DEF Within
      <4>1. CASE i = 1
        <5>1. (one \o rest)[i] = x /\ Stop(x) = End(x)
          <6>1. End(x) \in 0 .. m
            BY <3>11, PieceFacts
          <6> QED BY <1>1, <3>11, <3>19, <4>1, <6>1 DEF Stop
        <5>2. First(h) <= Stop(h) /\ Stop(h) \in Int
          <6>1. First(h) \in 0 .. m /\ End(h) \in 0 .. m /\ First(h) <= End(h)
            BY <3>2, PieceFacts
          <6> QED BY <1>1, <6>1 DEF Stop
        <5>3. Stop(h) <= hi
          BY <3>1 DEF Within, h
        <5>4. End(x) \in Int
          BY <3>11, PieceFacts
        <5> QED BY <3>2, <3>11, <5>1, <5>2, <5>3, <5>4
      <4>2. CASE i # 1
        <5>1. i - 1 \in 1 .. Len(rest) /\ (one \o rest)[i] = rest[i - 1]
          BY <1>2, <3>1, <3>7, <3>15, <3>16, <4>2
        <5>2. k + (i - 1) \in 1 .. Len(l) /\ rest[i - 1] = l[k + (i - 1)]
          BY <3>7, <5>1
        <5>3. Stop(l[k + (i - 1)]) <= hi
          BY <5>2 DEF Within
        <5> QED BY <5>1, <5>2, <5>3
      <4> QED BY <4>1, <4>2
    <3> QED BY <3>11, <3>16, <3>18, <3>19, <3>20, <3>21, Zenon
  <2> QED BY <2>2, <2>3
<1> QED BY <1>4, <1>5

(***************************************************************************)
(* The window.  Nothing is given back, so its right edge stays where it    *)
(* was; once more has been taken than the window held, rcv_wnd has wrapped *)
(* and the edge is WndSpan farther.                                        *)
(***************************************************************************)
Edge(k) == IF k <= Window THEN Window ELSE Window + WndSpan
Left(k) == Edge(k) - k

\* Where the edge is, and what is left of the window.
LEMMA EdgePlace ==
  ASSUME NEW k \in 0 .. MaxStream + 1
  PROVE  /\ Edge(k) \in Place /\ Edge(k) - 1 \in Place /\ Edge(k) \in Int
         /\ k \in Place /\ k <= Edge(k)
         /\ Left(k) \in 0 .. WndSpan - 1 /\ Plus(At(k), Left(k)) = At(Edge(k))
<1>1. /\ Edge(k) \in Place /\ Edge(k) - 1 \in Place /\ Edge(k) \in Int
      /\ k \in Place /\ k <= Edge(k) /\ Left(k) \in 0 .. WndSpan - 1
      /\ k + Left(k) = Edge(k) /\ Left(k) \in Int
  BY SpanFacts DEF Place, Edge, Left
<1>2. Plus(At(k), Left(k)) = At(k + Left(k))
  BY <1>1, AtPlus
<1> QED BY <1>1, <1>2

\* Subtracting from rcv_wnd, a tcpwnd_size_t.
LEMMA LeftMod ==
  ASSUME NEW k \in 0 .. MaxStream + 1, NEW r \in 0 .. k
  PROVE  (Edge(r) - k) % WndSpan = Left(k) /\ (Window - k) % WndSpan = Left(k)
<1>1. \A x \in Int : x \in {Left(k), Left(k) - WndSpan} => x % WndSpan = Left(k)
  <2> SUFFICES ASSUME NEW y \in 0 .. WndSpan - 1
               PROVE  y % WndSpan = y /\ (y - WndSpan) % WndSpan = y
    BY EdgePlace
  <2>1. WndSpan \in Nat /\ WndSpan > 0 /\ y \in Nat /\ y < WndSpan
    BY SpanFacts
  <2>2. y % WndSpan = y
    BY <2>1
  <2>3. (y - WndSpan) % WndSpan = y
    BY <2>1, SMT
  <2> QED BY <2>2, <2>3
<1>2. /\ Edge(r) - k \in Int /\ Edge(r) - k \in {Left(k), Left(k) - WndSpan}
      /\ Window - k \in Int /\ Window - k \in {Left(k), Left(k) - WndSpan}
  BY SpanFacts DEF Edge, Left
<1> QED BY <1>1, <1>2

\* The right edge while r bytes have been read.
LEMMA EdgeFacts ==
  ASSUME NEW r \in 0 .. MaxStream, rcv_nxt = At(r), rcv_wnd = Left(r)
  PROVE  RightEdge = At(Edge(r))
<1>1. r \in 0 .. MaxStream + 1
  BY SpanFacts
<1> QED BY <1>1, EdgePlace DEF RightEdge

\* The edges that may have been announced when k places have been taken.
Announced(k) == {At(Window), At(Edge(k))}

\* Taking more keeps what has been announced.
LEMMA AnnouncedGrows ==
  ASSUME NEW k \in 0 .. MaxStream + 1, NEW r \in 0 .. k
  PROVE  Announced(r) \subseteq Announced(k)
  BY SpanFacts DEF Announced, Edge

(***************************************************************************)
(* tcp_update_rcv_ann_wnd announces what is left (tcp.c 934-960): the edge *)
(* that has been announced, or the one behind the wrap, which looks like   *)
(* a window that grew.                                                     *)
(***************************************************************************)
LEMMA AnnWndLeft ==
  ASSUME NEW k \in 0 .. MaxStream + 1, rcv_ann_right_edge \in Announced(k)
  PROVE  AnnWnd(At(k), Left(k)) = Left(k)
<1>1. PICK a \in {Window, Edge(k)} : rcv_ann_right_edge = At(a)
  BY DEF Announced
<1>2. /\ Edge(k) \in Place /\ k \in Place /\ k <= Edge(k) /\ Left(k) \in 0 .. WndSpan - 1
      /\ Plus(At(k), Left(k)) = At(Edge(k))
  BY EdgePlace
<1>3. a \in Place /\ a + Watermark \in Place /\ Watermark \in Int
  BY SpanFacts DEF Place, Edge
<1>4. Plus(rcv_ann_right_edge, Watermark) = At(a + Watermark)
  BY <1>1, <1>3, AtPlus
<1>5. Geq(Plus(At(k), Left(k)), Plus(rcv_ann_right_edge, Watermark)) <=> Edge(k) >= a + Watermark
  BY <1>2, <1>3, <1>4, Compare
<1>6. Gt(At(k), rcv_ann_right_edge) <=> k > a
  BY <1>1, <1>2, <1>3, Compare
<1>7. CASE Edge(k) >= a + Watermark
  BY <1>5, <1>7 DEF AnnWnd
<1>8. CASE ~(Edge(k) >= a + Watermark)
  <2>1. a = Edge(k) /\ ~(k > a)
    BY <1>2, <1>8, SpanFacts DEF Edge
  <2>2. (rcv_ann_right_edge - At(k)) % Span = Left(k)
    <3>1. (At(a) - At(k)) % Span = IF k <= a THEN a - k ELSE a - k + Span
      BY <1>2, <1>3, AtMinus
    <3> QED BY <1>1, <1>2, <2>1, <3>1 DEF Left
  <2>3. Left(k) % WndSpan = Left(k)
    BY <1>2, SpanFacts
  <2>4. AnnWnd(At(k), Left(k)) = ((rcv_ann_right_edge - At(k)) % Span) % WndSpan
    BY <1>5, <1>6, <1>8, <2>1 DEF AnnWnd
  <2> QED BY <2>2, <2>3, <2>4
<1> QED BY <1>7, <1>8

\* Sending a segment announces the edge, and not sending one forgets none.
LEMMA AnnouncementStep ==
  ASSUME NEW k \in 0 .. MaxStream + 1, NEW r \in 0 .. k,
         rcv_ann_right_edge \in Announced(r), rcv_nxt' = At(k), rcv_ann_wnd' = Left(k),
         Announcement \/ UNCHANGED rcv_ann_right_edge
  PROVE  rcv_ann_right_edge' \in Announced(k)
<1>1. CASE Announcement
  <2>1. rcv_ann_right_edge' = Plus(At(k), Left(k))
    BY <1>1 DEF Announcement
  <2> QED BY <2>1, EdgePlace DEF Announced
<1>2. CASE UNCHANGED rcv_ann_right_edge
  BY <1>2, AnnouncedGrows
<1> QED BY <1>1, <1>2

\* A segment behind the last entry is cut at the window's edge (1769-1795).
LEMMA BehindEdge ==
  ASSUME NEW m \in 0 .. MaxStream, NEW s, Piece(s, m),
         NEW q \in Place, RightEdge = At(q), First(s) <= q
  PROVE  LET s1 == IF Gt(Plus(s.seq, TcpLen(s)), RightEdge)
                   THEN UpToWithoutFin(s, RightEdge) ELSE s
         IN Piece(s1, m) /\ First(s1) = First(s)
<1> DEFINE len == TcpLen(s)
<1>1. /\ First(s) \in 0 .. m /\ End(s) \in 0 .. m /\ First(s) <= End(s) /\ First(s) \in Place
      /\ s.seq = At(First(s)) /\ (s.fin => End(s) = m)
      /\ len = End(s) - First(s) + IF s.fin THEN 1 ELSE 0
  BY PieceFacts
<1> HIDE DEF len
<1>2. len \in Int /\ First(s) + len = End(s) + IF s.fin THEN 1 ELSE 0
  BY <1>1
<1>3. First(s) + len \in Place /\ q \in Int
  BY <1>1, <1>2, SpanFacts DEF Place
<1>4. Plus(s.seq, len) = At(First(s) + len)
  BY <1>1, <1>2, <1>3, AtPlus
<1>5. Gt(Plus(s.seq, len), RightEdge) <=> First(s) + len > q
  BY <1>3, <1>4, Compare
<1>6. CASE Gt(Plus(s.seq, len), RightEdge)
  <2>1. q \in First(s) .. End(s)
    BY <1>1, <1>2, <1>3, <1>5, <1>6
  <2>2. /\ Piece(UpToWithoutFin(s, At(q)), m)
        /\ First(UpToWithoutFin(s, At(q))) = First(s)
    BY <2>1, UpToWithoutFinPiece
  <2> QED BY <1>6, <2>2 DEF len
<1>7. CASE ~Gt(Plus(s.seq, len), RightEdge)
  BY <1>7 DEF len
<1> QED BY <1>6, <1>7

\* A segment behind the last entry (lines 1762-1807).
LEMMA BehindQueue ==
  ASSUME NEW m \in 0 .. MaxStream, NEW lo \in Int, NEW l, Queue(l, lo, m), l # <<>>,
         NEW s, Piece(s, m), \A j \in 1 .. Len(l) : First(l[j]) <= First(s),
         NEW q \in Place, RightEdge = At(q), First(s) <= q
  PROVE  Queue(Behind(s, l), lo, m) /\ Len(Behind(s, l)) \in 0 .. Len(l) + 1
<1> DEFINE z    == Len(l)
           last == l[z]
           s1   == IF Gt(Plus(s.seq, TcpLen(s)), RightEdge)
                   THEN UpToWithoutFin(s, RightEdge) ELSE s
           cut  == IF Gt(DataEnd(last), s.seq) THEN UpTo(last, s.seq) ELSE last
           fore == SubSeq(l, 1, z - 1)
<1>1. z \in Nat /\ z >= 1 /\ l \in Seq(SegSet(m))
  BY QueueFacts
<1>2. z \in 1 .. z
  BY <1>1
<1>3. /\ Piece(last, m) /\ First(last) \in Int /\ End(last) \in Int
      /\ First(last) <= End(last) /\ First(last) >= lo /\ First(last) <= First(s)
  BY <1>2, QueueFacts
<1>4. /\ First(s) \in Int /\ First(s) \in Place /\ s.seq = At(First(s))
      /\ End(last) \in Place /\ DataEnd(last) = At(End(last)) /\ last.fin \in BOOLEAN
  BY <1>3, PieceFacts
<1>5. Piece(s1, m) /\ First(s1) = First(s)
  BY BehindEdge
<1>6. Gt(DataEnd(last), s.seq) <=> End(last) > First(s)
  BY <1>4, Compare
<1>7. CASE last.fin
  <2>1. Behind(s, l) = l
    BY <1>7 DEF Behind
  <2> QED BY <1>1, <2>1
<1>8. CASE ~last.fin
  <2>1. Behind(s, l) = fore \o <<cut, s1>>
    BY <1>8 DEF Behind
  <2>2. Piece(cut, m) /\ First(cut) = First(last) /\ End(cut) <= First(s) /\ ~cut.fin
    <3>1. CASE End(last) > First(s)
      <4>1. First(s) \in First(last) .. End(last) /\ cut = UpTo(last, At(First(s)))
        BY <1>3, <1>4, <1>6, <3>1
      <4> HIDE DEF last, cut
      <4>2. /\ Piece(UpTo(last, At(First(s))), m)
            /\ First(UpTo(last, At(First(s)))) = First(last)
            /\ End(UpTo(last, At(First(s)))) = First(s)
            /\ ~UpTo(last, At(First(s))).fin
        BY <1>3, <1>8, <4>1, UpToPiece
      <4> QED BY <1>4, <4>1, <4>2
    <3>2. CASE ~(End(last) > First(s))
      <4>1. cut = last
        BY <1>6, <3>2
      <4> HIDE DEF last, cut
      <4> QED BY <1>3, <1>4, <1>8, <3>2, <4>1
    <3> QED BY <3>1, <3>2
  <2> HIDE DEF s1, cut
  <2> DEFINE one == <<cut>>
             two == <<s1>>
             hi  == First(last)
             mid == First(s)
  <2>3. Queue(fore, lo, m) /\ Ahead(fore, hi) /\ Len(fore) = z - 1
    <3>1. z - 1 \in Nat /\ z - 1 < Len(l) /\ (z - 1) + 1 = z
      BY <1>1
    <3> QED BY <3>1, QueueFore
  <2>4. Queue(one, hi, m) /\ Len(one) = 1 /\ one[1] = cut
    <3>1. First(cut) >= hi /\ hi \in Int
      BY <1>3, <2>2
    <3> HIDE DEF hi
    <3> QED BY <2>2, <3>1, QueueOne
  <2>5. Queue(two, mid, m) /\ Len(two) = 1
    <3>1. First(s1) >= mid /\ mid \in Int
      BY <1>4, <1>5
    <3> HIDE DEF mid
    <3> QED BY <1>5, <3>1, QueueOne
  <2>6. Ahead(one, mid)
    BY <2>2, <2>4 DEF Ahead
  <2>7. lo <= hi /\ hi <= mid /\ hi \in Int /\ mid \in Int
    BY <1>3, <1>4
  <2>8. <<cut, s1>> = one \o two
    <3>1. cut \in SegSet(m) /\ s1 \in SegSet(m)
      BY <1>5, <2>2, PieceFacts
    <3> QED BY <3>1
  <2> HIDE DEF fore, one, two, hi, mid
  <2>9. Queue(one \o two, hi, m) /\ Len(one \o two) = 2
    BY <2>4, <2>5, <2>6, <2>7, QueueJoin
  <2> DEFINE both == one \o two
  <2>10. Queue(both, hi, m) /\ Len(both) = 2
    BY <2>9
  <2> HIDE DEF both
  <2>11. Queue(fore \o both, lo, m) /\ Len(fore \o both) = Len(fore) + Len(both)
    <3>1. hi \in Int /\ lo <= hi
      BY <2>7
    <3>2. Queue(fore, lo, m) /\ Ahead(fore, hi) /\ Queue(both, hi, m)
      BY <2>3, <2>10
    <3> QED BY <3>1, <3>2, QueueJoin
  <2>12. Behind(s, l) = fore \o both
    BY <2>1, <2>8 DEF both
  <2>13. Len(fore) + Len(both) \in 0 .. Len(l) + 1
    BY <1>1, <2>3, <2>10
  <2> QED BY <2>11, <2>12, <2>13
<1> QED BY <1>7, <1>8, <1>4

\* The place of s among the entries of l.
PlaceOf(s, l) ==
  CHOOSE i \in 1 .. Len(l) + 1 : /\ i <= Len(l) => Leq(s.seq, l[i].seq)
                                 /\ \A j \in 1 .. i - 1 : Gt(s.seq, l[j].seq)

\* The place that the loop over ooseq ends at is the segment's own.
LEMMA QueuedPlace ==
  ASSUME NEW m \in 0 .. MaxStream, NEW lo, NEW l, Queue(l, lo, m), NEW s, Piece(s, m)
  PROVE  LET i == PlaceOf(s, l)
         IN /\ i \in 1 .. Len(l) + 1
            /\ \A j \in 1 .. i - 1 : First(l[j]) < First(s)
            /\ i <= Len(l) => First(l[i]) >= First(s) /\ (l[i].seq = s.seq <=> First(l[i]) = First(s))
<1> DEFINE Test == [j \in 1 .. Len(l) |-> Gt(s.seq, l[j].seq)]
           P(i) == /\ i <= Len(l) => Leq(s.seq, l[i].seq)
                   /\ \A j \in 1 .. i - 1 : Gt(s.seq, l[j].seq)
           i == PlaceOf(s, l)
<1>1. Len(l) \in Nat
  BY QueueFacts
<1>2. \A j \in 1 .. Len(l) :
        /\ Gt(s.seq, l[j].seq) <=> First(l[j]) < First(s)
        /\ Leq(s.seq, l[j].seq) <=> First(l[j]) >= First(s)
        /\ l[j].seq = s.seq <=> First(l[j]) = First(s)
  <2> SUFFICES ASSUME NEW j \in 1 .. Len(l)
               PROVE  /\ Gt(s.seq, l[j].seq) <=> First(l[j]) < First(s)
                      /\ Leq(s.seq, l[j].seq) <=> First(l[j]) >= First(s)
                      /\ l[j].seq = s.seq <=> First(l[j]) = First(s)
    OBVIOUS
  <2>1. Piece(l[j], m)
    BY DEF Queue
  <2>2. /\ s.seq = At(First(s)) /\ First(s) \in Place
        /\ l[j].seq = At(First(l[j])) /\ First(l[j]) \in Place
    BY <2>1, PieceFacts
  <2>3. /\ Gt(At(First(s)), At(First(l[j]))) <=> First(s) > First(l[j])
        /\ Leq(At(First(s)), At(First(l[j]))) <=> First(s) <= First(l[j])
    BY <2>2, Compare
  <2>4. At(First(s)) = At(First(l[j])) <=> First(s) = First(l[j])
    BY <2>2, AtDifferent
  <2>5. First(s) \in Int /\ First(l[j]) \in Int
    BY <2>2 DEF Place
  <2> QED BY <2>2, <2>3, <2>4, <2>5
<1>3. PICK k \in 0 .. Len(l) : (\A j \in 1 .. k : Test[j]) /\ (k < Len(l) => ~Test[k + 1])
  <2> HIDE DEF Test
  <2> QED BY <1>1, FirstFailure
<1>4. P(k + 1) /\ k + 1 \in 1 .. Len(l) + 1
  <2>1. k + 1 \in 1 .. Len(l) + 1 /\ (k + 1) - 1 = k
    BY <1>1, <1>3
  <2>2. \A j \in 1 .. k : Gt(s.seq, l[j].seq)
    <3>1. \A j \in 1 .. k : j \in 1 .. Len(l)
      BY <1>1, <1>3
    <3> QED BY <1>3, <3>1, Zenon
  <2>3. k + 1 <= Len(l) => ~Gt(s.seq, l[k + 1].seq)
    BY <1>1, <1>3
  <2>4. k + 1 <= Len(l) => Leq(s.seq, l[k + 1].seq)
    BY <2>3 DEF Leq, Gt
  <2> QED BY <2>1, <2>2, <2>4
<1>5. i \in 1 .. Len(l) + 1 /\ P(i)
  <2>1. i = CHOOSE p \in 1 .. Len(l) + 1 : P(p)
    BY DEF PlaceOf
  <2> HIDE DEF P, i
  <2> QED BY <1>4, <2>1, Zenon
<1> HIDE DEF i
<1>6. \A j \in 1 .. i - 1 : j \in 1 .. Len(l)
  BY <1>1, <1>5
<1>7. i <= Len(l) => i \in 1 .. Len(l)
  BY <1>1, <1>5
<1>8. /\ i \in 1 .. Len(l) + 1
      /\ \A j \in 1 .. i - 1 : First(l[j]) < First(s)
      /\ i <= Len(l) => First(l[i]) >= First(s) /\ (l[i].seq = s.seq <=> First(l[i]) = First(s))
  BY <1>2, <1>5, <1>6, <1>7
<1> QED BY <1>8 DEF i

(***************************************************************************)
(* The entries in front of a segment's place, the last of them cut where   *)
(* the segment begins (lines 1735-1745).                                   *)
(***************************************************************************)
LEMMA CutAhead ==
  ASSUME NEW m \in 0 .. MaxStream, NEW lo \in Int, NEW l, Queue(l, lo, m),
         NEW s, Piece(s, m), First(s) >= lo, NEW i \in 1 .. Len(l),
         \A j \in 1 .. i - 1 : First(l[j]) < First(s)
  PROVE  LET ahead == IF i > 1 /\ Gt(DataEnd(l[i - 1]), s.seq)
                      THEN Append(SubSeq(l, 1, i - 2), UpTo(l[i - 1], s.seq))
                      ELSE SubSeq(l, 1, i - 1)
         IN Queue(ahead, lo, m) /\ Len(ahead) = i - 1 /\ Ahead(ahead, First(s))
<1> DEFINE fore == SubSeq(l, 1, i - 1)
           less == SubSeq(l, 1, i - 2)
           last == l[i - 1]
           hi   == First(last)
           mid  == First(s)
           cut  == UpTo(last, s.seq)
           ahead == IF i > 1 /\ Gt(DataEnd(last), s.seq) THEN Append(less, cut) ELSE fore
<1> SUFFICES Queue(ahead, lo, m) /\ Len(ahead) = i - 1 /\ Ahead(ahead, mid)
  OBVIOUS
<1>1. Len(l) \in Nat /\ i \in Nat /\ i >= 1 /\ i <= Len(l)
  BY QueueFacts
<1>2. mid \in Int /\ mid \in Place /\ s.seq = At(mid)
  BY PieceFacts
<1>3. /\ Queue(fore, lo, m) /\ Len(fore) = i - 1
      /\ \A j \in 1 .. i - 1 : fore[j] = l[j]
      /\ Ahead(fore, First(l[i]))
  <2>1. i - 1 \in Nat /\ i - 1 < Len(l) /\ (i - 1) + 1 = i
    BY <1>1
  <2> QED BY <2>1, QueueFore
<1>4. CASE i = 1
  <2>1. ahead = fore
    BY <1>4
  <2> HIDE DEF fore, mid, ahead
  <2>2. Ahead(fore, mid)
    BY <1>3, <1>4 DEF Ahead
  <2> QED BY <1>3, <2>1, <2>2
<1>5. CASE i # 1
  <2>1. i - 1 \in 1 .. Len(l) /\ i - 1 \in 1 .. i - 1 /\ i > 1
    BY <1>1, <1>5
  <2>2. /\ Piece(last, m) /\ hi \in Int /\ End(last) \in Int /\ hi <= End(last) /\ hi >= lo
    BY <2>1, QueueFacts
  <2>3. hi < mid
    BY <2>1
  <2>4. ~last.fin
    <3>1. i - 1 # Len(l)
      BY <1>1
    <3> QED BY <2>1, <3>1 DEF Queue
  <2>5. DataEnd(last) = At(End(last)) /\ End(last) \in Place
    BY <2>2, PieceFacts
  <2>6. Gt(DataEnd(last), s.seq) <=> End(last) > mid
    <3> HIDE DEF mid, last
    <3> QED BY <1>2, <2>5, Compare
  <2>7. CASE ~(End(last) > mid)
    <3>1. ahead = fore
      BY <2>6, <2>7
    <3> HIDE DEF ahead
    <3>2. \A j \in 1 .. Len(fore) : End(fore[j]) <= mid /\ ~fore[j].fin
      <4> SUFFICES ASSUME NEW j \in 1 .. i - 1 PROVE End(l[j]) <= mid /\ ~fore[j].fin
        BY <1>3
      <4>1. ~fore[j].fin
        BY <1>3 DEF Ahead
      <4>2. j \in 1 .. Len(l) /\ (j = i - 1 \/ j < i - 1)
        BY <1>1
      <4>3. CASE j = i - 1
        BY <1>2, <2>2, <2>7, <4>1, <4>3
      <4>4. CASE j < i - 1
        <5>1. End(l[j]) <= hi
          BY <2>1, <4>2, <4>4 DEF Queue
        <5>2. End(l[j]) \in Int
          BY <4>2, QueueFacts
        <5> HIDE DEF hi, mid
        <5> QED BY <1>2, <2>2, <2>3, <4>1, <5>1, <5>2
      <4> QED BY <4>2, <4>3, <4>4
    <3>3. Ahead(fore, mid)
      BY <3>2 DEF Ahead
    <3> HIDE DEF fore
    <3> QED BY <1>3, <3>1, <3>3
  <2>8. CASE End(last) > mid
    <3>1. ahead = Append(less, cut)
      BY <2>1, <2>6, <2>8
    <3>2. /\ Queue(less, lo, m) /\ Len(less) = i - 2 /\ Ahead(less, hi)
      <4>1. i - 2 \in Nat /\ i - 2 < Len(l) /\ (i - 2) + 1 = i - 1
        BY <1>1, <1>5
      <4> QED BY <4>1, QueueFore
    <3>3. Piece(cut, m) /\ First(cut) = hi /\ End(cut) = mid /\ ~cut.fin
      <4>1. mid \in First(last) .. End(last) /\ cut = UpTo(last, At(mid))
        BY <1>2, <2>2, <2>3, <2>8
      <4> HIDE DEF last, cut, mid
      <4>2. /\ Piece(UpTo(last, At(mid)), m) /\ First(UpTo(last, At(mid))) = First(last)
            /\ End(UpTo(last, At(mid))) = mid /\ ~UpTo(last, At(mid)).fin
        BY <2>2, <2>4, <4>1, UpToPiece
      <4> QED BY <4>1, <4>2
    <3> DEFINE one == <<cut>>
    <3>4. Queue(one, hi, m) /\ Len(one) = 1 /\ one[1] = cut
      <4>1. First(cut) >= hi
        BY <2>2, <3>3
      <4> HIDE DEF hi, cut
      <4> QED BY <2>2, <3>3, <4>1, QueueOne
    <3>5. ahead = less \o one
      <4>1. less \in Seq(SegSet(m)) /\ cut \in SegSet(m)
        BY <3>2, <3>3, QueueFacts, PieceFacts
      <4> HIDE DEF less, cut, ahead
      <4> QED BY <3>1, <4>1, AppendIsConcat DEF one
    <3> HIDE DEF less, one, cut, last, hi, mid, ahead
    <3>6. hi \in Int /\ lo <= hi
      BY <2>2
    <3>7. /\ Queue(less \o one, lo, m) /\ Len(less \o one) = Len(less) + Len(one)
          /\ \A j \in 1 .. Len(less) + Len(one) :
               (less \o one)[j] = IF j <= Len(less) THEN less[j] ELSE one[j - Len(less)]
      <4>1. Queue(less, lo, m) /\ Ahead(less, hi) /\ Queue(one, hi, m)
        BY <3>2, <3>4
      <4> QED BY <3>6, <4>1, QueueJoin
    <3>8. \A j \in 1 .. Len(less \o one) :
            End((less \o one)[j]) <= mid /\ ~(less \o one)[j].fin
      <4> SUFFICES ASSUME NEW j \in 1 .. Len(less) + Len(one)
                   PROVE  End((less \o one)[j]) <= mid /\ ~(less \o one)[j].fin
        BY <3>7
      <4>1. CASE j <= Len(less)
        <5>1. j \in 1 .. Len(less) /\ (less \o one)[j] = less[j]
          BY <1>1, <3>2, <3>4, <3>7, <4>1
        <5>2. End(less[j]) <= hi /\ ~less[j].fin
          BY <3>2, <5>1 DEF Ahead
        <5>3. End(less[j]) \in Int
          BY <3>2, <5>1, QueueFacts
        <5> QED BY <1>2, <2>2, <2>3, <5>1, <5>2, <5>3
      <4>2. CASE ~(j <= Len(less))
        <5>1. j - Len(less) = 1
          BY <1>1, <3>2, <3>4, <4>2
        <5>2. (less \o one)[j] = cut
          BY <3>4, <3>7, <4>2, <5>1
        <5> QED BY <1>2, <3>3, <5>2
      <4> QED BY <4>1, <4>2
    <3>9. Ahead(less \o one, mid)
      BY <3>8 DEF Ahead
    <3>10. Len(less) + Len(one) = i - 1
      BY <1>1, <3>2, <3>4
    <3> QED BY <3>5, <3>7, <3>9, <3>10
  <2> QED BY <2>7, <2>8
<1> QED BY <1>4, <1>5

(***************************************************************************)
(* Wherever a segment comes to lie among the queued ones, the queue stays  *)
(* what it should be (tcp_receive, lines 1653-1807).                       *)
(***************************************************************************)
LEMMA QueuedQueue ==
  ASSUME NEW m \in 0 .. MaxStream, NEW lo \in Int, NEW l, Queue(l, lo, m),
         NEW s, Piece(s, m), First(s) >= lo,
         NEW q \in Place, RightEdge = At(q), First(s) <= q
  PROVE  Queue(Queued(s, l), lo, m) /\ Len(Queued(s, l)) \in 0 .. Len(l) + 1
<1> DEFINE i == PlaceOf(s, l)
           ahead == IF i > 1 /\ Gt(DataEnd(l[i - 1]), s.seq)
                    THEN Append(SubSeq(l, 1, i - 2), UpTo(l[i - 1], s.seq))
                    ELSE SubSeq(l, 1, i - 1)
           fore == SubSeq(l, 1, i - 1)
           rest == SubSeq(l, i, Len(l))
           mid  == First(s)
<1>1. Len(l) \in Nat /\ l \in Seq(SegSet(m)) /\ mid \in Int
  BY QueueFacts, PieceFacts
<1>2. /\ i \in 1 .. Len(l) + 1
      /\ \A j \in 1 .. i - 1 : First(l[j]) < First(s)
      /\ i <= Len(l) => First(l[i]) >= First(s) /\ (l[i].seq = s.seq <=> First(l[i]) = First(s))
  BY QueuedPlace
<1>3. /\ l = <<>> => Queued(s, l) = <<s>>
      /\ l # <<>> /\ i > Len(l) => Queued(s, l) = Behind(s, l)
      /\ l # <<>> /\ i <= Len(l) /\ l[i].seq = s.seq =>
           Queued(s, l) = IF Len(s.data) > Len(l[i].data) /\ i < Len(l)
                          THEN fore \o Before(s, rest) ELSE l
      /\ l # <<>> /\ i <= Len(l) /\ l[i].seq # s.seq =>
           Queued(s, l) = ahead \o Before(s, rest)
  <2>0. l = <<>> => Len(l) = 0
    OBVIOUS
  <2> DEFINE first == <<s>>
             second == Behind(s, l)
             third == IF Len(s.data) > Len(l[i].data) /\ i < Len(l)
                      THEN fore \o Before(s, rest) ELSE l
             fourth == ahead \o Before(s, rest)
  <2>1. Queued(s, l) =
          CASE l = <<>>    -> first
            [] l # <<>> /\ i > Len(l) -> second
            [] i <= Len(l) /\ l[i].seq = s.seq -> third
            [] OTHER -> fourth
    BY DEF Queued, PlaceOf
  <2>2. i \in Int /\ (l = <<>> => ~(i <= Len(l)))
    BY <1>1, <1>2, <2>0
  <2> HIDE DEF i, first, second, third, fourth
  <2>3. /\ l = <<>> => Queued(s, l) = first
        /\ l # <<>> /\ i > Len(l) => Queued(s, l) = second
        /\ l # <<>> /\ i <= Len(l) /\ l[i].seq = s.seq => Queued(s, l) = third
        /\ l # <<>> /\ i <= Len(l) /\ l[i].seq # s.seq => Queued(s, l) = fourth
    BY <1>1, <2>1, <2>2
  <2> QED BY <2>3 DEF first, second, third, fourth
<1> HIDE DEF i
<1>4. CASE l = <<>>
  <2>1. Queue(<<s>>, lo, m) /\ Len(<<s>>) = 1
    BY QueueOne
  <2>2. 1 \in 0 .. Len(l) + 1
    BY <1>1
  <2>3. Queued(s, l) = <<s>>
    BY <1>3, <1>4, Zenon
  <2> QED BY <2>1, <2>2, <2>3, Zenon
<1>5. CASE l # <<>> /\ i > Len(l)
  <2>1. \A j \in 1 .. Len(l) : First(l[j]) <= First(s)
    <3> SUFFICES ASSUME NEW j \in 1 .. Len(l) PROVE First(l[j]) <= First(s)
      OBVIOUS
    <3>1. j \in 1 .. i - 1
      BY <1>1, <1>2, <1>5
    <3>2. First(l[j]) \in Int
      BY QueueFacts
    <3> QED BY <1>1, <1>2, <3>1, <3>2
  <2>2. Queue(Behind(s, l), lo, m) /\ Len(Behind(s, l)) \in 0 .. Len(l) + 1
    BY <1>5, <2>1, BehindQueue
  <2> QED BY <1>3, <1>5, <2>2
<1>6. CASE l # <<>> /\ i <= Len(l)
  <2>1. i \in 1 .. Len(l) /\ i \in Nat
    BY <1>1, <1>2, <1>6
  <2>2. Queue(rest, mid, m) /\ Len(rest) = Len(l) - i + 1
    <3>1. i \in 1 .. Len(l) + 1 /\ Len(l) \in i - 1 .. Len(l) /\ First(l[i]) >= mid
      BY <1>1, <1>2, <2>1
    <3> HIDE DEF mid
    <3> QED BY <1>1, <3>1, QueuePart
  <2>3. /\ Queue(Before(s, rest), mid, m)
        /\ Len(Before(s, rest)) \in 1 .. Len(l) - i + 2
    <3> HIDE DEF rest
    <3>1. /\ Queue(Before(s, rest), First(s), m)
          /\ Len(Before(s, rest)) \in 1 .. Len(rest) + 1
      BY <2>2, BeforeQueue
    <3> QED BY <1>1, <2>1, <2>2, <3>1
  <2> DEFINE b == Before(s, rest)
  <2>4. Queue(b, mid, m) /\ Len(b) \in 1 .. Len(l) - i + 2
    BY <2>3
  <2> HIDE DEF b
  <2>5. lo <= mid
    BY <1>1
  <2>6. ASSUME NEW a, Queue(a, lo, m), Len(a) = i - 1, Ahead(a, mid)
        PROVE  Queue(a \o b, lo, m) /\ Len(a \o b) \in 0 .. Len(l) + 1
    <3> HIDE DEF mid
    <3>1. Queue(a \o b, lo, m) /\ Len(a \o b) = Len(a) + Len(b)
      <4>1. Queue(a, lo, m) /\ Ahead(a, mid) /\ Queue(b, mid, m)
        BY <2>4, <2>6
      <4>2. lo <= mid /\ mid \in Int
        BY <1>1, <2>5
      <4> QED BY <4>1, <4>2, QueueJoin
    <3>2. Len(a) + Len(b) \in 0 .. Len(l) + 1
      BY <1>1, <2>1, <2>4, <2>6
    <3> QED BY <3>1, <3>2
  <2>7. CASE l[i].seq = s.seq
    <3>1. CASE Len(s.data) > Len(l[i].data) /\ i < Len(l)
      <4>1. Queued(s, l) = fore \o b
        BY <1>3, <1>6, <2>7, <3>1 DEF b
      <4>2. Queue(fore, lo, m) /\ Len(fore) = i - 1 /\ Ahead(fore, mid)
        <5>1. i - 1 \in Nat /\ i - 1 < Len(l) /\ (i - 1) + 1 = i /\ First(l[i]) = mid
          BY <1>1, <1>2, <2>1, <2>7
        <5> DEFINE p == i - 1
        <5>2. p \in Nat /\ p < Len(l) /\ p + 1 = i
          BY <5>1
        <5> HIDE DEF p
        <5>3. LET a == SubSeq(l, 1, p) IN
              Queue(a, lo, m) /\ Len(a) = p /\ Ahead(a, First(l[p + 1]))
          BY <5>2, QueueFore
        <5> QED BY <5>1, <5>2, <5>3 DEF p
      <4> HIDE DEF fore, mid
      <4> QED BY <2>6, <4>1, <4>2
    <3>2. CASE ~(Len(s.data) > Len(l[i].data) /\ i < Len(l))
      <4>1. Queued(s, l) = l
        BY <1>3, <1>6, <2>7, <3>2, Zenon
      <4> QED BY <1>1, <4>1
    <3> QED BY <3>1, <3>2
  <2>8. CASE l[i].seq # s.seq
    <3>1. Queued(s, l) = ahead \o b
      BY <1>3, <1>6, <2>8 DEF b
    <3>2. Queue(ahead, lo, m) /\ Len(ahead) = i - 1 /\ Ahead(ahead, mid)
      BY <1>2, <2>1, CutAhead
    <3> HIDE DEF ahead, mid
    <3> QED BY <2>6, <3>1, <3>2
  <2> QED BY <2>7, <2>8
<1>7. i \in Int
  BY <1>2
<1> QED BY <1>1, <1>4, <1>5, <1>6, <1>7

-----------------------------------------------------------------------------
(* Data in order.                                                          *)

\* The bytes at the places from a to b.
Bytes(a, b) == [x \in 1 .. b - a |-> a + x]

\* Bytes(a, b) are the bytes a+1 .. b of the stream.
LEMMA BytesFacts ==
  ASSUME NEW m \in Nat, NEW a \in 0 .. m, NEW b \in a .. m
  PROVE  /\ Bytes(a, b) \in Seq(1 .. m) /\ Len(Bytes(a, b)) = b - a
         /\ \A x \in 1 .. b - a : Bytes(a, b)[x] = a + x
<1>1. b - a \in Nat /\ \A x \in 1 .. b - a : a + x \in 1 .. m
  OBVIOUS
<1> QED BY <1>1 DEF Bytes

\* The bytes up to b and the bytes from b on.
LEMMA BytesJoin ==
  ASSUME NEW m \in Nat, NEW a \in 0 .. m, NEW b \in a .. m, NEW c \in b .. m
  PROVE  Bytes(a, b) \o Bytes(b, c) = Bytes(a, c)
<1> DEFINE s == Bytes(a, b)
           t == Bytes(b, c)
           u == Bytes(a, c)
<1>1. /\ a \in Nat /\ b \in 0 .. m /\ c \in a .. m /\ b - a \in Nat /\ c - b \in Nat
      /\ c - a \in Nat /\ b \in Nat /\ c \in Nat
  OBVIOUS
<1>2. /\ s \in Seq(1 .. m) /\ Len(s) = b - a /\ \A x \in 1 .. b - a : s[x] = a + x
  BY BytesFacts
<1>3. /\ t \in Seq(1 .. m) /\ Len(t) = c - b /\ \A x \in 1 .. c - b : t[x] = b + x
  BY <1>1, BytesFacts
<1>4. /\ u \in Seq(1 .. m) /\ Len(u) = c - a /\ \A x \in 1 .. c - a : u[x] = a + x
  BY <1>1, BytesFacts
<1> HIDE DEF s, t, u
<1>5. /\ s \o t \in Seq(1 .. m) /\ Len(s \o t) = Len(s) + Len(t)
      /\ \A x \in 1 .. Len(s) + Len(t) :
           (s \o t)[x] = IF x <= Len(s) THEN s[x] ELSE t[x - Len(s)]
  BY <1>2, <1>3, ConcatProperties
<1>6. \A x \in 1 .. c - a : (s \o t)[x] = u[x]
  <2> SUFFICES ASSUME NEW x \in 1 .. c - a PROVE (s \o t)[x] = a + x
    BY <1>4
  <2>1. CASE x <= b - a
    <3>1. x \in 1 .. b - a /\ x \in 1 .. Len(s) + Len(t)
      BY <1>1, <1>2, <1>3, <2>1
    <3> QED BY <1>2, <1>5, <2>1, <3>1
  <2>2. CASE ~(x <= b - a)
    <3>1. /\ x - (b - a) \in 1 .. c - b /\ x \in 1 .. Len(s) + Len(t)
          /\ b + (x - (b - a)) = a + x
      BY <1>1, <1>2, <1>3, <2>2
    <3>2. (s \o t)[x] = t[x - (b - a)]
      BY <1>2, <1>5, <2>2, <3>1
    <3> QED BY <1>3, <3>1, <3>2
  <2> QED BY <2>1, <2>2
<1>7. Len(s \o t) = c - a
  BY <1>1, <1>2, <1>3, <1>5
<1>8. s \o t = u
  <2> DEFINE v == s \o t
  <2>1. v \in Seq(1 .. m) /\ Len(v) = Len(u) /\ \A x \in 1 .. Len(u) : v[x] = u[x]
    BY <1>4, <1>5, <1>6, <1>7
  <2> HIDE DEF v
  <2>2. v = u
    BY <1>4, <2>1
  <2> QED BY <2>2 DEF v
<1> QED BY <1>8 DEF s, t, u

\* F grows by one entry of d at a time.
Grows(F, d, k) == F = [i \in 1 .. k |-> IF i = 1 THEN d[i] ELSE F[i - 1] \o d[i]]

(***************************************************************************)
(* FlattenSeq is the end of any sequence that grows by one entry's data at *)
(* a time; the least place where two such sequences differ shows it.       *)
(***************************************************************************)
LEMMA FlattenPoint ==
  ASSUME NEW d, NEW k \in Nat, k >= 1, Len(d) = k, NEW F, Grows(F, d, k)
  PROVE  FlattenSeq(d) = F[k]
<1> DEFINE G == CHOOSE g : Grows(g, d, Len(d))
<1>1. Grows(F, d, Len(d))
  OBVIOUS
<1>2. Grows(G, d, Len(d))
  BY <1>1, Zenon
<1>3. FlattenSeq(d) = G[k]
  <2>1. Len(d) # 0
    OBVIOUS
  <2>2. FlattenSeq(d) = G[Len(d)]
    BY <2>1, Zenon DEF FlattenSeq, Grows
  <2> QED BY <2>2
<1>4. /\ G = [i \in 1 .. k |-> IF i = 1 THEN d[i] ELSE G[i - 1] \o d[i]]
      /\ F = [i \in 1 .. k |-> IF i = 1 THEN d[i] ELSE F[i - 1] \o d[i]]
  BY <1>2, Zenon DEF Grows
<1> HIDE DEF G
<1> DEFINE T == {i \in 1 .. k : G[i] # F[i]}
<1>5. T = {}
  <2> SUFFICES ASSUME T # {} PROVE FALSE
    OBVIOUS
  <2>1. T \subseteq Nat
    OBVIOUS
  <2>2. PICK i \in T : \A j \in T : i <= j
    BY <2>1, LeastElement
  <2>3. CASE i = 1
    <3>1. G[1] = d[1] /\ F[1] = d[1]
      BY <1>4
    <3> QED BY <2>2, <2>3, <3>1
  <2>4. CASE i # 1
    <3>1. i \in 1 .. k /\ i - 1 \in 1 .. k /\ ~(i <= i - 1)
      BY <2>2, <2>4
    <3>2. G[i - 1] = F[i - 1]
      BY <2>2, <3>1
    <3>3. G[i] = G[i - 1] \o d[i] /\ F[i] = F[i - 1] \o d[i]
      BY <1>4, <2>4, <3>1
    <3> QED BY <2>2, <3>2, <3>3
  <2> QED BY <2>3, <2>4
<1>6. k \in 1 .. k
  OBVIOUS
<1> QED BY <1>3, <1>5, <1>6

(***************************************************************************)
(* The entries that follow each other without a gap (lines 1578-1614).     *)
(***************************************************************************)
LEMMA RunFacts ==
  ASSUME NEW m \in 0 .. MaxStream, NEW r \in 0 .. m, NEW l, Queue(l, r, m), Len(l) >= 1,
         First(l[1]) = r
  PROVE  LET k == Run(l, At(r)) IN
         /\ k \in 1 .. Len(l)
         /\ \A i \in 2 .. k : First(l[i]) = End(l[i - 1])
         /\ k < Len(l) => First(l[k + 1]) > End(l[k])
<1> DEFINE Start(i) == IF i = 1 THEN At(r) ELSE Plus(l[i - 1].seq, TcpLen(l[i - 1]))
           Test == [i \in 1 .. Len(l) |-> l[i].seq = Start(i)]
           k == Run(l, At(r))
<1>1. Len(l) \in Nat /\ r \in Nat
  BY QueueFacts
<1>2. \A i \in 2 .. Len(l) : l[i].seq = Start(i) <=> First(l[i]) = End(l[i - 1])
  <2> SUFFICES ASSUME NEW i \in 2 .. Len(l)
               PROVE  l[i].seq = Start(i) <=> First(l[i]) = End(l[i - 1])
    OBVIOUS
  <2> DEFINE s == l[i - 1]
  <2>1. i \in 1 .. Len(l) /\ i - 1 \in 1 .. Len(l) /\ i # 1 /\ i - 1 # Len(l)
    BY <1>1
  <2>2. Piece(l[i], m) /\ Piece(s, m) /\ ~s.fin
    BY <2>1 DEF Queue
  <2>3. /\ l[i].seq = At(First(l[i])) /\ First(l[i]) \in Place
        /\ s.seq = At(First(s)) /\ First(s) \in Place /\ End(s) \in Place
        /\ TcpLen(s) = End(s) - First(s) + IF s.fin THEN 1 ELSE 0
    BY <2>2, PieceFacts
  <2> HIDE DEF s
  <2>4. TcpLen(s) \in Int /\ First(s) + TcpLen(s) = End(s)
    BY <2>2, <2>3 DEF Place
  <2>5. Plus(s.seq, TcpLen(s)) = At(End(s))
    BY <2>3, <2>4, AtPlus
  <2>6. At(First(l[i])) = At(End(s)) <=> First(l[i]) = End(s)
    BY <2>3, AtDifferent
  <2> QED BY <2>1, <2>3, <2>5, <2>6 DEF s
<1>3. l[1].seq = Start(1)
  <2>1. 1 \in 1 .. Len(l)
    BY <1>1
  <2>2. Piece(l[1], m)
    BY <2>1 DEF Queue
  <2> QED BY <2>2, PieceFacts
<1>4. PICK p \in 0 .. Len(l) : (\A i \in 1 .. p : Test[i]) /\ (p < Len(l) => ~Test[p + 1])
  <2> HIDE DEF Test
  <2> QED BY <1>1, FirstFailure
<1>5. /\ \A i \in 1 .. p : l[i].seq = Start(i)
      /\ p < Len(l) => l[p + 1].seq # Start(p + 1)
  <2> HIDE DEF Start
  <2>1. \A i \in 1 .. p : i \in 1 .. Len(l)
    BY <1>1, <1>4
  <2>2. p < Len(l) => p + 1 \in 1 .. Len(l)
    BY <1>1, <1>4
  <2> QED BY <1>4, <2>1, <2>2, Zenon
<1>6. /\ k \in 0 .. Len(l)
      /\ \A i \in 1 .. k : l[i].seq = Start(i)
      /\ k < Len(l) => l[k + 1].seq # Start(k + 1)
  BY <1>5, Zenon DEF Run
<1> HIDE DEF k, Start
<1>7. k # 0
  <2>1. k = 0 => k + 1 = 1 /\ k < Len(l)
    BY <1>1
  <2> QED BY <1>3, <1>6, <2>1, Zenon
<1>8. k \in 1 .. Len(l)
  BY <1>1, <1>6, <1>7
<1>9. \A i \in 2 .. k : First(l[i]) = End(l[i - 1])
  <2>1. \A i \in 2 .. k : i \in 2 .. Len(l) /\ i \in 1 .. k
    BY <1>1, <1>8
  <2> QED BY <1>2, <1>6, <2>1, Zenon
<1>10. k < Len(l) => First(l[k + 1]) > End(l[k])
  <2> SUFFICES ASSUME k < Len(l) PROVE First(l[k + 1]) > End(l[k])
    OBVIOUS
  <2>1. k + 1 \in 2 .. Len(l) /\ k + 1 \in 1 .. Len(l) /\ k \in 1 .. Len(l) /\ k < k + 1
        /\ (k + 1) - 1 = k
    BY <1>1, <1>8
  <2>2. First(l[k + 1]) # End(l[k])
    BY <1>2, <1>6, <2>1
  <2>3. First(l[k + 1]) >= End(l[k])
    <3>1. End(l[k]) <= First(l[k + 1])
      BY <2>1 DEF Queue
    <3>2. End(l[k]) \in Int /\ First(l[k + 1]) \in Int
      BY <2>1, QueueFacts
    <3> QED BY <3>1, <3>2
  <2>4. End(l[k]) \in Int /\ First(l[k + 1]) \in Int
    BY <2>1, QueueFacts
  <2> QED BY <2>2, <2>3, <2>4
<1> QED BY <1>8, <1>9, <1>10 DEF k

\* What a run hands over is the stream's bytes from its first to its last place.
LEMMA RunBytes ==
  ASSUME NEW m \in 0 .. MaxStream, NEW r \in 0 .. m, NEW l, Queue(l, r, m),
         First(l[1]) = r, NEW k \in 1 .. Len(l),
         \A i \in 2 .. k : First(l[i]) = End(l[i - 1])
  PROVE  BytesOf(SubSeq(l, 1, k)) = Bytes(r, End(l[k])) /\ End(l[k]) \in r .. m
<1> DEFINE p == SubSeq(l, 1, k)
           d == [i \in DOMAIN p |-> p[i].data]
           F == [i \in 1 .. k |-> Bytes(r, End(l[i]))]
<1>1. Len(l) \in Nat /\ k \in Nat /\ k >= 1 /\ m \in Nat /\ r \in Nat
  BY QueueFacts
<1>2. p \in Seq(SegSet(m)) /\ Len(p) = k /\ \A i \in 1 .. k : p[i] = l[i]
  <2>1. 1 \in 1 .. Len(l) + 1 /\ k \in 1 - 1 .. Len(l) /\ r \in Int
    BY <1>1
  <2>2. 1 <= k => First(l[1]) >= r
    BY <1>1
  <2>3. /\ Queue(p, r, m) /\ Len(p) = k - 1 + 1
        /\ \A i \in 1 .. k - 1 + 1 : p[i] = l[1 + i - 1]
    BY <2>1, <2>2, QueuePart
  <2> HIDE DEF p
  <2> QED BY <1>1, <2>3 DEF Queue
<1> HIDE DEF p
<1>3. DOMAIN p = 1 .. k
  BY <1>1, <1>2
<1>4. \A i \in 1 .. k :
        /\ i \in 1 .. Len(l)
        /\ First(l[i]) \in r .. m /\ End(l[i]) \in First(l[i]) .. m /\ End(l[i]) \in r .. m
        /\ d[i] = Bytes(First(l[i]), End(l[i]))
  <2> SUFFICES ASSUME NEW i \in 1 .. k
               PROVE  /\ i \in 1 .. Len(l)
                      /\ First(l[i]) \in r .. m /\ End(l[i]) \in First(l[i]) .. m
                      /\ End(l[i]) \in r .. m
                      /\ d[i] = Bytes(First(l[i]), End(l[i]))
    OBVIOUS
  <2>1. i \in 1 .. Len(l)
    BY <1>1
  <2>2. /\ Piece(l[i], m) /\ First(l[i]) \in 0 .. m /\ End(l[i]) \in 0 .. m
        /\ First(l[i]) <= End(l[i]) /\ First(l[i]) >= r
    BY <2>1, QueueFacts
  <2>3. d[i] = l[i].data
    BY <1>2, <1>3
  <2>4. l[i].data = [x \in 1 .. End(l[i]) - First(l[i]) |-> First(l[i]) + x]
    <3>1. l[i] = Segment(First(l[i]), End(l[i]), l[i].fin)
      BY <2>2 DEF Piece
    <3>2. \A a, b, f : Segment(a, b, f).data = [x \in 1 .. b - a |-> a + x]
      BY DEF Segment
    <3> DEFINE e == l[i]
               a == First(e)
               b == End(e)
               f == e.fin
    <3>3. e = Segment(a, b, f)
      BY <3>1
    <3> HIDE DEF a, b, f, e
    <3>4. e.data = [x \in 1 .. b - a |-> a + x]
      BY <3>2, <3>3, Zenon
    <3> QED BY <3>4 DEF a, b, e
  <2>5. d[i] = Bytes(First(l[i]), End(l[i]))
    BY <2>3, <2>4, Zenon DEF Bytes
  <2> QED BY <1>1, <2>1, <2>2, <2>5
<1>5. Len(d) = k
  <2>1. d = [i \in 1 .. k |-> p[i].data]
    BY <1>3
  <2> QED BY <1>1, <2>1
<1> HIDE DEF d
<1>6. F = [i \in 1 .. k |-> IF i = 1 THEN d[i] ELSE F[i - 1] \o d[i]]
  <2> SUFFICES ASSUME NEW i \in 1 .. k
               PROVE  Bytes(r, End(l[i])) = IF i = 1 THEN d[i] ELSE F[i - 1] \o d[i]
    BY Zenon
  <2>1. CASE i = 1
    BY <1>4, <2>1
  <2>2. CASE i # 1
    <3>1. i - 1 \in 1 .. k /\ i \in 2 .. k
      BY <1>1, <2>2
    <3>2. F[i - 1] = Bytes(r, End(l[i - 1])) /\ First(l[i]) = End(l[i - 1])
      BY <3>1
    <3>3. r \in 0 .. m /\ End(l[i - 1]) \in r .. m /\ End(l[i]) \in End(l[i - 1]) .. m
          /\ d[i] = Bytes(End(l[i - 1]), End(l[i]))
      BY <1>4, <3>1, <3>2
    <3>4. Bytes(r, End(l[i - 1])) \o Bytes(End(l[i - 1]), End(l[i])) = Bytes(r, End(l[i]))
      BY <1>1, <3>3, BytesJoin
    <3> QED BY <2>2, <3>2, <3>3, <3>4
  <2> QED BY <2>1, <2>2
<1>7. F[k] = Bytes(r, End(l[k]))
  BY <1>1
<1> HIDE DEF F
<1>8. FlattenSeq(d) = F[k]
  <2>1. Grows(F, d, k)
    BY <1>6, Zenon DEF Grows
  <2> QED BY <1>1, <1>5, <2>1, FlattenPoint
<1>9. BytesOf(p) = FlattenSeq(d)
  BY DEF BytesOf, d
<1>10. End(l[k]) \in r .. m
  BY <1>1, <1>4
<1> QED BY <1>7, <1>8, <1>9, <1>10 DEF p

-----------------------------------------------------------------------------
(* The inductive invariant.                                                *)

\* The places taken, a FIN included.
Taken == Len(read) + IF eof THEN 1 ELSE 0

\* The types, what has been read, what is acknowledged and announced, and
\* what is queued.
ReceiverInv ==
  /\ n \in 0 .. MaxStream
  /\ Len(read) \in 0 .. n /\ read = Bytes(0, Len(read))
  /\ eof \in BOOLEAN /\ (eof => Len(read) = n)
  /\ rcv_nxt = At(Taken) /\ rcv_wnd = Left(Len(read)) /\ rcv_ann_wnd = Left(Taken)
  /\ rcv_ann_right_edge \in Announced(Taken)
  /\ Queue(ooseq, Len(read) + 1, n) /\ Len(ooseq) <= SegPool

\* A queue that begins later begins no earlier.
LEMMA QueueWeaken ==
  ASSUME NEW m \in 0 .. MaxStream, NEW l, NEW lo \in Int, Queue(l, lo, m),
         NEW lo2 \in Int, lo2 <= lo
  PROVE  Queue(l, lo2, m)
<1>1. \A i \in 1 .. Len(l) : First(l[i]) >= lo2
  <2> SUFFICES ASSUME NEW i \in 1 .. Len(l) PROVE First(l[i]) >= lo2
    OBVIOUS
  <2>1. First(l[i]) \in Int /\ First(l[i]) >= lo
    BY QueueFacts
  <2> QED BY <2>1
<1> QED BY <1>1 DEF Queue

\* A segment that is next, cut to the window.
LEMMA CutPiece ==
  ASSUME NEW m \in 0 .. MaxStream, NEW s, Piece(s, m),
         NEW q \in Place, RightEdge = At(q), rcv_wnd = q - First(s), First(s) <= q
  PROVE  Piece(Cut(s), m) /\ First(Cut(s)) = First(s) /\ Stop(Cut(s)) <= q
<1>1. /\ First(s) \in 0 .. m /\ End(s) \in 0 .. m /\ First(s) <= End(s)
      /\ (s.fin => End(s) = m)
      /\ TcpLen(s) = End(s) - First(s) + IF s.fin THEN 1 ELSE 0
  BY PieceFacts
<1>2. CASE TcpLen(s) > rcv_wnd
  <2>1. q \in First(s) .. End(s)
    BY <1>1, <1>2 DEF Place
  <2>2. /\ Piece(UpToWithoutFin(s, At(q)), m)
        /\ First(UpToWithoutFin(s, At(q))) = First(s)
        /\ End(UpToWithoutFin(s, At(q))) = q /\ ~UpToWithoutFin(s, At(q)).fin
    BY <2>1, UpToWithoutFinPiece
  <2>3. Cut(s) = UpToWithoutFin(s, At(q))
    BY <1>2 DEF Cut
  <2>4. q \in Int
    BY DEF Place
  <2> QED BY <2>2, <2>3, <2>4 DEF Stop
<1>3. CASE ~(TcpLen(s) > rcv_wnd)
  <2>1. Cut(s) = s
    BY <1>3 DEF Cut
  <2>2. Stop(s) = First(s) + TcpLen(s) /\ First(s) \in Int /\ TcpLen(s) \in Int /\ q \in Int
    BY <1>1 DEF Stop, Place
  <2> QED BY <1>3, <2>1, <2>2
<1> QED BY <1>2, <1>3

\* What is queued ends within the window.
QueueFits == Within(ooseq, Edge(Len(read)))

\* The receiver has gone on to place e, not over the right edge if the queue
\* did not go over it.
ReadTo(e, m) ==
  /\ read' = Bytes(0, e)
  /\ eof' \in BOOLEAN /\ (eof' => e = m)
  /\ rcv_nxt' = At(e + IF eof' THEN 1 ELSE 0)
  /\ rcv_wnd' = Left(e) /\ rcv_ann_wnd' = Left(e + IF eof' THEN 1 ELSE 0)
  /\ Queue(ooseq', e + 1, m) /\ Len(ooseq') <= SegPool
  /\ QueueFits => e + (IF eof' THEN 1 ELSE 0) <= Edge(Len(read))

\* The window after a hand-over, before tcp_input gives the FIN's place back
\* and after it, also when it wraps (1583-1586, 534-541).
LEMMA WindowLeft ==
  ASSUME NEW m \in 0 .. MaxStream, NEW r \in 0 .. m, NEW e \in r .. m, NEW f \in BOOLEAN
  PROVE  LET len  == e - r + IF f THEN 1 ELSE 0
             left == (Left(r) - len) % WndSpan
         IN /\ left = Left(e + IF f THEN 1 ELSE 0)
            /\ (IF f /\ left # Window THEN (left + 1) % WndSpan ELSE left) = Left(e)
<1> DEFINE k == e + IF f THEN 1 ELSE 0
           x == Left(r) - (e - r + IF f THEN 1 ELSE 0)
<1>1. /\ m \in Nat /\ r \in Nat /\ e \in Nat /\ e <= MaxStream
      /\ k \in 0 .. MaxStream + 1 /\ e \in 0 .. MaxStream + 1 /\ r \in 0 .. k
      /\ r \in 0 .. MaxStream + 1
  BY SpanFacts
<1>2. x = Edge(r) - k
  <2>1. Edge(r) \in Int
    BY <1>1, EdgePlace
  <2> QED BY <1>1, <2>1 DEF Left
<1>3. x % WndSpan = Left(k)
  <2>1. (Edge(r) - k) % WndSpan = Left(k)
    BY <1>1, LeftMod
  <2> QED BY <1>2, <2>1
<1>4. CASE ~f
  <2>1. k = e
    BY <1>1, <1>4
  <2> QED BY <1>3, <1>4, <2>1
<1>5. CASE f
  <2>1. k = e + 1
    BY <1>5
  <2>2. Left(k) # Window /\ (Left(k) + 1) % WndSpan = Left(e)
    <3>1. CASE e = Window
      <4>1. Left(k) = WndSpan - 1 /\ Left(e) = 0 /\ WndSpan \in Nat /\ WndSpan > 0
            /\ Left(k) + 1 = WndSpan
        BY <1>1, <2>1, <3>1, SpanFacts DEF Left, Edge
      <4>2. WndSpan % WndSpan = 0
        BY <4>1, SMT
      <4>3. Left(k) # Window
        BY <1>1, <2>1, <3>1, SpanFacts DEF Left, Edge
      <4> QED BY <4>1, <4>2, <4>3
    <3>2. CASE e # Window
      <4>1. Left(k) + 1 = Left(e) /\ Left(k) # Window
        BY <1>1, <2>1, <3>2, SpanFacts DEF Left, Edge
      <4>2. Left(e) \in 0 .. WndSpan - 1
        BY <1>1, EdgePlace
      <4>3. Left(e) % WndSpan = Left(e)
        BY <4>2, SpanFacts
      <4> QED BY <4>1, <4>3
    <3> QED BY <3>1, <3>2
  <2> QED BY <1>3, <1>5, <2>2
<1> QED BY <1>4, <1>5

\* The run of k entries at the head of l goes to http_recv.
HandedOver(l, k, bytes) ==
  LET len  == Len(bytes) + IF l[k].fin THEN 1 ELSE 0
      left == (rcv_wnd - len) % WndSpan
  IN /\ rcv_nxt' = Plus(rcv_nxt, len)
     /\ rcv_wnd' = IF l[k].fin /\ left # Window THEN (left + 1) % WndSpan ELSE left
     /\ rcv_ann_wnd' = AnnWnd(rcv_nxt', left)
     /\ ooseq' = SubSeq(l, k + 1, Len(l))
     /\ read' = read \o bytes
     /\ eof' = l[k].fin

(***************************************************************************)
(* A segment that is next, with the entries that follow it (tcp_receive,   *)
(* lines 1465-1614, and tcp_input, lines 534-541).                         *)
(***************************************************************************)
LEMMA InOrderStep ==
  ASSUME NEW m \in 0 .. MaxStream, NEW r \in 0 .. m, read = Bytes(0, r),
         rcv_nxt = At(r), rcv_wnd = Left(r), rcv_ann_right_edge \in Announced(r),
         Queue(ooseq, r + 1, m), Len(ooseq) <= SegPool,
         NEW s, Piece(s, m), First(s) = r, InOrder(s)
  PROVE  \E e \in r .. m : ReadTo(e, m)
<1> DEFINE l     == Before(Cut(s), ooseq)
           k     == Run(l, rcv_nxt)
           p     == SubSeq(l, 1, k)
           bytes == BytesOf(p)
           f     == l[k].fin
           len   == Len(bytes) + IF f THEN 1 ELSE 0
           left  == (rcv_wnd - len) % WndSpan
           e     == End(l[k])
<1>1. /\ rcv_nxt' = Plus(rcv_nxt, len)
      /\ rcv_wnd' = IF f /\ left # Window THEN (left + 1) % WndSpan ELSE left
      /\ rcv_ann_wnd' = AnnWnd(rcv_nxt', left)
      /\ ooseq' = SubSeq(l, k + 1, Len(l))
      /\ read' = read \o bytes
      /\ eof' = f
  <2>1. \E l1 \in {Before(Cut(s), ooseq)} : \E k1 \in {Run(l1, rcv_nxt)} :
        \E bytes1 \in {BytesOf(SubSeq(l1, 1, k1))} : HandedOver(l1, k1, bytes1)
    BY Zenon DEF InOrder, HandedOver
  <2>2. HandedOver(l, k, bytes)
    BY <2>1, Zenon
  <2> HIDE DEF l, k, bytes
  <2> QED BY <2>2, Zenon DEF HandedOver
<1>2. RightEdge = At(Edge(r)) /\ r \in 0 .. MaxStream /\ r \in Int /\ r + 1 \in Int
      /\ r <= r + 1 /\ m \in Nat /\ r \in Nat /\ r \in 0 .. MaxStream + 1
  <2>1. r \in 0 .. MaxStream /\ r \in Int /\ r + 1 \in Int /\ r <= r + 1 /\ m \in Nat /\ r \in Nat
        /\ r \in 0 .. MaxStream + 1
    BY SpanFacts
  <2> QED BY <2>1, EdgeFacts
<1>3. Piece(Cut(s), m) /\ First(Cut(s)) = r /\ Stop(Cut(s)) <= Edge(r)
  <2>1. Edge(r) \in Place /\ r <= Edge(r) /\ rcv_wnd = Edge(r) - First(s)
    BY <1>2, EdgePlace DEF Left
  <2> HIDE DEF Edge
  <2> QED BY <1>2, <2>1, CutPiece
<1>4. Queue(ooseq, r, m)
  BY <1>2, QueueWeaken
<1>5. /\ Queue(l, r, m) /\ Len(l) \in 1 .. Len(ooseq) + 1 /\ First(l[1]) = r
      /\ Within(ooseq, Edge(r)) => Within(l, Edge(r))
  <2> DEFINE c == Cut(s)
  <2>1. Piece(c, m) /\ First(c) = r /\ Queue(ooseq, First(c), m) /\ Stop(c) <= Edge(r)
    BY <1>3, <1>4
  <2>3. Edge(r) \in Int
    BY <1>2, EdgePlace
  <2> HIDE DEF c
  <2>2. /\ Queue(Before(c, ooseq), First(c), m)
        /\ Len(Before(c, ooseq)) \in 1 .. Len(ooseq) + 1
        /\ First(Before(c, ooseq)[1]) = First(c)
        /\ \A hi \in Int : Stop(c) <= hi /\ Within(ooseq, hi) => Within(Before(c, ooseq), hi)
    BY <2>1, BeforeQueue
  <2> QED BY <2>1, <2>2, <2>3 DEF c
<1> HIDE DEF l
<1>6. Len(l) \in Nat /\ Len(ooseq) \in Nat /\ Len(l) >= 1 /\ Len(l) <= Len(ooseq) + 1
  <2>1. Len(l) \in Nat /\ Len(ooseq) \in Nat
    BY <1>4, <1>5, QueueFacts
  <2> QED BY <1>5, <2>1
<1>7. /\ k \in 1 .. Len(l)
      /\ \A i \in 2 .. k : First(l[i]) = End(l[i - 1])
      /\ k < Len(l) => First(l[k + 1]) > End(l[k])
  BY <1>5, <1>6, RunFacts
<1> HIDE DEF k
<1>8. bytes = Bytes(r, e) /\ e \in r .. m
  BY <1>5, <1>7, RunBytes
<1>9. /\ f \in BOOLEAN /\ (f => e = m) /\ (f => k = Len(l))
  <2>1. Piece(l[k], m) /\ (l[k].fin => k = Len(l))
    BY <1>5, <1>7 DEF Queue
  <2> QED BY <2>1, PieceFacts
<1>a. Within(l, Edge(r)) => e + (IF f THEN 1 ELSE 0) <= Edge(r)
  <2>1. Stop(l[k]) = e + IF f THEN 1 ELSE 0
    BY DEF Stop
  <2> QED BY <1>7, <2>1 DEF Within
<1> HIDE DEF e, f, bytes
<1>10. e \in Nat /\ e \in 0 .. m /\ e <= MaxStream /\ r <= e /\ e - r \in Nat
  BY <1>2, <1>8, SpanFacts
<1>11. Len(bytes) = e - r
  BY <1>2, <1>8, BytesFacts
<1>12. read' = Bytes(0, e)
  <2>1. 0 \in 0 .. m /\ r \in 0 .. m /\ e \in r .. m
    BY <1>2, <1>8
  <2>2. Bytes(0, r) \o Bytes(r, e) = Bytes(0, e)
    BY <1>2, <2>1, BytesJoin
  <2> QED BY <1>1, <1>8, <2>2
<1>13. rcv_nxt' = At(e + IF f THEN 1 ELSE 0)
  <2>1. /\ len \in Int /\ r \in Place /\ r + len \in Place
        /\ r + len = e + IF f THEN 1 ELSE 0
    BY <1>2, <1>9, <1>10, <1>11, SpanFacts DEF Place
  <2> HIDE DEF len
  <2>2. Plus(At(r), len) = At(r + len)
    BY <2>1, AtPlus
  <2> QED BY <1>1, <2>1, <2>2
<1>14. rcv_wnd' = Left(e) /\ rcv_ann_wnd' = Left(e + IF f THEN 1 ELSE 0)
  <2> DEFINE k2 == e + IF f THEN 1 ELSE 0
  <2>1. left = Left(k2) /\ (IF f /\ left # Window THEN (left + 1) % WndSpan ELSE left) = Left(e)
    <3>1. e \in r .. m /\ f \in BOOLEAN
      BY <1>8, <1>9
    <3> DEFINE len2  == e - r + IF f THEN 1 ELSE 0
               left2 == (Left(r) - len2) % WndSpan
    <3>2. left2 = Left(k2) /\ (IF f /\ left2 # Window THEN (left2 + 1) % WndSpan ELSE left2) = Left(e)
      BY <3>1, WindowLeft
    <3>3. left = left2
      BY <1>11
    <3> HIDE DEF left, left2, k2
    <3> QED BY <3>2, <3>3
  <2> HIDE DEF left
  <2>2. k2 \in 0 .. MaxStream + 1 /\ r \in 0 .. k2
    BY <1>2, <1>9, <1>10, SpanFacts
  <2>3. rcv_nxt' = At(k2)
    BY <1>13
  <2> HIDE DEF k2
  <2>4. rcv_ann_right_edge \in Announced(k2)
    BY <2>2, AnnouncedGrows
  <2>5. AnnWnd(At(k2), Left(k2)) = Left(k2)
    BY <2>2, <2>4, AnnWndLeft
  <2>6. rcv_ann_wnd' = Left(k2)
    BY <1>1, <2>1, <2>3, <2>5
  <2> QED BY <1>1, <2>1, <2>6 DEF k2
<1>15. Queue(ooseq', e + 1, m) /\ Len(ooseq') <= SegPool
  <2> DEFINE a == k + 1
             lo2 == e + 1
  <2>1. a \in 1 .. Len(l) + 1 /\ Len(l) \in a - 1 .. Len(l) /\ lo2 \in Int
    BY <1>6, <1>7, <1>10
  <2>2. a <= Len(l) => First(l[a]) >= lo2
    <3> SUFFICES ASSUME k + 1 <= Len(l) PROVE First(l[k + 1]) >= e + 1
      OBVIOUS
    <3>1. k < Len(l) /\ k + 1 \in 1 .. Len(l)
      BY <1>6, <1>7
    <3>2. First(l[k + 1]) > e
      BY <1>7, <3>1 DEF e
    <3>3. First(l[k + 1]) \in Int
      BY <1>5, <3>1, QueueFacts
    <3> QED BY <1>10, <3>2, <3>3
  <2>3. Len(l) - a + 1 <= SegPool
    BY <1>6, <1>7, SpanFacts
  <2> HIDE DEF a, lo2
  <2>4. Queue(SubSeq(l, a, Len(l)), lo2, m) /\ Len(SubSeq(l, a, Len(l))) = Len(l) - a + 1
    BY <1>2, <1>5, <2>1, <2>2, QueuePart
  <2> QED BY <1>1, <2>3, <2>4 DEF a, lo2
<1>16. QueueFits => e + (IF eof' THEN 1 ELSE 0) <= Edge(Len(read))
  <2>1. Len(read) = r
    <3>1. 0 \in 0 .. r /\ r \in Nat /\ 0 \in Nat
      BY <1>2
    <3>2. Len(Bytes(0, r)) = r - 0
      BY <3>1, BytesFacts, SMTT(30)
    <3> QED BY <1>2, <3>2
  <2> QED BY <1>1, <1>5, <1>a, <2>1 DEF QueueFits
<1>17. ReadTo(e, m)
  BY <1>1, <1>9, <1>12, <1>13, <1>14, <1>15, <1>16 DEF ReadTo
<1> QED BY <1>8, <1>17

\* A segment that is not next (tcp_receive, lines 1650-1807).
LEMMA OutOfOrderStep ==
  ASSUME NEW m \in 0 .. MaxStream, NEW lo \in Int, NEW q \in Place, RightEdge = At(q),
         Queue(ooseq, lo, m), Len(ooseq) <= SegPool,
         NEW s, Piece(s, m), First(s) >= lo, First(s) <= q, OutOfOrder(s)
  PROVE  /\ Queue(ooseq', lo, m) /\ Len(ooseq') <= SegPool
         /\ UNCHANGED <<rcv_nxt, rcv_wnd, rcv_ann_wnd, read, eof>>
<1>1. \/ ooseq' = ooseq
      \/ Len(ooseq) < SegPool /\ ooseq' = Queued(s, ooseq)
  BY DEF OutOfOrder
<1>2. UNCHANGED <<rcv_nxt, rcv_wnd, rcv_ann_wnd, read, eof>>
  BY DEF OutOfOrder
<1>3. CASE ooseq' = ooseq
  BY <1>2, <1>3
<1>4. CASE Len(ooseq) < SegPool /\ ooseq' = Queued(s, ooseq)
  <2>1. Queue(Queued(s, ooseq), lo, m) /\ Len(Queued(s, ooseq)) \in 0 .. Len(ooseq) + 1
    BY QueuedQueue
  <2>2. Len(ooseq) \in Nat
    BY QueueFacts
  <2>3. Len(Queued(s, ooseq)) <= SegPool
    BY <1>4, <2>1, <2>2, SpanFacts
  <2> QED BY <1>2, <1>4, <2>1, <2>3
<1> QED BY <1>1, <1>3, <1>4

\* Any segment of the stream (tcp_receive, lines 1379-1464).
LEMMA ReceiveStep ==
  ASSUME ReceiverInv, NEW m, m = n, NEW r, r = Len(read), NEW s, Piece(s, m), Receive(s)
  PROVE  /\ ~eof /\ n' = n /\ (Announcement \/ UNCHANGED rcv_ann_right_edge)
         /\ \/ \E e \in r .. m : ReadTo(e, m)
            \/ /\ UNCHANGED <<rcv_nxt, rcv_wnd, rcv_ann_wnd, read, eof>>
               /\ Queue(ooseq', r + 1, m) /\ Len(ooseq') <= SegPool
<1> DEFINE in  == Between(rcv_nxt, Plus(s.seq, 1), Plus(s.seq, TcpLen(s) - 1))
           new == IF in THEN From(s, rcv_nxt) ELSE s
<1>1. /\ ~eof /\ n' = n /\ TcpLen(s) > 0
      /\ IF Between(new.seq, rcv_nxt, Plus(RightEdge, -1))
         THEN IF new.seq = rcv_nxt THEN InOrder(new) ELSE OutOfOrder(new)
         ELSE UNCHANGED <<rcv_nxt, rcv_wnd, rcv_ann_wnd, ooseq, read, eof>>
      /\ Announcement \/ UNCHANGED rcv_ann_right_edge
  BY Zenon DEF Receive
<1>2. /\ m \in 0 .. MaxStream /\ r \in 0 .. m /\ r \in 0 .. MaxStream /\ r + 1 \in Int
      /\ r \in 0 .. MaxStream + 1
      /\ read = Bytes(0, r)
      /\ Queue(ooseq, r + 1, m) /\ Len(ooseq) <= SegPool
  BY SpanFacts DEF ReceiverInv
<1>3. rcv_nxt = At(r) /\ rcv_wnd = Left(r) /\ rcv_ann_right_edge \in Announced(r)
  <2>1. Taken = r
    BY <1>1, <1>2 DEF Taken
  <2> QED BY <2>1 DEF ReceiverInv
<1> DEFINE q == Edge(r)
<1>4. RightEdge = At(q)
  BY <1>2, <1>3, EdgeFacts
<1>5. r \in Place /\ q \in Place /\ q - 1 \in Place /\ m \in Int /\ r \in Int /\ q \in Int
  BY <1>2, EdgePlace DEF Place
<1> HIDE DEF q
<1>6. Piece(new, m)
  <2>1. CASE in
    <3> DEFINE i   == First(s)
               len == TcpLen(s)
    <3>1. /\ i \in 0 .. m /\ End(s) \in 0 .. m /\ i <= End(s) /\ i \in Place
          /\ s.seq = At(i)
          /\ len = End(s) - i + IF s.fin THEN 1 ELSE 0
      BY <1>2, PieceFacts
    <3>2. len > 0
      BY <1>1
    <3> HIDE DEF i, len
    <3>3. len - 1 \in Int /\ i + 1 \in Place /\ i + (len - 1) \in Place /\ i + (len - 1) <= End(s)
      <4>1. len \in Int /\ len >= 1 /\ len <= End(s) - i + 1
        <5>1. CASE s.fin
          BY <1>2, <3>1, <3>2, <5>1
        <5>2. CASE ~s.fin
          BY <1>2, <3>1, <3>2, <5>2
        <5> QED BY <5>1, <5>2
      <4>2. i \in 0 .. m /\ End(s) \in 0 .. m /\ m \in 0 .. MaxStream
        BY <1>2, <3>1
      <4> QED BY <4>1, <4>2, SpanFacts DEF Place
    <3>4. Plus(s.seq, 1) = At(i + 1) /\ Plus(s.seq, len - 1) = At(i + (len - 1))
      BY <3>1, <3>3, AtPlus
    <3>5. Geq(At(r), At(i + 1)) /\ Leq(At(r), At(i + (len - 1)))
      BY <1>3, <2>1, <3>4 DEF Between, len
    <3>6. r >= i + 1 /\ r <= i + (len - 1)
      BY <1>5, <3>3, <3>5, Compare
    <3>7. r \in First(s) .. End(s)
      BY <1>2, <3>1, <3>3, <3>6 DEF i
    <3>8. Piece(From(s, At(r)), m)
      BY <1>2, <3>7, FromPiece
    <3> QED BY <1>3, <2>1, <3>8
  <2>2. CASE ~in
    BY <2>2
  <2> QED BY <2>1, <2>2
<1> HIDE DEF new
<1>7. First(new) \in Place /\ new.seq = At(First(new)) /\ First(new) \in Int
  <2>1. First(new) \in Place /\ new.seq = At(First(new))
    BY <1>2, <1>6, PieceFacts
  <2> QED BY <2>1 DEF Place
<1>8. CASE Between(new.seq, rcv_nxt, Plus(RightEdge, -1))
  <2>1. First(new) >= r
    <3>1. Geq(At(First(new)), At(r))
      BY <1>3, <1>7, <1>8 DEF Between
    <3> QED BY <1>5, <1>7, <3>1, Compare
  <2>2. CASE new.seq = rcv_nxt
    <3>1. First(new) = r
      BY <1>3, <1>5, <1>7, <2>2, AtDifferent
    <3>2. InOrder(new)
      BY <1>1, <1>8, <2>2
    <3>3. \E e \in r .. m : ReadTo(e, m)
      BY <1>2, <1>3, <1>6, <3>1, <3>2, InOrderStep
    <3> QED BY <1>1, <3>3
  <2>3. CASE new.seq # rcv_nxt
    <3>1. First(new) >= r + 1
      <4>1. First(new) # r
        BY <1>3, <1>7, <2>3
      <4> QED BY <1>5, <1>7, <2>1, <4>1
    <3>2. OutOfOrder(new)
      BY <1>1, <1>8, <2>3
    <3>a. First(new) <= q
      <4>1. Plus(RightEdge, -1) = At(q - 1)
        <5>1. q + (-1) = q - 1
          BY <1>5
        <5>2. Plus(At(q), -1) = At(q + (-1))
          BY <1>5, <5>1, AtPlus
        <5> QED BY <1>4, <5>1, <5>2
      <4>2. Leq(At(First(new)), At(q - 1))
        BY <1>7, <1>8, <4>1 DEF Between
      <4>3. First(new) <= q - 1
        BY <1>5, <1>7, <4>2, Compare
      <4> QED BY <1>5, <1>7, <4>3
    <3> DEFINE lo == r + 1
    <3>3. lo \in Int /\ Queue(ooseq, lo, m) /\ First(new) >= lo
      BY <1>2, <3>1
    <3> HIDE DEF lo
    <3>4. /\ Queue(ooseq', lo, m) /\ Len(ooseq') <= SegPool
          /\ UNCHANGED <<rcv_nxt, rcv_wnd, rcv_ann_wnd, read, eof>>
      BY <1>2, <1>4, <1>5, <1>6, <3>2, <3>3, <3>a, OutOfOrderStep
    <3> QED BY <1>1, <3>4 DEF lo
  <2> QED BY <2>2, <2>3
<1>9. CASE ~Between(new.seq, rcv_nxt, Plus(RightEdge, -1))
  <2>1. UNCHANGED <<rcv_nxt, rcv_wnd, rcv_ann_wnd, ooseq, read, eof>>
    BY <1>1, <1>9
  <2>2. ooseq' = ooseq /\ UNCHANGED <<rcv_nxt, rcv_wnd, rcv_ann_wnd, read, eof>>
    BY <2>1
  <2> QED BY <1>1, <1>2, <2>2
<1> QED BY <1>8, <1>9

\* Every step keeps the invariant and delivers or stutters.
LEMMA NextStep ==
  ASSUME ReceiverInv, [Next]_vars
  PROVE  ReceiverInv' /\ [Stream!Deliver]_(Stream!vars)
<1> DEFINE m == n
           r == Len(read)
<1>1. /\ m \in 0 .. MaxStream /\ r \in 0 .. m /\ m \in Nat /\ r \in Nat
      /\ Taken \in 0 .. MaxStream + 1 /\ r <= Taken
      /\ Queue(ooseq, r + 1, m) /\ Len(ooseq) <= SegPool
      /\ eof \in BOOLEAN /\ (eof => r = m) /\ read = Bytes(0, r)
  BY SpanFacts DEF ReceiverInv, Taken
\* A step that delivers nothing.
<1>2. ASSUME UNCHANGED <<n, rcv_nxt, rcv_wnd, rcv_ann_wnd, read, eof>>,
             Announcement \/ UNCHANGED rcv_ann_right_edge,
             Queue(ooseq', r + 1, m), Len(ooseq') <= SegPool
      PROVE  ReceiverInv' /\ [Stream!Deliver]_(Stream!vars)
  <2>1. n' = m /\ Len(read') = r /\ read' = read /\ eof' = eof /\ Taken' = Taken
    BY <1>2 DEF Taken
  <2>2. /\ rcv_nxt = At(Taken) /\ rcv_wnd = Left(r) /\ rcv_ann_wnd = Left(Taken)
        /\ rcv_ann_right_edge \in Announced(Taken)
    BY DEF ReceiverInv
  <2>3. rcv_ann_right_edge' \in Announced(Taken)
    <3> DEFINE k == Taken
    <3>1. /\ k \in 0 .. MaxStream + 1 /\ k \in 0 .. k /\ rcv_ann_right_edge \in Announced(k)
          /\ rcv_nxt' = At(k) /\ rcv_ann_wnd' = Left(k)
          /\ Announcement \/ UNCHANGED rcv_ann_right_edge
      BY <1>1, <1>2, <2>2
    <3> HIDE DEF k
    <3>2. rcv_ann_right_edge' \in Announced(k)
      BY <3>1, AnnouncementStep
    <3> QED BY <3>2 DEF k
  <2>4. /\ rcv_nxt' = At(Taken') /\ rcv_wnd' = Left(Len(read')) /\ rcv_ann_wnd' = Left(Taken')
        /\ rcv_ann_right_edge' \in Announced(Taken')
    BY <1>2, <2>1, <2>2, <2>3
  <2>5. ReceiverInv'
    BY <1>1, <1>2, <2>1, <2>4 DEF ReceiverInv
  <2>6. UNCHANGED Stream!vars
    BY <1>2 DEF Stream!vars
  <2> QED BY <2>5, <2>6
<1>3. CASE Arrive
  <2>a. PICK i \in 0 .. n :
          \E j \in i .. n : \E fin \in {FALSE, j = n} : Receive(Segment(i, j, fin))
    BY <1>3 DEF Arrive
  <2>b. PICK j \in i .. n : \E fin \in {FALSE, j = n} : Receive(Segment(i, j, fin))
    BY <2>a
  <2>1. PICK fin \in {FALSE, j = n} : Receive(Segment(i, j, fin))
    BY <2>b
  <2> DEFINE s == Segment(i, j, fin)
  <2>2. Piece(s, m)
    <3>1. i \in 0 .. m /\ j \in i .. m /\ fin \in BOOLEAN /\ (fin => j = m)
      BY <1>1, <2>1
    <3> QED BY <1>1, <3>1, SegmentFacts
  <2> HIDE DEF s
  <2>3. Receive(s)
    BY <2>1 DEF s
  <2>4. /\ ~eof /\ n' = n /\ (Announcement \/ UNCHANGED rcv_ann_right_edge)
        /\ \/ \E e \in r .. m : ReadTo(e, m)
           \/ /\ UNCHANGED <<rcv_nxt, rcv_wnd, rcv_ann_wnd, read, eof>>
              /\ Queue(ooseq', r + 1, m) /\ Len(ooseq') <= SegPool
    BY <2>2, <2>3, ReceiveStep
  <2>5. CASE \E e \in r .. m : ReadTo(e, m)
    <3>1. PICK e \in r .. m : ReadTo(e, m)
      BY <2>5
    <3>2. /\ read' = Bytes(0, e)
          /\ eof' \in BOOLEAN /\ (eof' => e = m)
          /\ rcv_nxt' = At(e + IF eof' THEN 1 ELSE 0)
          /\ rcv_wnd' = Left(e) /\ rcv_ann_wnd' = Left(e + IF eof' THEN 1 ELSE 0)
          /\ Queue(ooseq', e + 1, m) /\ Len(ooseq') <= SegPool
      BY <3>1 DEF ReadTo
    <3>3. e \in 0 .. m /\ 0 \in 0 .. m /\ e \in Nat
      BY <1>1, <3>1
    <3>4. Len(read') = e
      <4>1. Len(Bytes(0, e)) = e - 0
        BY <1>1, <3>3, BytesFacts
      <4> QED BY <3>2, <3>3, <4>1
    <3>5. /\ rcv_nxt' = At(Taken') /\ rcv_wnd' = Left(Len(read')) /\ rcv_ann_wnd' = Left(Taken')
          /\ rcv_ann_right_edge' \in Announced(Taken')
      <4> DEFINE k == e + IF eof' THEN 1 ELSE 0
      <4>1. Taken' = k /\ rcv_nxt' = At(k) /\ rcv_ann_wnd' = Left(k)
        BY <3>2, <3>4 DEF Taken
      <4>2. Taken = r
        BY <1>1, <2>4 DEF Taken
      <4>3. rcv_ann_right_edge \in Announced(r)
        BY <4>2 DEF ReceiverInv
      <4>4. k \in 0 .. MaxStream + 1 /\ r \in 0 .. k
        BY <1>1, <3>1, <3>2, SpanFacts
      <4> HIDE DEF k
      <4>5. rcv_ann_right_edge' \in Announced(k)
        BY <2>4, <4>1, <4>3, <4>4, AnnouncementStep
      <4> QED BY <3>2, <3>4, <4>1, <4>5
    <3>6. n' = m
      BY <2>4
    <3>7. ReceiverInv'
      BY <1>1, <3>2, <3>3, <3>4, <3>5, <3>6 DEF ReceiverInv
    <3>8. Bytes(0, e) = Stream!Prefix(e)
      BY <3>3 DEF Bytes, Stream!Prefix
    <3>9. eof' \in {FALSE, e = n}
      BY <3>2
    <3>10. Stream!Deliver
      BY <2>4, <3>1, <3>2, <3>8, <3>9 DEF Stream!Deliver
    <3> QED BY <3>7, <3>10
  <2>6. CASE /\ UNCHANGED <<rcv_nxt, rcv_wnd, rcv_ann_wnd, read, eof>>
             /\ Queue(ooseq', r + 1, m) /\ Len(ooseq') <= SegPool
    BY <1>2, <2>4, <2>6
  <2> QED BY <2>4, <2>5, <2>6
<1>4. CASE FreeOoseq
  <2>1. ooseq' = <<>> /\ UNCHANGED <<n, rcv_nxt, rcv_wnd, announced, read, eof>>
    BY <1>4 DEF FreeOoseq
  <2>2. UNCHANGED <<n, rcv_nxt, rcv_wnd, rcv_ann_wnd, read, eof>> /\ UNCHANGED rcv_ann_right_edge
    BY <2>1 DEF announced
  <2>3. Queue(<<>>, r + 1, m) /\ Len(<<>>) = 0
    BY QueueNone
  <2>4. Queue(ooseq', r + 1, m) /\ Len(ooseq') <= SegPool
    BY <2>1, <2>3, SpanFacts
  <2> QED BY <1>2, <2>2, <2>4
<1>5. CASE Acknowledge
  <2>1. UNCHANGED <<n, rcv_nxt, rcv_wnd, rcv_ann_wnd, ooseq, read, eof>> /\ Announcement
    BY <1>5 DEF Acknowledge
  <2>2. Queue(ooseq', r + 1, m) /\ Len(ooseq') <= SegPool
    BY <1>1, <2>1
  <2> QED BY <1>2, <2>1, <2>2
<1>6. CASE UNCHANGED vars
  <2>1. ooseq' = ooseq /\ UNCHANGED <<n, rcv_nxt, rcv_wnd, announced, read, eof>>
    BY <1>6 DEF vars
  <2>2. UNCHANGED <<n, rcv_nxt, rcv_wnd, rcv_ann_wnd, read, eof>> /\ UNCHANGED rcv_ann_right_edge
    BY <2>1 DEF announced
  <2>3. Queue(ooseq', r + 1, m) /\ Len(ooseq') <= SegPool
    BY <1>1, <2>1
  <2> QED BY <1>2, <2>2, <2>3
<1> QED BY <1>3, <1>4, <1>5, <1>6 DEF Next

\* A connection begins with nothing read and nothing queued.
LEMMA Starts == Init => ReceiverInv
<1> SUFFICES ASSUME Init PROVE ReceiverInv
  OBVIOUS
<1>1. /\ n \in 0 .. MaxStream /\ rcv_nxt = Isn /\ rcv_wnd = Window /\ ooseq = <<>>
      /\ rcv_ann_wnd = Window /\ rcv_ann_right_edge = At(Window)
      /\ read = <<>> /\ eof = FALSE
  BY DEF Init, At
<1>2. Len(read) = 0 /\ Len(read) \in 0 .. n
  BY <1>1, SpanFacts
<1>3. read = Bytes(0, Len(read))
  <2>1. Bytes(0, 0) \in Seq(1 .. 0) /\ Len(Bytes(0, 0)) = 0
    <3>1. 0 \in Nat /\ 0 \in 0 .. 0
      OBVIOUS
    <3>2. Len(Bytes(0, 0)) = 0 - 0 /\ Bytes(0, 0) \in Seq(1 .. 0)
      BY <3>1, BytesFacts
    <3> QED BY <3>2
  <2> QED BY <1>1, <1>2, <2>1
<1>4. /\ rcv_nxt = At(Taken) /\ rcv_wnd = Left(Len(read)) /\ rcv_ann_wnd = Left(Taken)
      /\ rcv_ann_right_edge \in Announced(Taken)
  <2>1. 0 \in Place /\ At(0) = Isn /\ Left(0) = Window /\ Taken = 0
    BY <1>1, <1>2, AtFacts, SpanFacts DEF Place, Left, Edge, Taken
  <2> QED BY <1>1, <1>2, <2>1 DEF Announced
<1>5. Queue(ooseq, Len(read) + 1, n) /\ Len(ooseq) <= SegPool
  <2>1. Queue(<<>>, Len(read) + 1, n) /\ Len(<<>>) = 0
    BY QueueNone
  <2> QED BY <1>1, <2>1, SpanFacts
<1> QED BY <1>1, <1>2, <1>3, <1>4, <1>5 DEF ReceiverInv

\* The invariant always holds.
LEMMA Invariance == Spec => []ReceiverInv
<1>1. ReceiverInv /\ [Next]_vars => ReceiverInv'
  BY NextStep
<1> QED BY <1>1, Starts, PTL DEF Spec

\* The invariant says all that OoseqSound does.
LEMMA InvOoseqSound == ReceiverInv => OoseqSound
<1> SUFFICES ASSUME ReceiverInv PROVE OoseqSound
  OBVIOUS
<1> DEFINE m == n
           z == Len(read)
<1>1. /\ m \in 0 .. MaxStream /\ z \in 0 .. m /\ m \in Nat /\ z \in Nat /\ z + 1 \in Int
      /\ Taken \in 0 .. MaxStream + 1 /\ z \in 0 .. MaxStream + 1
      /\ Queue(ooseq, z + 1, m) /\ Len(ooseq) <= SegPool
      /\ eof \in BOOLEAN /\ (eof => z = m) /\ read = Bytes(0, z)
      /\ rcv_nxt = At(Taken) /\ rcv_wnd = Left(z) /\ rcv_ann_wnd = Left(Taken)
      /\ rcv_ann_right_edge \in {At(Window), At(Edge(Taken))}
  BY SpanFacts DEF ReceiverInv, Taken, Announced
<1>2. TypeOK
  <2>1. rcv_nxt \in 0 .. Span - 1 /\ rcv_ann_right_edge \in 0 .. Span - 1
    <3>1. Taken \in Place /\ Edge(Taken) \in Place /\ Window \in Place
      BY <1>1, EdgePlace, SpanFacts DEF Place
    <3> QED BY <1>1, <3>1, AtFacts
  <2>2. rcv_wnd \in 0 .. WndSpan - 1 /\ rcv_ann_wnd \in 0 .. WndSpan - 1
    BY <1>1, EdgePlace
  <2>3. read \in Seq(1 .. m)
    <3>1. 0 \in 0 .. m
      BY <1>1
    <3>2. Bytes(0, z) \in Seq(1 .. m)
      BY <1>1, <3>1, BytesFacts
    <3> QED BY <1>1, <3>2
  <2>4. ooseq \in Seq(Segments)
    BY <1>1 DEF Queue, Segments, SegSet
  <2> QED BY <1>1, <2>1, <2>2, <2>3, <2>4 DEF TypeOK
<1>3. \A i \in 1 .. Len(ooseq) :
        /\ First(ooseq[i]) > z
        /\ ooseq[i] = Segment(First(ooseq[i]), End(ooseq[i]), ooseq[i].fin)
        /\ ooseq[i].fin => i = Len(ooseq) /\ End(ooseq[i]) = m
  <2> SUFFICES ASSUME NEW i \in 1 .. Len(ooseq)
               PROVE  /\ First(ooseq[i]) > z
                      /\ ooseq[i] = Segment(First(ooseq[i]), End(ooseq[i]), ooseq[i].fin)
                      /\ ooseq[i].fin => i = Len(ooseq) /\ End(ooseq[i]) = m
    OBVIOUS
  <2>1. First(ooseq[i]) \in Int /\ First(ooseq[i]) >= z + 1
    BY <1>1, QueueFacts
  <2>2. Piece(ooseq[i], m) /\ (ooseq[i].fin => i = Len(ooseq))
    BY <1>1 DEF Queue
  <2>3. First(ooseq[i]) > z
    BY <1>1, <2>1
  <2> QED BY <2>2, <2>3 DEF Piece
<1>4. \A i \in 2 .. Len(ooseq) : End(ooseq[i - 1]) <= First(ooseq[i])
  <2> SUFFICES ASSUME NEW i \in 2 .. Len(ooseq)
               PROVE  End(ooseq[i - 1]) <= First(ooseq[i])
    OBVIOUS
  <2>1. i \in 1 .. Len(ooseq) /\ i - 1 \in 1 .. Len(ooseq) /\ i - 1 < i
    <3>1. Len(ooseq) \in Nat
      BY <1>1, QueueFacts
    <3> QED BY <3>1
  <2> QED BY <1>1, <2>1 DEF Queue
<1> QED BY <1>2, <1>3, <1>4 DEF OoseqSound, First, End

-----------------------------------------------------------------------------
(* The theorems.                                                           *)

(***************************************************************************)
(* After any sequence of insertions, cuts and replacements every segment   *)
(* on ooseq holds the client's bytes of its numbers, and the segments are  *)
(* ahead of rcv_nxt, apart and in order (tcp_in.c lines 1063-1096 and      *)
(* 1655-1807).                                                             *)
(***************************************************************************)
THEOREM QueueStaysSound == Spec => []OoseqSound
  BY Invariance, InvOoseqSound, PTL

\* AckExact is the invariant's account of the window in other words.
LEMMA InvAckExact == ReceiverInv => AckExact
<1> SUFFICES ASSUME ReceiverInv PROVE AckExact
  OBVIOUS
<1> DEFINE z == Len(read)
           k == Taken
<1>1. /\ k \in 0 .. MaxStream + 1 /\ z \in 0 .. MaxStream + 1 /\ z \in 0 .. z /\ k \in 0 .. k
      /\ rcv_nxt = At(k) /\ rcv_wnd = Left(z) /\ rcv_ann_wnd = Left(k)
  BY SpanFacts DEF ReceiverInv, Taken
<1> HIDE DEF z, k
<1>2. (Window - z) % WndSpan = Left(z) /\ (Window - k) % WndSpan = Left(k)
  BY <1>1, LeftMod
<1> QED BY <1>1, <1>2 DEF AckExact, At, z, k, Taken

(***************************************************************************)
(* rcv_nxt, rcv_wnd and the window announced are exactly what the          *)
(* application has been given makes them, also after a client that overran *)
(* the window made them wrap below zero (tcp_in.c 1546-1614 and 534-541,   *)
(* tcp.c 934-960).                                                         *)
(***************************************************************************)
THEOREM AcknowledgesWhatIsRead == Spec => []AckExact
  BY Invariance, InvAckExact, PTL

\* A segment that waits and ends behind the window's edge does so in numbers.
LEMMA OverTheEdge ==
  ASSUME NEW m \in 0 .. MaxStream, NEW s, Piece(s, m), NEW q \in Place, Stop(s) > q,
         RightEdge = At(q)
  PROVE  Gt(Plus(s.seq, TcpLen(s)), RightEdge)
<1> DEFINE i   == First(s)
           len == TcpLen(s)
<1>1. /\ i \in 0 .. m /\ End(s) \in 0 .. m /\ i \in Place /\ s.seq = At(i)
      /\ len = End(s) - i + IF s.fin THEN 1 ELSE 0
  BY PieceFacts
<1>2. len \in Int /\ i + len \in Place /\ i + len = Stop(s)
  BY <1>1, SpanFacts DEF Place, Stop
<1> HIDE DEF i, len
<1>3. Plus(s.seq, len) = At(i + len)
  BY <1>1, <1>2, AtPlus
<1>4. Gt(At(i + len), At(q))
  BY <1>2, Compare
<1> QED BY <1>3, <1>4 DEF len

\* A step takes more than the window has room for only out of a queue that
\* goes over its edge.
LEMMA StepOverruns ==
  ASSUME ReceiverInv, Next, (rcv_nxt' - rcv_nxt) % Span > rcv_wnd
  PROVE  \E i \in DOMAIN ooseq : Gt(Plus(ooseq[i].seq, TcpLen(ooseq[i])), RightEdge)
<1> DEFINE m == n
           r == Len(read)
<1>1. /\ m \in 0 .. MaxStream /\ r \in 0 .. m /\ r \in Nat /\ m \in Nat
      /\ Queue(ooseq, r + 1, m) /\ rcv_wnd = Left(r) /\ rcv_nxt = At(Taken)
      /\ Taken \in 0 .. MaxStream + 1 /\ r \in 0 .. MaxStream + 1
  BY SpanFacts DEF ReceiverInv, Taken
\* Some bytes, or the FIN, are taken.
<1>2. rcv_nxt' # rcv_nxt
  <2> SUFFICES ASSUME rcv_nxt' = rcv_nxt PROVE FALSE
    OBVIOUS
  <2>1. At(Taken) \in 0 .. Span - 1
    BY <1>1, EdgePlace, AtFacts
  <2>2. rcv_nxt' - rcv_nxt = 0 /\ 0 % Span = 0
    BY <1>1, <2>1, SpanFacts
  <2>3. rcv_wnd \in Nat
    BY <1>1, EdgePlace
  <2> QED BY <2>2, <2>3
<1>3. CASE Arrive
  <2>a. PICK i \in 0 .. n :
          \E j \in i .. n : \E fin \in {FALSE, j = n} : Receive(Segment(i, j, fin))
    BY <1>3 DEF Arrive
  <2>b. PICK j \in i .. n : \E fin \in {FALSE, j = n} : Receive(Segment(i, j, fin))
    BY <2>a
  <2>1. PICK fin \in {FALSE, j = n} : Receive(Segment(i, j, fin))
    BY <2>b
  <2> DEFINE s == Segment(i, j, fin)
  <2>2. Piece(s, m)
    <3>1. i \in 0 .. m /\ j \in i .. m /\ fin \in BOOLEAN /\ (fin => j = m)
      BY <1>1, <2>1
    <3> QED BY <1>1, <3>1, SegmentFacts
  <2> HIDE DEF s
  <2>3. Receive(s)
    BY <2>1 DEF s
  <2>4. ~eof /\ \E e \in r .. m : ReadTo(e, m)
    BY <1>2, <2>2, <2>3, ReceiveStep
  <2>5. PICK e \in r .. m : ReadTo(e, m)
    BY <2>4
  <2> DEFINE k == e + IF eof' THEN 1 ELSE 0
             q == Edge(r)
  <2>6. rcv_nxt' = At(k) /\ (QueueFits => k <= q)
    BY <2>5 DEF ReadTo
  <2>7. k \in Place /\ r \in Place /\ r <= k /\ k \in Int
    <3>1. eof' \in BOOLEAN
      BY <2>5 DEF ReadTo
    <3> QED BY <1>1, <2>5, <3>1, SpanFacts DEF Place
  <2>8. q \in Place /\ q \in Int
    BY <1>1, EdgePlace
  <2>9. rcv_nxt = At(r) /\ RightEdge = At(q)
    <3>1. Taken = r
      BY <1>1, <2>4 DEF Taken
    <3>2. rcv_nxt = At(r) /\ rcv_wnd = Left(r)
      BY <1>1, <3>1
    <3>3. r \in 0 .. MaxStream
      BY <1>1, SpanFacts
    <3>4. RightEdge = At(Edge(r))
      BY <3>2, <3>3, EdgeFacts
    <3> QED BY <3>2, <3>4
  <2>10. rcv_wnd = q - r
    BY <1>1 DEF Left
  <2> HIDE DEF k, q
  <2>11. (rcv_nxt' - rcv_nxt) % Span = k - r
    BY <2>6, <2>7, <2>9, AtMinus
  <2>12. k > q
    BY <1>1, <2>7, <2>8, <2>10, <2>11
  <2>13. ~QueueFits
    BY <2>6, <2>7, <2>8, <2>12
  <2>14. PICK a \in 1 .. Len(ooseq) : ~(Stop(ooseq[a]) <= q)
    BY <2>13 DEF QueueFits, Within, q
  <2>15. Piece(ooseq[a], m)
    BY <1>1, <2>14 DEF Queue
  <2>16. Stop(ooseq[a]) > q
    <3>1. End(ooseq[a]) \in 0 .. m
      BY <1>1, <2>15, PieceFacts
    <3>2. Stop(ooseq[a]) \in Int
      BY <1>1, <3>1 DEF Stop
    <3> QED BY <2>8, <2>14, <3>2
  <2>17. Gt(Plus(ooseq[a].seq, TcpLen(ooseq[a])), RightEdge)
    BY <1>1, <2>8, <2>9, <2>15, <2>16, OverTheEdge
  <2>18. a \in DOMAIN ooseq
    BY <1>1, <2>14 DEF Queue
  <2> QED BY <2>17, <2>18
<1>4. CASE FreeOoseq \/ Acknowledge
  BY <1>2, <1>4 DEF FreeOoseq, Acknowledge
<1> QED BY <1>3, <1>4 DEF Next

(***************************************************************************)
(* What is taken has room in the window, unless a segment that waits goes  *)
(* beyond the right edge (tcp_in.c 1549, 1585 and 1656).                   *)
(***************************************************************************)
THEOREM OverrunsAreQueued == Spec => OnlyQueuedOverruns
<1> DEFINE A == (rcv_nxt' - rcv_nxt) % Span > rcv_wnd =>
                  \E i \in DOMAIN ooseq : Gt(Plus(ooseq[i].seq, TcpLen(ooseq[i])), RightEdge)
<1>1. ReceiverInv /\ [Next]_vars => [A]_vars
  BY StepOverruns
<1>2. OnlyQueuedOverruns <=> [][A]_vars
  BY DEF OnlyQueuedOverruns
<1> HIDE DEF A
<1> QED BY <1>1, <1>2, Invariance, PTL DEF Spec

\* The initial states are those of ByteStream.
LEMMA StreamStarts == Init => Stream!Init
  BY DEF Init, Stream!Init

(***************************************************************************)
(* The receiver implements ByteStream: http_recv is given the client's     *)
(* bytes, each once and in order, and the end after the last of them.      *)
(***************************************************************************)
THEOREM ReceiveImplementsStream == Spec => ImplementsStream
<1>1. ReceiverInv /\ [Next]_vars => [Stream!Deliver]_(Stream!vars)
  BY NextStep
<1> QED BY <1>1, Invariance, StreamStarts, PTL DEF Spec, ImplementsStream, Stream!Spec

=============================================================================
