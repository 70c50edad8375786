------------------------------ MODULE TcpReceive ------------------------------
(***************************************************************************)
(* How lwIP puts a client's stream together (tcp_receive of                *)
(* Middlewares/lwip/src/core/tcp_in.c and the part of tcp_input that hands *)
(* the data over), for a connection that http_recv leaves open: it takes   *)
(* the data and never calls tcp_recved, so the window only shrinks.        *)
(*                                                                         *)
(* The network is in the inputs: any segment of the stream, cut anywhere,  *)
(* may arrive at any time and any number of times, so losses, duplicates,  *)
(* reordering and retransmission in other pieces need no state.  The       *)
(* client may overrun the window, as the code expects it to (lines         *)
(* 1471-1491 and 1786-1801).                                               *)
(***************************************************************************)
EXTENDS Integers, Sequences, SequencesExt

CONSTANTS
  Window,     \* TCP_WND
  Watermark,  \* LWIP_MIN(TCP_WND / 2, mss)
  MaxStream,  \* bound: the longest stream
  Span,       \* values of u32_t
  WndSpan,    \* values of tcpwnd_size_t
  Isn,        \* the first byte's sequence number
  SegPool     \* MEMP_NUM_TCP_SEG

ASSUME TcpReceiveConstantsOK ==
  /\ Window \in Nat \ {0}
  /\ Watermark \in 1 .. Window
  /\ WndSpan \in Nat /\ Window < WndSpan
  /\ MaxStream \in Nat /\ MaxStream + 1 < WndSpan
  /\ Span \in Nat /\ Span % 2 = 0 /\ 2 * Window + WndSpan < Span \div 2
  /\ Isn \in 0 .. Span - 1
  /\ SegPool \in Nat \ {0}

VARIABLES
  n,          \* the length of the client's stream, a FIN behind it
  (* the PCB *)
  rcv_nxt,
  rcv_wnd,
  rcv_ann_wnd,          \* the window in every segment sent
  rcv_ann_right_edge,   \* its edge, in the last segment sent
  ooseq,      \* segments beyond rcv_nxt: seq, data, fin
  (* the application *)
  read,       \* the bytes given to http_recv
  eof         \* http_recv has been called with NULL: CLOSE_WAIT

announced == <<rcv_ann_wnd, rcv_ann_right_edge>>
vars == <<n, rcv_nxt, rcv_wnd, announced, ooseq, read, eof>>

-----------------------------------------------------------------------------
(* Sequence numbers and segments.                                          *)

\* A slip of Lt: no wrap.
LtFlat(a, b) == a < b

Lt(a, b)  == (a - b) % Span >= Span \div 2
Gt(a, b)  == Lt(b, a)
Leq(a, b) == ~Lt(b, a)
Geq(a, b) == Leq(b, a)
Between(a, b, c) == Geq(a, b) /\ Leq(a, c)

Plus(a, k) == (a + k) % Span
TcpLen(s)  == Len(s.data) + IF s.fin THEN 1 ELSE 0
DataEnd(s) == Plus(s.seq, Len(s.data))
RightEdge  == Plus(rcv_nxt, rcv_wnd)

\* A slip of From: the number is put right, the data stays.
FromUncut(s, q) == [s EXCEPT !.seq = q]

\* The segment up to q (pbuf_realloc), and from q on.
UpTo(s, q) == [s EXCEPT !.data = SubSeq(@, 1, (q - s.seq) % Span)]
From(s, q) ==
  [s EXCEPT !.seq = q, !.data = SubSeq(@, ((q - s.seq) % Span) + 1, Len(@))]

UpToWithoutFin(s, q) == [UpTo(s, q) EXCEPT !.fin = FALSE]

\* The SYN|ACK has announced the window.
Init ==
  /\ n \in 0 .. MaxStream
  /\ rcv_nxt = Isn
  /\ rcv_wnd = Window
  /\ rcv_ann_wnd = Window
  /\ rcv_ann_right_edge = Plus(Isn, Window)
  /\ ooseq = <<>>
  /\ read = <<>>
  /\ eof = FALSE

-----------------------------------------------------------------------------
(* The queue of segments beyond rcv_nxt.                                   *)

\* The entries at the head of l that s covers to their last byte.
Covered(s, l) ==
  CHOOSE k \in 0 .. Len(l) :
    /\ \A i \in 1 .. k : Geq(DataEnd(s), DataEnd(l[i]))
    /\ k < Len(l) => ~Geq(DataEnd(s), DataEnd(l[k + 1]))

\* A slip of Before: what both have is kept twice.
BeforeOverlapping(s, l) ==
  IF s.fin THEN <<s>>
  ELSE LET k    == Covered(s, l)
           rest == SubSeq(l, k + 1, Len(l))
       IN <<[s EXCEPT !.fin = \E i \in 1 .. k : l[i].fin]>> \o rest

\* s in front of the entries l that start behind it
\* (tcp_oos_insert_segment, and the same steps of tcp_receive): entries it
\* covers go, their FIN stays; nothing comes behind a FIN.
Before(s, l) ==
  IF s.fin THEN <<s>>
  ELSE LET k    == Covered(s, l)
           rest == SubSeq(l, k + 1, Len(l))
           s1   == [s EXCEPT !.fin = \E i \in 1 .. k : l[i].fin]
       IN <<IF rest # <<>> /\ Gt(DataEnd(s), Head(rest).seq)
            THEN UpTo(s1, Head(rest).seq) ELSE s1>> \o rest

\* s behind the last entry of l; nothing follows a FIN, and s ends at the
\* window's edge.
Behind(s, l) ==
  LET last == l[Len(l)]
      s1   == IF Gt(Plus(s.seq, TcpLen(s)), RightEdge)
              THEN UpToWithoutFin(s, RightEdge) ELSE s
  IN IF last.fin THEN l
     ELSE SubSeq(l, 1, Len(l) - 1)
          \o <<IF Gt(DataEnd(last), s.seq) THEN UpTo(last, s.seq) ELSE last, s1>>

\* The place of s among the entries; one that starts where s does keeps its
\* place if it is as long, or if it is the last.
Queued(s, l) ==
  LET i == CHOOSE i \in 1 .. Len(l) + 1 :
             /\ i <= Len(l) => Leq(s.seq, l[i].seq)
             /\ \A j \in 1 .. i - 1 : Gt(s.seq, l[j].seq)
      ahead == IF i > 1 /\ Gt(DataEnd(l[i - 1]), s.seq)
               THEN Append(SubSeq(l, 1, i - 2), UpTo(l[i - 1], s.seq))
               ELSE SubSeq(l, 1, i - 1)
  IN CASE l = <<>>    -> <<s>>
       [] l # <<>> /\ i > Len(l) -> Behind(s, l)
       [] i <= Len(l) /\ l[i].seq = s.seq ->
            IF Len(s.data) > Len(l[i].data) /\ i < Len(l)
            THEN SubSeq(l, 1, i - 1) \o Before(s, SubSeq(l, i, Len(l)))
            ELSE l
       [] OTHER ->
            ahead \o Before(s, SubSeq(l, i, Len(l)))

\* A copy of s is needed (tcp_seg_copy), made before anything is freed.
OutOfOrder(s) ==
  /\ ooseq' \in {ooseq} \cup IF Len(ooseq) < SegPool THEN {Queued(s, ooseq)} ELSE {}
  /\ UNCHANGED <<rcv_nxt, rcv_wnd, rcv_ann_wnd, read, eof>>

-----------------------------------------------------------------------------
(* Data in order.                                                          *)

\* The longest run of l without a gap from q on.
Run(l, q) ==
  CHOOSE k \in 0 .. Len(l) :
    LET Start(i) == IF i = 1 THEN q ELSE Plus(l[i - 1].seq, TcpLen(l[i - 1]))
    IN /\ \A i \in 1 .. k : l[i].seq = Start(i)
       /\ k < Len(l) => l[k + 1].seq # Start(k + 1)

BytesOf(l) == FlattenSeq([i \in DOMAIN l |-> l[i].data])

\* A slip of Cut: the FIN stays.
CutKeepsFin(s) == IF TcpLen(s) > rcv_wnd THEN UpTo(s, RightEdge) ELSE s

\* What fits the window of a segment that is next.
Cut(s) == IF TcpLen(s) > rcv_wnd THEN UpToWithoutFin(s, RightEdge) ELSE s

\* tcp_update_rcv_ann_wnd, when nxt and wnd are the new values.
AnnWnd(nxt, wnd) ==
  IF Geq(Plus(nxt, wnd), Plus(rcv_ann_right_edge, Watermark)) THEN wnd
  ELSE IF Gt(nxt, rcv_ann_right_edge) THEN 0
  ELSE ((rcv_ann_right_edge - nxt) % Span) % WndSpan

\* A slip of InOrder: the FIN's place in the window is not given back.
InOrderFinKept(s) ==
  \E l \in {Before(Cut(s), ooseq)} : \E k \in {Run(l, rcv_nxt)} :
  \E bytes \in {BytesOf(SubSeq(l, 1, k))} :
    LET len  == Len(bytes) + IF l[k].fin THEN 1 ELSE 0
        left == (rcv_wnd - len) % WndSpan
    IN /\ rcv_nxt' = Plus(rcv_nxt, len)
       /\ rcv_wnd' = left
       /\ rcv_ann_wnd' = AnnWnd(rcv_nxt', left)
       /\ ooseq' = SubSeq(l, k + 1, Len(l))
       /\ read' = read \o bytes
       /\ eof' = l[k].fin

\* The segment, cut to the window, and the entries that follow it without a
\* gap go to http_recv; tcp_input gives rcv_wnd, but not the window that is
\* announced, the FIN's place back.
InOrder(s) ==
  \E l \in {Before(Cut(s), ooseq)} : \E k \in {Run(l, rcv_nxt)} :
  \E bytes \in {BytesOf(SubSeq(l, 1, k))} :
    LET len  == Len(bytes) + IF l[k].fin THEN 1 ELSE 0
        left == (rcv_wnd - len) % WndSpan
    IN /\ rcv_nxt' = Plus(rcv_nxt, len)
       /\ rcv_wnd' = IF l[k].fin /\ left # Window THEN (left + 1) % WndSpan ELSE left
       /\ rcv_ann_wnd' = AnnWnd(rcv_nxt', left)
       /\ ooseq' = SubSeq(l, k + 1, Len(l))
       /\ read' = read \o bytes
       /\ eof' = l[k].fin

\* Every segment sent announces the window.
Announcement == rcv_ann_right_edge' = Plus(rcv_nxt', rcv_ann_wnd')

\* tcp_receive: what is old of the segment goes, and outside the window it
\* goes altogether.  The acknowledgement goes out at the end of tcp_input, or
\* is delayed, or has no memory.
Receive(s) ==
  /\ ~eof
  /\ TcpLen(s) > 0
  /\ LET new == IF Between(rcv_nxt, Plus(s.seq, 1), Plus(s.seq, TcpLen(s) - 1))
                THEN From(s, rcv_nxt) ELSE s
     IN IF Between(new.seq, rcv_nxt, Plus(RightEdge, -1))
        THEN IF new.seq = rcv_nxt THEN InOrder(new) ELSE OutOfOrder(new)
        ELSE UNCHANGED <<rcv_nxt, rcv_wnd, rcv_ann_wnd, ooseq, read, eof>>
  /\ Announcement \/ UNCHANGED rcv_ann_right_edge
  /\ UNCHANGED n

\* A delayed acknowledgement, or a segment of the response.
Acknowledge ==
  /\ UNCHANGED <<n, rcv_nxt, rcv_wnd, rcv_ann_wnd, ooseq, read, eof>>
  /\ Announcement

\* tcp_slowtmr after six timeouts, and pbuf_free_ooseq when the pool of
\* packet buffers is empty.
FreeOoseq ==
  /\ ooseq # <<>>
  /\ ooseq' = <<>>
  /\ UNCHANGED <<n, rcv_nxt, rcv_wnd, announced, read, eof>>

-----------------------------------------------------------------------------
(* The client.                                                             *)

\* The segment with the bytes i+1 .. j, and the FIN if fin.
Segment(i, j, fin) ==
  [seq  |-> Plus(Isn, i),
   data |-> [k \in 1 .. j - i |-> i + k],
   fin  |-> fin]

Arrive ==
  \E i \in 0 .. n : \E j \in i .. n : \E fin \in {FALSE, j = n} :
    Receive(Segment(i, j, fin))

\* The byte, or the FIN, that the client has no acknowledgement of.
Retransmit ==
  LET i == Len(read)
  IN Receive(Segment(i, IF i < n THEN i + 1 ELSE i, i = n))

Next == Arrive \/ Acknowledge \/ FreeOoseq

\* The client retransmits, and not every packet is lost.
Fairness == WF_vars(Retransmit)

Spec     == Init /\ [][Next]_vars
FairSpec == Spec /\ Fairness
-----------------------------------------------------------------------------
(* Correctness.                                                            *)

Segments == [seq : 0 .. Span - 1, data : Seq(1 .. n), fin : BOOLEAN]

\* Every variable keeps its type, and the queue stays within its pool.
TypeOK ==
  /\ n \in 0 .. MaxStream
  /\ rcv_nxt \in 0 .. Span - 1 /\ rcv_ann_right_edge \in 0 .. Span - 1
  /\ rcv_wnd \in 0 .. WndSpan - 1 /\ rcv_ann_wnd \in 0 .. WndSpan - 1
  /\ ooseq \in Seq(Segments) /\ Len(ooseq) <= SegPool
  /\ read \in Seq(1 .. n)
  /\ eof \in BOOLEAN

(***************************************************************************)
(* The queue after any sequence of insertions, cuts and replacements       *)
(* (tcp_in.c lines 1063-1096 and 1655-1807): every entry holds the         *)
(* client's bytes of its numbers, the entries are ahead of rcv_nxt, do not *)
(* overlap and come in order, and a FIN is in the last and at the end of   *)
(* the stream.                                                             *)
(***************************************************************************)
OoseqSound ==
  LET Start(i) == (ooseq[i].seq - Isn) % Span
      End(i)   == Start(i) + Len(ooseq[i].data)
  IN /\ TypeOK
     /\ \A i \in 1 .. Len(ooseq) :
          /\ Start(i) > Len(read)
          /\ ooseq[i] = Segment(Start(i), End(i), ooseq[i].fin)
          /\ ooseq[i].fin => i = Len(ooseq) /\ End(i) = n
     /\ \A i \in 2 .. Len(ooseq) : End(i - 1) <= Start(i)

(***************************************************************************)
(* What the firmware acknowledges is exactly what the application has been *)
(* given, however the segments were cut and across the wrap of the         *)
(* sequence numbers; rcv_wnd is what the application could still take, and *)
(* every segment sent announces that less the FIN (tcp_in.c 1546-1614 and  *)
(* 534-541, tcp.c 934-960).  Both are tcpwnd_size_t: while the client      *)
(* keeps to the window they are the plain differences, and once data or a  *)
(* FIN from behind the right edge has been taken out of the queue (line    *)
(* 1656 queues it uncut) they are these differences wrapped, a window of   *)
(* nearly 65536, which is announced.  A FIN's wrap is put right in rcv_wnd *)
(* by tcp_input, not in rcv_ann_wnd.                                       *)
(***************************************************************************)
AckExact ==
  LET taken == Len(read) + IF eof THEN 1 ELSE 0 IN
  /\ rcv_nxt = Plus(Isn, taken)
  /\ rcv_wnd = (Window - Len(read)) % WndSpan
  /\ rcv_ann_wnd = (Window - taken) % WndSpan

(***************************************************************************)
(* lwIP asserts that the window has room for what is taken (tcp_in.c 1549  *)
(* and 1585).  It has, unless a segment that waits goes beyond the right   *)
(* edge, as the first one of an empty queue may, which is not cut (1656):  *)
(* what is next is cut, FIN and all (1465-1494), and what is joined with   *)
(* it takes no more than it has.  The assertions are empty in this build   *)
(* (arch/cc.h 35).                                                         *)
(***************************************************************************)
OnlyQueuedOverruns ==
  [][(rcv_nxt' - rcv_nxt) % Span > rcv_wnd =>
       \E i \in DOMAIN ooseq : Gt(Plus(ooseq[i].seq, TcpLen(ooseq[i])), RightEdge)]_vars

Stream == INSTANCE ByteStream WITH MaxLength <- MaxStream

(***************************************************************************)
(* The receiver implements ByteStream: http_recv is given the client's     *)
(* bytes, each once and in order, and the end after the last of them,      *)
(* whatever the network does.                                              *)
(***************************************************************************)
ImplementsStream == Stream!Spec

(***************************************************************************)
(* A stream that leaves room in the window for its FIN is read to its end, *)
(* also when the queue is thrown away or no copy can be made again and     *)
(* again.                                                                  *)
(***************************************************************************)
AllDelivered == n < Window => <>eof
=============================================================================
