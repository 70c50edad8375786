-------------------------------- MODULE RxPath --------------------------------
(***************************************************************************)
(* The main loop (Core/Src/main.c) and the buffers of a received packet.   *)
(* A pass takes one packet, copies it to a chain of PBUF_POOL buffers and  *)
(* hands the chain to input(); then sys_check_timeouts runs what is due.   *)
(* input() frees the chain unless the stack keeps it, in one of three      *)
(* places: among the fragments of a datagram, on the ooseq of a            *)
(* connection, or as the answer to a ping that waits for an ARP reply      *)
(* (icmp_input answers in the buffers of the question).                    *)
(*                                                                         *)
(* TcpReceive and Etharp have the rules of ooseq and of the ARP table;     *)
(* here each of them holds and lets go of a number of buffers.             *)
(***************************************************************************)
EXTENDS IpReass, Functions

CONSTANTS
  PoolSize,       \* PBUF_POOL_SIZE
  MaxFrame,       \* buffers of the longest frame
  Pcbs,           \* connections
  Slots,          \* entries of the ARP table
  OoseqMaxAge,    \* TCP_OOSEQ_TIMEOUT
  ArpMaxAge       \* ARP_MAXPENDING

ASSUME RxPathConstantsOK ==
  /\ PoolSize \in Nat \ {0} /\ MaxFrame \in 1 .. PoolSize
  /\ OoseqMaxAge \in Nat \ {0} /\ ArpMaxAge \in Nat \ {0}
  /\ IsFiniteSet(Pcbs) /\ IsFiniteSet(Slots)

VARIABLES
  pc,              \* where the pass is
  avail,           \* free buffers of PBUF_POOL
  chain, err,      \* the loop's p, in buffers, and what input() has returned
  reassdatagrams, ip_reass_pbufcount,
  ooseq,           \* the buffers each connection holds, and for how long
  arpq,            \* the buffers each ARP entry holds, and for how long
  pending,         \* pbuf_free_ooseq_pending
  (* history *)
  up,              \* the datagram the last step has put together
  losses           \* packets lost since the last one that was received

reassVars == <<reassdatagrams, ip_reass_pbufcount>>
call == <<chain, err>>
vars == <<pc, avail, call, reassVars, ooseq, arpq, pending, up, losses>>

Nothing == [n |-> 0, age |-> 0]
HeldIn(q) == MapThenSumSet(LAMBDA x : q[x].n, DOMAIN q)

\* Losses are counted up to the number of connections.
MaxLosses == Cardinality(Pcbs)

Init ==
  /\ pc = "receive" /\ avail = PoolSize
  /\ chain = 0 /\ err = "ERR_OK"
  /\ reassdatagrams = <<>> /\ ip_reass_pbufcount = 0
  /\ ooseq = [c \in Pcbs |-> Nothing] /\ arpq = [a \in Slots |-> Nothing]
  /\ pending = FALSE /\ up = {} /\ losses = 0

-----------------------------------------------------------------------------
(* What input() does with a chain of n buffers.  free is what is free when *)
(* the chain is freed too.                                                 *)

\* The queue of answers becomes q, and avail follows.
Answers(q, free) == arpq' = q /\ avail' = free + HeldIn(arpq) - HeldIn(q)

\* Those in s give back what they hold; an answer, when something else is sent
\* to its neighbour.
Sent(q, s) == [a \in DOMAIN q |-> IF a \in s THEN [q[a] EXCEPT !.n = 0] ELSE q[a]]

\* What is sent from the heap, if anything.
Sending(free) == \E s \in SUBSET Slots : Answers(Sent(arpq, s), free)

\* ARP, TCP in order, a ping from a neighbour with an entry, anything unknown:
\* the chain is freed.  A segment makes its connection young again.
Consumed(free) ==
  /\ Sending(free)
  /\ ooseq' = ooseq \/ \E c \in Pcbs : ooseq' = [ooseq EXCEPT ![c].age = 0]

\* A ping whose answer waits in entry a, new or not.
Ping(a, n, free) ==
  /\ \E s \in SUBSET Slots, age \in {0, arpq[a].age} :
       Answers([Sent(arpq, s) EXCEPT ![a] = [n |-> n, age |-> age]], free)
  /\ UNCHANGED ooseq

OutOfOrder(c, n, free) ==
  /\ ooseq' = [ooseq EXCEPT ![c] = [n |-> @.n + n, age |-> 0]]
  /\ Sending(free - n)

\* The segment that was missing, or the end of the connection.
OoseqTaken(c, k, free) ==
  /\ k <= ooseq[c].n
  /\ ooseq' = [ooseq EXCEPT ![c] = [n |-> @.n - k, age |-> 0]]
  /\ Sending(free + k)

Input(n, free) ==
  \/ Consumed(free)
  \/ \E a \in Slots : Ping(a, n, free)
  \/ \E c \in Pcbs : OutOfOrder(c, n, free)
  \/ \E c \in Pcbs, k \in 1 .. PoolSize : OoseqTaken(c, k, free)

\* A slip of Return: a packet that was thrown away is an error.
ReturnError(n) == chain' = n /\ err' \in {"ERR_OK", "ERR_BUF"}

\* ethernet_input returns ERR_OK on every path: the chain is no longer the loop's.
Return(n) == chain' = n /\ err' = "ERR_OK"

-----------------------------------------------------------------------------
(* Receiving.                                                              *)

Packet(n) ==
  /\ n <= avail
  /\ Input(n, avail) /\ Return(n)
  /\ up' = {}
  /\ UNCHANGED reassVars

\* ip4_reass; a datagram that is whole is a packet like others.
Fragment(id, f, ok) ==
  LET n    == Clen({f})
      r    == Reass(reassdatagrams, ip_reass_pbufcount, id, f, ok)
      free == avail - n + r.st.freed
  IN /\ n <= avail
     /\ reassdatagrams' = r.st.l /\ ip_reass_pbufcount' = r.st.count /\ up' = r.up
     /\ IF r.up = {} THEN Sending(free) /\ UNCHANGED ooseq
        ELSE Input(Clen(r.up), free + Clen(r.up))
     /\ Return(n)

Frame ==
  \/ \E n \in 1 .. MaxFrame : Packet(n)
  \/ \E id \in Ids, f \in Fragments, ok \in BOOLEAN : Fragment(id, f, ok)

Receive ==
  /\ pc = "receive" /\ pc' = "returned"
  /\ Frame
  /\ losses' = 0
  /\ UNCHANGED pending

\* pbuf_alloc finds too few buffers for a packet: it is lost.
PoolEmpty ==
  /\ pc = "receive" /\ pc' = "check"
  /\ avail < MaxFrame
  /\ pending' = TRUE
  /\ losses' = IF losses < MaxLosses THEN losses + 1 ELSE losses
  /\ up' = {}
  /\ UNCHANGED <<avail, call, reassVars, ooseq, arpq>>

NoPacket ==
  /\ pc = "receive" /\ pc' = "check"
  /\ up' = {}
  /\ UNCHANGED <<avail, call, reassVars, ooseq, arpq, pending, losses>>

\* The loop frees what input() has not taken.
Returned ==
  /\ pc = "returned" /\ pc' = "check"
  /\ avail' = IF err = "ERR_OK" THEN avail ELSE avail + chain
  /\ chain' = 0 /\ err' = "ERR_OK"
  /\ up' = {}
  /\ UNCHANGED <<reassVars, ooseq, arpq, pending, losses>>

-----------------------------------------------------------------------------
(* sys_check_timeouts.                                                     *)

\* A slip of FreeOoseq: the flag is forgotten.
FreeOoseqNever ==
  /\ pc = "check" /\ pc' = "timer"
  /\ pending' = FALSE /\ up' = {}
  /\ UNCHANGED <<avail, call, reassVars, ooseq, arpq, losses>>

\* PBUF_CHECK_FREE_OOSEQ: all that one connection holds.
FreeOoseq ==
  /\ pc = "check" /\ pc' = "timer"
  /\ pending' = FALSE
  /\ IF pending /\ HeldIn(ooseq) > 0
     THEN \E c \in Pcbs : /\ ooseq[c].n > 0
                          /\ ooseq' = [ooseq EXCEPT ![c] = Nothing]
                          /\ avail' = avail + ooseq[c].n
     ELSE UNCHANGED <<ooseq, avail>>
  /\ up' = {}
  /\ UNCHANGED <<call, reassVars, arpq, losses>>

IpReassTmr ==
  LET r == ReassTmr(reassdatagrams, ip_reass_pbufcount) IN
  /\ pc = "timer" /\ pc' = "check"
  /\ reassdatagrams' = r.l /\ ip_reass_pbufcount' = r.count
  /\ Sending(avail + r.freed)
  /\ up' = {}
  /\ UNCHANGED <<call, ooseq, pending, losses>>

\* A slip of Ticked: nothing gets old.
TickedNever(q, max) == q

\* One more tick for each holder of q, up to max.
Ticked(q, max) ==
  [x \in DOMAIN q |-> IF q[x].n = 0 \/ q[x].age + 1 >= max THEN Nothing
                      ELSE [q[x] EXCEPT !.age = @ + 1]]

EtharpTmr ==
  /\ pc = "timer" /\ pc' = "check"
  /\ arpq' = Ticked(arpq, ArpMaxAge)
  /\ avail' = avail + HeldIn(arpq) - HeldIn(arpq')
  /\ up' = {}
  /\ UNCHANGED <<call, reassVars, ooseq, pending, losses>>

\* A connection that is given up gives back what it holds, however old.
TcpSlowtmr ==
  /\ pc = "timer" /\ pc' = "check"
  /\ \E s \in SUBSET Pcbs : ooseq' = Ticked(Sent(ooseq, s), OoseqMaxAge)
  /\ Sending(avail + HeldIn(ooseq) - HeldIn(ooseq'))
  /\ up' = {}
  /\ UNCHANGED <<call, reassVars, pending, losses>>

TimersDone ==
  /\ pc = "timer" /\ pc' = "receive"
  /\ up' = {}
  /\ UNCHANGED <<avail, call, reassVars, ooseq, arpq, pending, losses>>

Next ==
  \/ Receive \/ PoolEmpty \/ NoPacket \/ Returned
  \/ FreeOoseq \/ IpReassTmr \/ EtharpTmr \/ TcpSlowtmr \/ TimersDone

Spec == Init /\ [][Next]_vars

\* The loop goes on; a pass runs the timers that are due when it begins, so
\* it ends, and every one of them comes due again (Timeouts).
FairSpec ==
  /\ Spec /\ WF_vars(Receive \/ PoolEmpty \/ NoPacket) /\ WF_vars(Returned)
  /\ WF_vars(FreeOoseq) /\ SF_vars(TimersDone)
  /\ SF_vars(IpReassTmr) /\ SF_vars(EtharpTmr) /\ SF_vars(TcpSlowtmr)
-----------------------------------------------------------------------------
(* Correctness.                                                            *)

Datagrams == [id : Ids, frags : SUBSET Fragments, timer : 0 .. ReassMaxAge]
Holders(max) == [n : 0 .. PoolSize, age : 0 .. max - 1]

\* Every variable keeps its type; no age reaches the end of its time.
TypeOK ==
  /\ pc \in {"receive", "returned", "check", "timer"}
  /\ chain \in 0 .. PoolSize /\ err \in {"ERR_OK", "ERR_BUF"}
  /\ avail \in 0 .. PoolSize
  /\ reassdatagrams \in Seq(Datagrams) /\ ip_reass_pbufcount \in 0 .. PoolSize
  /\ ooseq \in [Pcbs -> Holders(OoseqMaxAge)]
  /\ arpq \in [Slots -> Holders(ArpMaxAge)]
  /\ pending \in BOOLEAN /\ losses \in 0 .. MaxLosses
  /\ up \subseteq Fragments

(***************************************************************************)
(* Every buffer of the pool is free or held in one place: none is lost and *)
(* none is freed twice, by the stack or by the loop (main.c 141-149),      *)
(* whether the packet was consumed, kept, dropped, or was not received for *)
(* want of buffers.  And ip_reass_pbufcount, which is kept apart, is       *)
(* the number of buffers reassembly holds, after fragments that were       *)
(* dropped, datagrams that were completed, evicted or ran out of time      *)
(* (ip4_frag.c 213, 609, 670).                                             *)
(***************************************************************************)
BuffersExact ==
  /\ TypeOK
  /\ avail + ReassHeld(reassdatagrams) + HeldIn(ooseq) + HeldIn(arpq) = PoolSize
  /\ ip_reass_pbufcount = ReassHeld(reassdatagrams)

\* A datagram has one entry, which is not empty, has fragments that do not
\* overlap, and is never complete (ip4_frag.c 382-492 and 619-675).
ReassSound ==
  \A i \in DOMAIN reassdatagrams :
    LET e == reassdatagrams[i] IN
    /\ e.frags # {} /\ ~Whole(e.frags)
    /\ \A f, g \in e.frags : f.start < g.end /\ g.start < f.end => f = g
    /\ \A j \in DOMAIN reassdatagrams : reassdatagrams[j].id = e.id => i = j

(***************************************************************************)
(* What is delivered is the whole datagram: every byte of it is in exactly *)
(* one fragment, however it was cut, in whatever order it came.  What is   *)
(* complete has been delivered in the step that completed it.              *)
(***************************************************************************)
WholeDatagrams ==
  /\ ReassSound
  /\ up # {} => \A b \in 0 .. Size - 1 :
                  Cardinality({f \in up : f.start <= b /\ b < f.end}) = 1

(***************************************************************************)
(* A fragment that needs room takes it from other datagrams, and never     *)
(* from one that has more time left than one it spares (ip4_frag.c         *)
(* 228-269); its own datagram goes only when it is whole.  This is of      *)
(* lwIP's limits, whatever they are: the firmware's are above its pool of  *)
(* four buffers, so there nothing is ever evicted.                         *)
(***************************************************************************)
EvictsOldest ==
  [][\A id \in Ids, f \in Fragments, ok \in BOOLEAN :
       (pc = "receive" /\ Fragment(id, f, ok)) =>
       \A i \in DOMAIN reassdatagrams : LET e == reassdatagrams[i] IN
         IF e.id = id
         THEN up' # {} \/ \E g \in Range(reassdatagrams') : g.id = id /\ e.frags \subseteq g.frags
         ELSE Entry(reassdatagrams', e.id) = {} =>
                \A g \in Range(reassdatagrams) :
                  (g.id # id /\ g.timer < e.timer) => Entry(reassdatagrams', g.id) = {}]_vars

(***************************************************************************)
(* A pool that is empty gets a buffer back, even if the peers do nothing:  *)
(* segments out of order give way at once (PBUF_CHECK_FREE_OOSEQ), the     *)
(* rest when its time is over.                                             *)
(***************************************************************************)
RoomAgain == avail = 0 ~> avail > 0

(***************************************************************************)
(* Every packet that is lost for want of buffers costs a connection what   *)
(* it holds out of order, before the loop asks for the next one: of        *)
(* packets lost in a row there are no more than connections, as long as    *)
(* any still holds something, and fewer with each that does (pbuf.h 263,   *)
(* timeouts.c 366).                                                        *)
(***************************************************************************)
OoseqGivesWay ==
  pc = "receive" =>
    losses + Cardinality({c \in Pcbs : ooseq[c].n > 0}) <= Cardinality(Pcbs)
=============================================================================
