------------------------------ MODULE HttpConn ------------------------------
(***************************************************************************)
(* The life of the HTTP server's connections: http_server.c on lwIP's raw  *)
(* API (tcp.c, tcp_in.c, tcp_out.c), with the pools lwipopts.h gives it.   *)
(* How a stream is put together is TcpReceive's subject; here a segment    *)
(* that has its turn carries nothing, a GET request or other data, and     *)
(* perhaps the FIN.  tcp_input calls http_recv while it works on the       *)
(* control block, so its steps are separate (phase); the timers wait for   *)
(* it.                                                                     *)
(*                                                                         *)
(* Abstracted: sequence numbers and acknowledgements other than of the SYN *)
(* and the FIN, ages (a limit of tcp_slowtmr may be over at any moment),   *)
(* the heap (an allocation may fail for want of it at any moment).         *)
(***************************************************************************)
EXTENDS Naturals, Sequences, FiniteSets, FiniteSetsExt

CONSTANTS
  Clients,     \* remote addresses and ports
  NoClient,
  MaxPcbs,     \* MEMP_NUM_TCP_PCB
  SegPool,     \* MEMP_NUM_TCP_SEG
  Wnd,         \* TCP_WND, in pieces of data
  MaxRtx       \* TCP_MAXRTX

ASSUME HttpConnConstantsOK ==
  /\ NoClient \notin Clients
  /\ MaxPcbs \in Nat \ {0} /\ SegPool \in Nat \ {0}
  /\ Wnd \in Nat /\ Wnd > 1
  /\ MaxRtx \in Nat \ {0}

VARIABLES
  tcp,     \* pcb: the control blocks; active: tcp_active_pcbs;
           \* used: blocks taken from MEMP_TCP_PCB; segs: entries taken
           \* from MEMP_TCP_SEG; accepts_pending: of the listening block
  input    \* tcp_input: its block, phase, what it still has to hand over,
           \* and TF_CLOSED of recv_flags

vars == <<tcp, input>>

Blank == [state |-> "CLOSED", unsent |-> <<>>, unacked |-> <<>>, nrtx |-> 0,
          rcv_wnd |-> Wnd, closepend |-> FALSE, backlogpend |-> FALSE]
NoInput == [pcb |-> NoClient, phase |-> "idle", data |-> "none", fin |-> FALSE,
            closed |-> FALSE]

Init ==
  /\ tcp = [pcb |-> [c \in Clients |-> Blank], active |-> {}, used |-> {},
            segs |-> 0, accepts_pending |-> 0]
  /\ input = NoInput

-----------------------------------------------------------------------------
(* Queues and memory, on the record t.                                     *)

Waiting(t, c) == Len(t.pcb[c].unsent) + Len(t.pcb[c].unacked)
CanQueue(t, mem) == mem /\ t.segs < SegPool

\* tcp_enqueue_flags, tcp_write.
Enqueue(t, c, kind) ==
  [t EXCEPT !.segs = @ + 1, !.pcb[c].unsent = Append(@, kind)]

\* tcp_output: nothing for the block that tcp_input works on; otherwise
\* everything, if the packets can be built (ok).
Output(t, c, ok) ==
  IF ~ok \/ (input.pcb = c /\ input.phase # "done") THEN t
  ELSE [t EXCEPT !.pcb[c].unacked = @ \o t.pcb[c].unsent, !.pcb[c].unsent = <<>>]

BacklogAccepted(t, c) ==
  IF t.pcb[c].backlogpend
  THEN [t EXCEPT !.accepts_pending = @ - 1, !.pcb[c].backlogpend = FALSE]
  ELSE t

\* A slip of Purge: what was sent already is not freed.
PurgeUnsent(t, c) ==
  [BacklogAccepted(t, c) EXCEPT
     !.segs = @ - Len(t.pcb[c].unsent),
     !.pcb[c].unsent = <<>>, !.pcb[c].unacked = <<>>]

\* tcp_pcb_purge, and the same in tcp_abandon.
Purge(t, c) ==
  [BacklogAccepted(t, c) EXCEPT
     !.segs = @ - Waiting(t, c),
     !.pcb[c].unsent = <<>>, !.pcb[c].unacked = <<>>]

\* TCP_RMV_ACTIVE and tcp_pcb_purge; with tcp_free.
Unlink(t, c) == [Purge(t, c) EXCEPT !.active = @ \ {c}]
Remove(t, c) == [Unlink(t, c) EXCEPT !.used = @ \ {c}, !.pcb[c] = Blank]

-----------------------------------------------------------------------------
(* Closing.                                                                *)

\* A slip of CloseLater: a FIN that could not be queued is forgotten.
CloseNever(t, c) == t

\* TF_CLOSEPEND.
CloseLater(t, c) == [t EXCEPT !.pcb[c].closepend = TRUE]

\* tcp_close_shutdown_fin.  Nothing with data is unsent at this point, so the
\* FIN always takes a segment of its own (tcp_send_fin).
CloseFin(t, c, mem, ok) ==
  LET t1 == [t EXCEPT !.pcb[c].closepend = FALSE]
  IN IF ~CanQueue(t, mem) THEN CloseLater(t1, c)
     ELSE Output([Enqueue(t1, c, "FIN") EXCEPT
                    !.pcb[c].state =
                      IF @ = "CLOSE_WAIT" THEN "LAST_ACK" ELSE "FIN_WAIT_1"], c, ok)

\* Data that the server has not taken with tcp_recved.
Unread(t, c) == t.pcb[c].rcv_wnd # Wnd

\* A slip of Reset: the block goes although tcp_input works on it.
ResetFreeing(t, c) == Remove(t, c)

\* Unread data makes it a RST, and tcp_input frees the block.
Reset(t, c) == Unlink(t, c)

\* tcp_close, called by http_recv.
Close(t, c, mem, ok) == IF Unread(t, c) THEN Reset(t, c) ELSE CloseFin(t, c, mem, ok)

\* tcp_handle_closepend, and the same loop in tcp_fasttmr; got: the blocks
\* for which there is memory.
HandleClosepend(t, got, ok) ==
  FoldSet(LAMBDA c, u : CloseFin(u, c, c \in got, ok), t,
          {c \in t.active : t.pcb[c].closepend})

-----------------------------------------------------------------------------
(* A new connection.                                                       *)

PcbFree(t) == Cardinality(t.used) < MaxPcbs

\* A slip of Victims: a connection that is in use may have to go as well.
VictimsAny(t) == {c \in t.active : t.pcb[c].state \in {"LAST_ACK", "ESTABLISHED"}}

\* tcp_kill_state; nothing is in CLOSING or TIME_WAIT, and tcp_kill_prio
\* finds no block of lower priority.
Victims(t) == {c \in t.active : t.pcb[c].state = "LAST_ACK"}

\* tcp_alloc, as the set of what it can leave behind.
Alloc(t, got, ok) ==
  IF PcbFree(t) THEN {t}
  ELSE LET u == HandleClosepend(t, got, ok)
       IN IF Victims(u) = {} THEN {u} ELSE {Remove(u, v) : v \in Victims(u)}

SynRcvd(t, c) ==
  [t EXCEPT !.used = @ \cup {c}, !.active = @ \cup {c},
            !.accepts_pending = @ + 1,
            !.pcb[c] = [Blank EXCEPT !.state = "SYN_RCVD", !.backlogpend = TRUE]]

\* tcp_listen_input: without a block http_accept is told ERR_MEM, and the
\* SYN is dropped; without a segment the block is abandoned.  The backlog
\* of 255 is never reached.
Syn(c) ==
  /\ input = NoInput
  /\ c \notin tcp.active
  /\ \E got \in SUBSET tcp.active : \E ok, mem \in BOOLEAN :
       \E t \in Alloc(tcp, got, ok) :
         tcp' = IF ~PcbFree(t) THEN t
                ELSE LET u == SynRcvd(t, c)
                     IN IF CanQueue(u, mem)
                        THEN Output(Enqueue(u, c, "SYNACK"), c, ok)
                        ELSE Remove(u, c)
  /\ UNCHANGED input

-----------------------------------------------------------------------------
(* tcp_input for a connection: tcp_process.                                *)

Idle(c) == input = NoInput /\ c \in tcp.active

Rst(c) ==
  /\ Idle(c)
  /\ input' = [NoInput EXCEPT !.pcb = c, !.phase = "done", !.closed = TRUE]
  /\ UNCHANGED tcp

\* The SYN once more: tcp_rexmit.
SynAgain(c) ==
  /\ Idle(c)
  /\ tcp.pcb[c].state = "SYN_RCVD" /\ tcp.pcb[c].unacked # <<>>
  /\ tcp' = [tcp EXCEPT !.pcb[c].unsent = tcp.pcb[c].unacked \o @,
                        !.pcb[c].unacked = <<>>,
                        !.pcb[c].nrtx = IF @ < MaxRtx THEN @ + 1 ELSE @]
  /\ input' = [NoInput EXCEPT !.pcb = c, !.phase = "done"]

\* tcp_receive, once the connection is established: what fits the window.
Received(t, c, data, fin) ==
  LET room == t.pcb[c].rcv_wnd
      d    == IF room > 0 THEN data ELSE "none"
      left == IF d = "none" THEN room ELSE room - 1
      f    == fin /\ left > 0 /\ (data # "none" => d # "none")
  IN /\ tcp' = [t EXCEPT !.pcb[c].rcv_wnd = IF f THEN left - 1 ELSE left,
                         !.pcb[c].state = IF f THEN "CLOSE_WAIT" ELSE "ESTABLISHED"]
     /\ input' = [NoInput EXCEPT !.pcb = c, !.phase = "recv", !.data = d, !.fin = f]

\* The handshake's last segment, and what it carries: http_accept.  It can
\* only acknowledge a SYN that has been sent.
HandshakeAck(c, data, fin) ==
  /\ Idle(c)
  /\ tcp.pcb[c].state = "SYN_RCVD"
  /\ tcp.pcb[c].unacked # <<>> \/ tcp.pcb[c].nrtx > 0
  /\ Received([BacklogAccepted(tcp, c) EXCEPT
                 !.segs = @ - Waiting(tcp, c),
                 !.pcb[c].unsent = <<>>, !.pcb[c].unacked = <<>>,
                 !.pcb[c].nrtx = 0], c, data, fin)

Segment(c, data, fin) ==
  /\ Idle(c)
  /\ tcp.pcb[c].state = "ESTABLISHED"
  /\ data # "none" \/ fin
  /\ Received(tcp, c, data, fin)

\* The FIN, the only segment there is, is acknowledged.  It has been sent,
\* though it is unsent again when a repetition could not be built.
LastAck(c) ==
  /\ Idle(c)
  /\ tcp.pcb[c].state = "LAST_ACK"
  /\ tcp.pcb[c].unacked # <<>> \/ tcp.pcb[c].nrtx > 0
  /\ tcp' = [tcp EXCEPT !.segs = @ - Waiting(tcp, c),
                        !.pcb[c].unsent = <<>>, !.pcb[c].unacked = <<>>]
  /\ input' = [NoInput EXCEPT !.pcb = c, !.phase = "done", !.closed = TRUE]

-----------------------------------------------------------------------------
(* tcp_input: the callbacks.                                               *)

\* tcp_trigger_input_pcb_close.
Closing(t) == input.closed \/ input.pcb \notin t.active

\* http_recv with data: a request is answered (tcp_write may fail).
HttpRecv ==
  /\ input.phase = "recv"
  /\ IF input.data = "get"
     THEN \E mem, ok \in BOOLEAN :
            /\ tcp' = IF CanQueue(tcp, mem)
                      THEN Output(Enqueue(tcp, input.pcb, "RESPONSE"), input.pcb, ok)
                      ELSE tcp
            /\ input' = [input EXCEPT !.phase = "written"]
     ELSE /\ input' = [input EXCEPT !.phase = IF input.fin THEN "fin" ELSE "done"]
          /\ UNCHANGED tcp

\* ... and closed.
HttpRecvClose ==
  /\ input.phase = "written"
  /\ \E mem, ok \in BOOLEAN : tcp' = Close(tcp, input.pcb, mem, ok)
  /\ input' = [input EXCEPT !.phase = IF input.fin THEN "fin" ELSE "done",
                            !.closed = Closing(tcp')]

\* http_recv with NULL; the FIN's place in the window is given back first.
HttpRecvEnd ==
  /\ input.phase = "fin"
  /\ \E mem, ok \in BOOLEAN :
       tcp' = Close([tcp EXCEPT !.pcb[input.pcb].rcv_wnd = IF @ # Wnd THEN @ + 1 ELSE @],
                    input.pcb, mem, ok)
  /\ input' = [input EXCEPT !.phase = "done", !.closed = Closing(tcp')]

\* tcp_input_delayed_close, TF_RESET; or tcp_output.
InputDone ==
  /\ input.phase = "done"
  /\ \E ok \in BOOLEAN :
       tcp' = IF input.closed THEN Remove(tcp, input.pcb) ELSE Output(tcp, input.pcb, ok)
  /\ input' = NoInput

-----------------------------------------------------------------------------
(* The timers.                                                             *)

\* delayed: any of the blocks that may have TF_ACK_DELAY set, which needs data
\* or a FIN.
FastTimer(got, delayed) ==
  /\ input = NoInput
  /\ \A c \in delayed : tcp.pcb[c].state # "SYN_RCVD"
  /\ \E ok \in BOOLEAN :
       LET t1 == FoldSet(LAMBDA c, t : Output(t, c, ok), tcp, delayed)
       IN tcp' = HandleClosepend(t1, got, ok)
  /\ UNCHANGED input

\* tcp_slowtmr for the blocks of gone, whose time is over or which have
\* retransmitted often enough, of rexmit, and the others.  A segment that
\* could not be sent again counts as a repetition, too.
Rexmit(t, c) ==
  [t EXCEPT !.pcb[c].unsent = t.pcb[c].unacked \o @, !.pcb[c].unacked = <<>>,
            !.pcb[c].nrtx = IF @ < MaxRtx THEN @ + 1 ELSE @]

SlowTimer(gone, rexmit) ==
  /\ input = NoInput
  /\ {c \in tcp.active : tcp.pcb[c].nrtx >= MaxRtx} \subseteq gone
  /\ \A c \in gone : tcp.pcb[c].nrtx >= MaxRtx \/ tcp.pcb[c].state \in {"SYN_RCVD", "LAST_ACK"}
  /\ \A c \in rexmit : \/ tcp.pcb[c].unacked # <<>>
                        \/ (tcp.pcb[c].unsent # <<>> /\ tcp.pcb[c].nrtx > 0)
  /\ \E ok \in BOOLEAN :
       LET left == tcp.active \ gone
           t1 == FoldSet(LAMBDA c, t : Remove(t, c), tcp, gone)
           t2 == FoldSet(LAMBDA c, t : Rexmit(t, c), t1, left \cap rexmit)
       IN tcp' = FoldSet(LAMBDA c, t : Output(t, c, ok), t2, left)
  /\ UNCHANGED input

TcpInput == HttpRecv \/ HttpRecvClose \/ HttpRecvEnd \/ InputDone

Next ==
  \/ \E c \in Clients : Syn(c) \/ Rst(c) \/ SynAgain(c) \/ LastAck(c)
  \/ \E c \in Clients, data \in {"none", "get", "other"}, fin \in BOOLEAN :
       HandshakeAck(c, data, fin) \/ Segment(c, data, fin)
  \/ TcpInput
  \/ \E got, delayed \in SUBSET tcp.active : FastTimer(got, delayed)
  \/ \E gone, rexmit \in SUBSET tcp.active : SlowTimer(gone, rexmit)

Expire(c) ==
  \E gone, rexmit \in SUBSET tcp.active : c \in gone /\ SlowTimer(gone, rexmit)

\* tcp_fasttmr finds memory for the FIN of c.
RetryClose(c) ==
  /\ c \in tcp.active /\ tcp.pcb[c].closepend
  /\ \E got, delayed \in SUBSET tcp.active : FastTimer(got, delayed)
  /\ tcp'.pcb[c].state = "LAST_ACK"

\* tcp_input returns.  The main loop calls the timers between two packets,
\* so what arrives does not keep them from running: the limits of
\* tcp_slowtmr are over at some time, and memory is not missing every time
\* tcp_fasttmr tries.
Fairness ==
  /\ WF_vars(TcpInput)
  /\ \A c \in Clients : SF_vars(Expire(c)) /\ SF_vars(RetryClose(c))

Spec     == Init /\ [][Next]_vars
FairSpec == Spec /\ Fairness
-----------------------------------------------------------------------------
(* Correctness.                                                            *)

States == {"CLOSED", "SYN_RCVD", "ESTABLISHED", "CLOSE_WAIT", "LAST_ACK"}
Pcbs == [state : States,
         unsent : Seq({"SYNACK", "RESPONSE", "FIN"}),
         unacked : Seq({"SYNACK", "RESPONSE", "FIN"}),
         nrtx : 0 .. MaxRtx, rcv_wnd : 0 .. Wnd,
         closepend : BOOLEAN, backlogpend : BOOLEAN]

\* Every variable keeps its type and the pools suffice for what is taken
\* from them.  The server never closes first with a FIN: FIN_WAIT_1 and the
\* states behind it are not reached.
TypeOK ==
  /\ tcp.pcb \in [Clients -> Pcbs]
  /\ tcp.active \subseteq Clients
  /\ tcp.used \subseteq Clients /\ Cardinality(tcp.used) <= MaxPcbs
  /\ tcp.segs \in 0 .. SegPool
  /\ tcp.accepts_pending \in 0 .. MaxPcbs
  /\ input \in [pcb : Clients \cup {NoClient},
                phase : {"idle", "recv", "written", "fin", "done"},
                data : {"none", "get", "other"}, fin : BOOLEAN, closed : BOOLEAN]

(***************************************************************************)
(* The block tcp_input works on stays allocated until tcp_input is through *)
(* with it, although http_recv closes it in the callback, twice when the   *)
(* request came with the FIN (http_server.c lines 41-64, tcp.c lines       *)
(* 363-371): it is not used after it is freed, nor freed twice.  The       *)
(* second tcp_close "is erroneous, but this should never happen" (tcp.c    *)
(* lines 383-385); that the block is still there makes it harmless.        *)
(***************************************************************************)
InputPcbLive == input.phase # "idle" => input.pcb \in tcp.used

\* Outside tcp_input every allocated block is in tcp_active_pcbs: one that
\* left the list in a callback, a time-out, a RST or for another's sake is
\* freed, not lost, and the list has no freed block.
NoPcbLost == input.phase = "idle" => tcp.used = tcp.active

\* MEMP_TCP_SEG's entries are exactly the segments that wait in queues.
SegsExact == tcp.segs = MapThenSumSet(LAMBDA c : Waiting(tcp, c), tcp.used)

\* accepts_pending counts exactly the connections in the handshake.
BacklogExact ==
  tcp.accepts_pending = Cardinality({c \in tcp.used : tcp.pcb[c].state = "SYN_RCVD"})

(***************************************************************************)
(* The pools are exact: no way a connection can end -- RST, time-out,      *)
(* retransmissions, abandonment for another's sake, http_recv's close in   *)
(* its own callback -- loses a control block or one of the two segments,   *)
(* frees one twice, or uses up the listener's backlog for good             *)
(* (tcp_pcb_purge, tcp_pcb_remove, tcp_input_delayed_close).               *)
(***************************************************************************)
PoolsExact == TypeOK /\ NoPcbLost /\ SegsExact /\ BacklogExact

(***************************************************************************)
(* A connection that is established leaves the list only through its own   *)
(* segments: neither a timer nor another client's SYN ends it (tcp.c lines *)
(* 1838-1891) -- so two idle clients keep every other one out.             *)
(***************************************************************************)
EstablishedKept ==
  [][\A c \in tcp.active :
       (tcp.pcb[c].state = "ESTABLISHED" /\ input.pcb # c) => c \in tcp'.active]_vars

(***************************************************************************)
(* A connection whose handshake does not finish, or whose client has sent  *)
(* its FIN, gives its block back, whether or not the client answers and    *)
(* whether or not there was memory for the FIN at once.                    *)
(***************************************************************************)
EndedReleased ==
  \A c \in Clients :
    /\ tcp.pcb[c].state = "SYN_RCVD" ~> tcp.pcb[c].state # "SYN_RCVD"
    /\ tcp.pcb[c].state \in {"CLOSE_WAIT", "LAST_ACK"} ~> c \notin tcp.used

InQueue(kind, q) == \E i \in 1 .. Len(q) : q[i] = kind

(***************************************************************************)
(* "tcp_output(pcb);  /* Nagle beklemeden tamponu hemen gonder */"         *)
(* (http_server.c line 62): the response that was queued is sent.          *)
(***************************************************************************)
ResponseSent ==
  [][\A c \in Clients :
       InQueue("RESPONSE", tcp.pcb[c].unsent) =>
         InQueue("RESPONSE", tcp'.pcb[c].unsent \o tcp'.pcb[c].unacked)]_vars
=============================================================================
