------------------------------ MODULE Timeouts ------------------------------
(***************************************************************************)
(* The timers of lwIP as the firmware runs them                            *)
(* (Middlewares/lwip/src/core/timeouts.c): a list of one-shot timeouts     *)
(* sorted by due time on a clock that wraps, a pool with exactly as many   *)
(* entries as there are timers, cyclic timers that put themselves back,    *)
(* and the TCP timer that runs while there are connections.  The main loop *)
(* calls sys_check_timeouts once per pass; the tick goes on meanwhile.     *)
(***************************************************************************)
EXTENDS Integers, Sequences

CONSTANTS
  Cyclic,      \* lwip_cyclic_timers without the TCP timer, in order
  Tcp,         \* the TCP timer
  Interval,    \* milliseconds between two runs of each (250, 1000, 1000)
  PoolSize,    \* MEMP_NUM_SYS_TIMEOUT
  MaxPcbs,     \* MEMP_NUM_TCP_PCB
  Span,        \* values of u32_t
  MaxLag       \* bound: ticks from one call of sys_check_timeouts to the next

CyclicSet == {Cyclic[i] : i \in 1 .. Len(Cyclic)}
Timers    == CyclicSet \cup {Tcp}
MaxTimeout == Span \div 2 - 1       \* LWIP_MAX_TIMEOUT

ASSUME TimeoutsConstantsOK ==
  /\ Cyclic \in Seq(CyclicSet)
  /\ \A i, j \in 1 .. Len(Cyclic) : Cyclic[i] = Cyclic[j] => i = j
  /\ Tcp \notin CyclicSet
  /\ "none" \notin Timers
  /\ Interval \in [Timers -> Nat \ {0}]
  /\ PoolSize = Len(Cyclic) + 1
  /\ MaxPcbs \in Nat
  /\ MaxLag \in Nat
  /\ Span \in Nat /\ Span % 2 = 0
  /\ \A h \in Timers : Interval[h] + 2 * MaxLag <= MaxTimeout

VARIABLES
  now,        \* sys_now()
  list,       \* next_timeout and its successors: handler h, time
  due,        \* current_timeout_due_time
  active,     \* tcpip_tcp_timer_active
  pcbs,       \* entries of tcp_active_pcbs and tcp_tw_pcbs
  pc,         \* "loop": elsewhere in the main loop; "check", "handler":
              \* between two handlers of sys_check_timeouts, in one
  t0,         \* now of sys_check_timeouts
  handler,    \* the handler that runs, or "none"
  \* history
  lag         \* ticks since sys_check_timeouts last read the clock

vars == <<now, list, due, active, pcbs, pc, t0, handler, lag>>

-----------------------------------------------------------------------------
(* The list.                                                               *)

\* A slip of TimeLessThan: no wrap.
TimeLessThanFlat(t, c) == t < c

TimeLessThan(t, c) == (t - c) % Span > MaxTimeout

\* A slip of Insert: the entries behind the new one are not linked to it.
InsertUnlinked(l, at, e) == SubSeq(l, 1, at - 1) \o <<e>>

Insert(l, at, e) == SubSeq(l, 1, at - 1) \o <<e>> \o SubSeq(l, at, Len(l))

\* Before the first entry that is due later; behind its equals.
PlaceFor(l, time) ==
  CHOOSE i \in 1 .. Len(l) + 1 :
    /\ i <= Len(l) => TimeLessThan(time, l[i].time)
    /\ \A j \in 1 .. i - 1 : ~TimeLessThan(time, l[j].time)

\* An entry of the pool is free again before its handler runs.
PoolEmpty(l) == Len(l) = PoolSize

\* With an empty pool the timeout is not set, and nobody is told.
SysTimeoutAbs(l, time, h) ==
  IF PoolEmpty(l) THEN l ELSE Insert(l, PlaceFor(l, time), [h |-> h, time |-> time])

SysTimeout(l, h) == SysTimeoutAbs(l, (now + Interval[h]) % Span, h)

\* sys_timeouts_init, at tick 0.
InitialList[i \in 0 .. Len(Cyclic)] ==
  IF i = 0 THEN <<>>
  ELSE SysTimeoutAbs(InitialList[i - 1], Interval[Cyclic[i]], Cyclic[i])

Init ==
  /\ now = 0
  /\ list = InitialList[Len(Cyclic)]
  /\ due = 0
  /\ active = FALSE
  /\ pcbs = 0
  /\ pc = "loop"
  /\ t0 = 0
  /\ handler = "none"
  /\ lag = 0

-----------------------------------------------------------------------------
(* Connections come and go elsewhere in the main loop.                     *)

\* TCP_REG, which ends in tcp_timer_needed.
TcpReg ==
  /\ pc = "loop" /\ pcbs < MaxPcbs
  /\ pcbs' = pcbs + 1
  /\ list' = IF active THEN list ELSE SysTimeout(list, Tcp)
  /\ active' = TRUE
  /\ UNCHANGED <<now, due, pc, t0, handler, lag>>

TcpRmv ==
  /\ pc = "loop" /\ pcbs > 0
  /\ pcbs' = pcbs - 1
  /\ UNCHANGED <<now, list, due, active, pc, t0, handler, lag>>

-----------------------------------------------------------------------------
(* sys_check_timeouts and the handlers.                                    *)

CheckTimeouts ==
  /\ pc = "loop"
  /\ t0' = now
  /\ pc' = "check"
  /\ lag' = 0
  /\ UNCHANGED <<now, list, due, active, pcbs, handler>>

Expired == list # <<>> /\ ~TimeLessThan(t0, Head(list).time)

Expire ==
  /\ pc = "check"
  /\ Expired
  /\ list' = Tail(list)
  /\ due' = Head(list).time
  /\ handler' = Head(list).h
  /\ pc' = "handler"
  /\ UNCHANGED <<now, active, pcbs, t0, lag>>

NoneExpired ==
  /\ pc = "check"
  /\ ~Expired
  /\ pc' = "loop"
  /\ UNCHANGED <<now, list, due, active, pcbs, t0, handler, lag>>

\* A slip of NextDue: a timer that is late catches up all it has missed.
NextDueCatchUp(h) == (due + Interval[h]) % Span

\* One interval after the last due time, unless that is past already.
NextDue(h) ==
  LET next == (due + Interval[h]) % Span
  IN IF TimeLessThan(next, now) THEN (now + Interval[h]) % Span ELSE next

\* lwip_cyclic_timer, once its handler has returned.
CyclicTimer ==
  /\ pc = "handler" /\ handler # Tcp
  /\ list' = SysTimeoutAbs(list, NextDue(handler), handler)
  /\ handler' = "none"
  /\ pc' = "check"
  /\ UNCHANGED <<now, due, active, pcbs, t0, lag>>

\* A slip of TcpipTcpTimer: the flag is not reset.
TcpipTcpTimerStays ==
  /\ pc = "handler" /\ handler = Tcp
  /\ pcbs' \in 0 .. pcbs
  /\ list' = IF pcbs' > 0 THEN SysTimeout(list, Tcp) ELSE list
  /\ handler' = "none"
  /\ pc' = "check"
  /\ UNCHANGED <<now, due, active, t0, lag>>

\* tcpip_tcp_timer: tcp_tmr may have ended connections.
TcpipTcpTimer ==
  /\ pc = "handler" /\ handler = Tcp
  /\ pcbs' \in 0 .. pcbs
  /\ IF pcbs' > 0
     THEN list' = SysTimeout(list, Tcp) /\ UNCHANGED active
     ELSE active' = FALSE /\ UNCHANGED list
  /\ handler' = "none"
  /\ pc' = "check"
  /\ UNCHANGED <<now, due, t0, lag>>

MainLoop ==
  CheckTimeouts \/ Expire \/ NoneExpired \/ CyclicTimer \/ TcpipTcpTimer

\* SysTick, anywhere.
Tick ==
  /\ lag < MaxLag
  /\ now' = (now + 1) % Span
  /\ lag' = lag + 1
  /\ UNCHANGED <<list, due, active, pcbs, pc, t0, handler>>

Next == TcpReg \/ TcpRmv \/ MainLoop \/ Tick

\* The loop goes round and time passes.
Fairness == WF_vars(MainLoop) /\ WF_vars(Tick)

Spec     == Init /\ [][Next]_vars
FairSpec == Spec /\ Fairness
-----------------------------------------------------------------------------
(* Correctness.                                                            *)

\* A time on the clock as the distance from now, negative when it is past.
FromNow(time) == LET d == (time - now) % Span
                 IN IF d > MaxTimeout THEN d - Span ELSE d

Entries(h)  == {i \in 1 .. Len(list) : list[i].h = h}
\* h is in the list or its handler runs, not both, and in the list once.
Scheduled(h) ==
  IF handler = h THEN Entries(h) = {} ELSE \E i \in 1 .. Len(list) : Entries(h) = {i}
Unscheduled(h) == handler # h /\ Entries(h) = {}

\* Every variable keeps its type, and the list fits into its pool.
TypeOK ==
  /\ now \in 0 .. Span - 1
  /\ list \in Seq([h : Timers, time : 0 .. Span - 1]) /\ Len(list) <= PoolSize
  /\ due \in 0 .. Span - 1
  /\ active \in BOOLEAN
  /\ pcbs \in 0 .. MaxPcbs
  /\ pc \in {"loop", "check", "handler"}
  /\ t0 \in 0 .. Span - 1
  /\ handler \in Timers \cup {"none"}
  /\ lag \in 0 .. MaxLag

(***************************************************************************)
(* No timer is ever lost or doubled.  Of every cyclic timer the handler    *)
(* runs or it is in the list once, although sys_timeout_abs drops a timer  *)
(* without a word when the pool has no entry for it (lines 188-192), and   *)
(* the pool has not one entry to spare.  tcpip_tcp_timer_active says       *)
(* exactly whether the TCP timer is scheduled, and it is whenever there is *)
(* a connection: none is left without retransmission because of one that   *)
(* ended just before (lines 151-157 and 171-175).                          *)
(***************************************************************************)
TimersScheduled ==
  /\ TypeOK
  /\ \A h \in CyclicSet : Scheduled(h)
  /\ IF active THEN Scheduled(Tcp) ELSE Unscheduled(Tcp)
  /\ pcbs > 0 => active

(***************************************************************************)
(* The list is sorted by the real order of the due times, also when the    *)
(* clock wraps between them (lines 205-220).                               *)
(***************************************************************************)
Sorted ==
  \A i, j \in 1 .. Len(list) :
    i < j => FromNow(list[i].time) <= FromNow(list[j].time)

\* The time left of each timer in the list, and of the one whose handler runs.
TimeLeft == [h \in {list[i].h : i \in 1 .. Len(list)} |->
               FromNow(list[CHOOSE i \in Entries(h) : TRUE].time)]
Late     == IF handler = "none" THEN 0 ELSE FromNow(due)

Queue == INSTANCE TimerQueue
  WITH Cyclic   <- CyclicSet,
       OnDemand <- Tcp,
       left     <- TimeLeft,
       running  <- handler,
       late     <- Late

(***************************************************************************)
(* The timers implement TimerQueue, whose times are integers: none runs    *)
(* before it is due, the one due for longest runs first, a cyclic timer    *)
(* keeps its rhythm, and the wrap of the clock is not seen.                *)
(***************************************************************************)
ImplementsQueue == Queue!Spec

(***************************************************************************)
(* Every cyclic timer runs again and again, and the TCP timer runs as long *)
(* as there is a connection.                                               *)
(***************************************************************************)
TimersRun ==
  /\ \A h \in CyclicSet : []<>(handler = h)
  /\ (pcbs > 0) ~> (handler = Tcp \/ pcbs = 0)
=============================================================================
