-------------------------- MODULE EncDriverProofs --------------------------
(***************************************************************************)
(* Proofs about the two halves of the ENC28J60 driver that do not touch    *)
(* the receive ring: the send path (EncTx), for every set of frame         *)
(* lengths, every timeout, every width of the tick counter and any number  *)
(* of calls; and the register accesses (EncRegs), for every patience and   *)
(* any number of restarts.                                                 *)
(***************************************************************************)
EXTENDS EncTx, EncRegs, SequenceTheorems, TLAPS

\* Lengths are between one and the longest.
LEMMA MaxLenFacts ==
  /\ MaxLen \in Nat
  /\ \A len \in Lens : len \in 1 .. MaxLen
<1>1. MaxLen \in Lens /\ \A len \in Lens : len <= MaxLen
  BY TxConstantsOK DEF MaxLen
<1> QED BY <1>1, TxConstantsOK

\* The constants are numbers, and the timeout is within the span.
LEMMA TxNats ==
  /\ MaxSends \in Nat /\ Timeout \in Nat /\ TickSpan \in Nat
  /\ Timeout + 1 < TickSpan
  BY TxConstantsOK

(***************************************************************************)
(* The subtraction of two tick readings in 32 bits is the number of ticks  *)
(* between them, whether or not the counter has wrapped (line 369).        *)
(***************************************************************************)
LEMMA TickDifference ==
  ASSUME NEW s \in 0 .. TickSpan - 1, NEW w \in 0 .. TickSpan - 1
  PROVE  /\ (s + w) % TickSpan \in 0 .. TickSpan - 1
         /\ (((s + w) % TickSpan) - s) % TickSpan = w
<1>1. CASE s + w < TickSpan
  <2>1. s + w \in 0 .. TickSpan - 1
    BY <1>1, TxConstantsOK
  <2>2. (s + w) % TickSpan = s + w
    BY <2>1, TxConstantsOK
  <2>3. w % TickSpan = w /\ (s + w) - s = w
    BY TxConstantsOK
  <2> QED BY <2>1, <2>2, <2>3
<1>2. CASE s + w >= TickSpan
  <2> DEFINE k == s + w - TickSpan
  <2>1. k \in 0 .. TickSpan - 1 /\ s + w = k + TickSpan
    BY <1>2, TxConstantsOK
  <2>2. (s + w) % TickSpan = k
    BY <2>1, TxConstantsOK, SMT
  <2>3. (k - s) % TickSpan = w
    <3>1. k - s = w - TickSpan
      BY TxConstantsOK
    <3>2. (w - TickSpan) % TickSpan = w
      BY TxConstantsOK, SMT
    <3> QED BY <3>1, <3>2
  <2> QED BY <2>1, <2>2, <2>3
<1> QED BY <1>1, <1>2, TxConstantsOK

\* One tick more, wrapped or not.
LEMMA NextTick ==
  ASSUME NEW s \in 0 .. TickSpan - 1, NEW w \in Nat, w + 1 < TickSpan
  PROVE  (((s + w) % TickSpan) + 1) % TickSpan = (s + (w + 1)) % TickSpan
<1> DEFINE a == s + w
<1>1. CASE a < TickSpan
  <2>1. a % TickSpan = a
    BY <1>1, TxConstantsOK
  <2> QED BY <2>1
<1>2. CASE a >= TickSpan
  <2> DEFINE k == a - TickSpan
  <2>1. k \in 0 .. TickSpan - 1 /\ k + 1 \in 0 .. TickSpan - 1 /\ a = k + TickSpan
    BY <1>2, TxConstantsOK
  <2>2. a % TickSpan = k
    BY <2>1, TxConstantsOK, SMT
  <2>3. (k + 1) % TickSpan = k + 1
    BY <2>1, TxConstantsOK
  <2>4. (s + (w + 1)) % TickSpan = k + 1
    <3>1. s + (w + 1) = (k + 1) + TickSpan
      BY <2>1, TxConstantsOK
    <3>2. ((k + 1) + TickSpan) % TickSpan = k + 1
      BY <2>1, TxConstantsOK, SMT
    <3> QED BY <3>1, <3>2
  <2> QED BY <2>2, <2>3, <2>4
<1> QED BY <1>1, <1>2, TxConstantsOK

-----------------------------------------------------------------------------
(* The inductive invariant.                                                *)

\* There is a frame to speak of.
Asked == (pc # "idle" \/ txrts) => req.id >= 1 /\ req.len \in Lens

\* Nothing is being sent while the frame is prepared.
Quiet == pc \in {"pointers", "write", "end", "trigger"} => ~txrts

Pointer == pc = "write" => ewrpt = 0

\* The TX memory holds the frame, and ETXND its end.
Loaded ==
  /\ (pc \in {"end", "trigger"} \/ txrts) =>
       \A c \in 1 .. req.len : mem[c] = Byte(req, c)
  /\ (pc = "trigger" \/ txrts) => etxnd = req.len

\* What has gone out is a beginning of the frame.
Sending ==
  /\ txrts => \A n \in 1 .. Len(onwire) : onwire[n] = Byte(req, n)
  /\ ~txrts => onwire = <<>>

Clock ==
  Polling => /\ tick = (t + waited) % TickSpan
             /\ waited <= IF fresh THEN Timeout ELSE Timeout + 1

TxInv == TypeOK /\ Asked /\ Quiet /\ Pointer /\ Loaded /\ Sending /\ Clock

\* The invariant holds before the first call.
LEMMA InitTx == Init => TxInv
<1> SUFFICES ASSUME Init PROVE TxInv
  OBVIOUS
<1>1. /\ 0 \in 0 .. MaxLen /\ 0 \in 0 .. MaxLen + 1 /\ 0 \in 0 .. TickSpan - 1
      /\ 0 \in 0 .. MaxSends
  BY MaxLenFacts, TxConstantsOK
<1>2. mem \in [0 .. MaxLen -> Cell]
  BY DEF Init, Unwritten, Cell
<1>3. req \in [id : 0 .. MaxSends, len : Lens \cup {0}]
  BY <1>1 DEF Init, None
<1>4. onwire \in Seq(Cell) /\ Len(onwire) = 0 /\ wire \in Seq(Seq(Cell))
  BY EmptySeq DEF Init
<1>5. TypeOK
  <2>1. Len(onwire) <= etxnd /\ etxnd \in 0 .. MaxLen
    BY <1>1, <1>4 DEF Init
  <2>2. txrts \in BOOLEAN
    BY DEF Init
  <2> QED BY <1>1, <1>2, <1>3, <1>4, <2>1, <2>2 DEF Init, TypeOK
<1>6. Asked /\ Quiet /\ Pointer /\ Loaded /\ Sending /\ Clock
  BY DEF Init, Asked, Quiet, Pointer, Loaded, Sending, Clock, Polling
<1> QED BY <1>5, <1>6 DEF TxInv

\* There is a request while a call runs or a transmission does.
LEMMA ReqLen ==
  ASSUME TxInv, pc # "idle" \/ txrts
  PROVE  req.len \in 1 .. MaxLen /\ req.len \in Lens /\ req.id \in Nat
<1>1. req.len \in Lens /\ req.id \in 0 .. MaxSends
  BY DEF TxInv, Asked, TypeOK
<1>2. req.id \in Nat
  BY <1>1, TxNats
<1> QED BY <1>1, <1>2, MaxLenFacts

\* A call cancels the last transmission.
LEMMA CancelTxInv == ASSUME TxInv, CancelTx PROVE TxInv'
<1>1. PICK len \in Lens : req' = [id |-> req.id + 1, len |-> len]
  BY DEF CancelTx
<1>2. req.id \in 0 .. MaxSends /\ req.id < MaxSends /\ MaxSends \in Nat
  BY TxConstantsOK DEF TxInv, TypeOK, CancelTx
<1>3. req' \in [id : 0 .. MaxSends, len : Lens \cup {0}] /\ req'.id >= 1 /\ req'.len \in Lens
  BY <1>1, <1>2
<1>4. onwire' \in Seq(Cell) /\ Len(onwire') = 0
  BY EmptySeq DEF CancelTx
<1>5. TypeOK'
  <2>1. etxnd \in 0 .. MaxLen
    BY DEF TxInv, TypeOK
  <2>2. Len(onwire') <= etxnd
    BY <1>4, <2>1, MaxLenFacts
  <2>3. txrts' \in BOOLEAN
    BY DEF CancelTx
  <2> QED BY <1>3, <1>4, <2>2, <2>3 DEF TxInv, TypeOK, CancelTx, timeVars
<1>6. (Asked /\ Quiet /\ Pointer /\ Loaded /\ Sending /\ Clock)'
  BY <1>3 DEF CancelTx, Asked, Quiet, Pointer, Loaded, Sending, Clock, Polling
<1> QED BY <1>5, <1>6 DEF TxInv

\* It sets EWRPT and ETXST.
LEMMA SetPointersInv == ASSUME TxInv, SetPointers PROVE TxInv'
<1>1. ewrpt' \in 0 .. MaxLen + 1
  BY MaxLenFacts DEF SetPointers
<1>2. TypeOK'
  BY <1>1 DEF TxInv, TypeOK, SetPointers, timeVars
<1>3. (Asked /\ Quiet /\ Pointer /\ Loaded /\ Sending /\ Clock)'
  BY DEF TxInv, SetPointers, Asked, Quiet, Pointer, Loaded, Sending, Clock, Polling
<1> QED BY <1>2, <1>3 DEF TxInv

\* It writes the control byte and the frame.
LEMMA WriteFrameInv == ASSUME TxInv, WriteFrame PROVE TxInv'
<1>1. ewrpt = 0 /\ ~txrts /\ req.len \in 1 .. MaxLen /\ req.len \in Nat /\ req.id \in Nat
  BY ReqLen, MaxLenFacts DEF TxInv, Pointer, Quiet, WriteFrame
<1>2. DOMAIN mem = 0 .. MaxLen /\ mem \in [0 .. MaxLen -> Cell]
  BY DEF TxInv, TypeOK
<1>3. \A c \in 0 .. MaxLen :
        mem'[c] = IF c \in 0 .. req.len THEN Byte(req, c) ELSE mem[c]
  <2> SUFFICES ASSUME NEW c \in 0 .. MaxLen
               PROVE  mem'[c] = IF c \in 0 .. req.len THEN Byte(req, c) ELSE mem[c]
    OBVIOUS
  <2>1. /\ ewrpt .. ewrpt + req.len = 0 .. req.len
        /\ c - ewrpt = c
    BY <1>1, MaxLenFacts
  <2> QED BY <1>2, <2>1 DEF WriteFrame
<1>4. mem' \in [0 .. MaxLen -> Cell]
  <2>1. DOMAIN mem' = 0 .. MaxLen /\ mem' = [c \in 0 .. MaxLen |-> mem'[c]]
    BY <1>2 DEF WriteFrame
  <2>2. \A c \in 0 .. MaxLen : mem'[c] \in Cell
    <3> SUFFICES ASSUME NEW c \in 0 .. MaxLen PROVE mem'[c] \in Cell
      OBVIOUS
    <3>1. mem[c] \in Cell
      BY <1>2
    <3>2. Byte(req, c) \in Cell
      BY <1>1, MaxLenFacts DEF Byte, Cell
    <3> QED BY <1>3, <3>1, <3>2
  <2> QED BY <2>1, <2>2
<1>5. ewrpt' \in 0 .. MaxLen + 1
  BY <1>1, MaxLenFacts DEF WriteFrame
<1>6. TypeOK'
  BY <1>4, <1>5 DEF TxInv, TypeOK, WriteFrame, timeVars
<1>7. \A c \in 1 .. req.len : mem'[c] = Byte(req, c)
  BY <1>1, <1>3, MaxLenFacts
<1>8. Loaded'
  BY <1>1, <1>7 DEF Loaded, WriteFrame, Byte
<1>9. (Asked /\ Quiet /\ Pointer /\ Sending /\ Clock)'
  BY <1>1 DEF TxInv, WriteFrame, Asked, Quiet, Pointer, Sending, Clock, Polling
<1> QED BY <1>6, <1>8, <1>9 DEF TxInv

\* It writes ETXND.
LEMMA WriteEndInv == ASSUME TxInv, WriteEnd PROVE TxInv'
<1>1. ~txrts /\ req.len \in 1 .. MaxLen
  BY ReqLen DEF TxInv, Quiet, WriteEnd
<1>2. etxnd' \in 0 .. MaxLen /\ onwire = <<>> /\ Len(onwire) = 0
  BY <1>1, MaxLenFacts, EmptySeq DEF TxInv, Sending, WriteEnd
<1>3. TypeOK'
  BY <1>2 DEF TxInv, TypeOK, WriteEnd, timeVars
<1>4. (Asked /\ Quiet /\ Pointer /\ Loaded /\ Sending /\ Clock)'
  BY <1>1 DEF TxInv, WriteEnd, Asked, Quiet, Pointer, Loaded, Sending, Clock,
              Polling, Byte
<1> QED BY <1>3, <1>4 DEF TxInv

\* It sets TXRTS.
LEMMA TriggerInv == ASSUME TxInv, Trigger PROVE TxInv'
<1>1. ~txrts /\ onwire = <<>> /\ Len(onwire) = 0
  BY EmptySeq DEF TxInv, Quiet, Sending, Trigger
<1>2. TypeOK'
  BY DEF TxInv, TypeOK, Trigger, timeVars
<1>3. (Asked /\ Quiet /\ Pointer /\ Loaded /\ Sending /\ Clock)'
  BY <1>1 DEF TxInv, Trigger, Asked, Quiet, Pointer, Loaded, Sending, Clock,
              Polling, Byte
<1> QED BY <1>2, <1>3 DEF TxInv

\* It notes the tick.
LEMMA StartClockInv == ASSUME TxInv, StartClock PROVE TxInv'
<1>1. t' \in 0 .. TickSpan - 1 /\ t' = tick /\ tick' = tick /\ waited' = 0
  BY DEF TxInv, TypeOK, StartClock
<1>2. TypeOK'
  BY <1>1 DEF TxInv, TypeOK, StartClock, ctlVars
<1>3. Clock'
  <2>1. tick = (tick + 0) % TickSpan
    <3>1. tick \in 0 .. TickSpan - 1
      BY DEF TxInv, TypeOK
    <3> QED BY <3>1, TxConstantsOK
  <2> QED BY <1>1, <2>1, TxConstantsOK DEF Clock, StartClock
<1>4. (Asked /\ Quiet /\ Pointer /\ Loaded /\ Sending)'
  BY DEF TxInv, StartClock, Asked, Quiet, Pointer, Loaded, Sending, ctlVars
<1> QED BY <1>2, <1>3, <1>4 DEF TxInv

\* It sees TXRTS clear, or goes on.
LEMMA PollTxrtsInv == ASSUME TxInv, PollTxrts PROVE TxInv'
<1>1. TypeOK'
  BY DEF TxInv, TypeOK, PollTxrts, ctlVars, timeVars
<1>2. (Asked /\ Quiet /\ Pointer /\ Loaded /\ Sending /\ Clock)'
  BY DEF TxInv, PollTxrts, Asked, Quiet, Pointer, Loaded, Sending, Clock,
         Polling, ctlVars, timeVars
<1> QED BY <1>1, <1>2 DEF TxInv

\* While the loop runs, the difference it computes is the time it has waited.
LEMMA Elapsed ==
  ASSUME TxInv, Polling
  PROVE  /\ (tick - t) % TickSpan = waited
         /\ waited \in Nat /\ waited <= Timeout + 1
<1>1. /\ t \in 0 .. TickSpan - 1 /\ waited \in Nat /\ fresh \in BOOLEAN
      /\ tick = (t + waited) % TickSpan
      /\ waited <= IF fresh THEN Timeout ELSE Timeout + 1
  BY DEF TxInv, TypeOK, Clock
<1>2. waited <= Timeout + 1 /\ waited \in 0 .. TickSpan - 1
  BY <1>1, TxConstantsOK
<1> QED BY <1>1, <1>2, TickDifference

\* It gives up when the time is over, or polls again.
LEMMA CheckClockInv == ASSUME TxInv, CheckClock PROVE TxInv'
<1>1. TypeOK'
  BY DEF TxInv, TypeOK, CheckClock, ctlVars
<1>2. Clock'
  <2>1. SUFFICES ASSUME Polling' PROVE Clock'
    BY DEF Clock
  <2>2. ~((tick - t) % TickSpan > Timeout) /\ Polling
    BY <2>1 DEF CheckClock, Polling
  <2>3. waited <= Timeout
    BY <2>2, Elapsed, TxConstantsOK
  <2> QED BY <2>2, <2>3 DEF TxInv, Clock, CheckClock
<1>3. (Asked /\ Quiet /\ Pointer /\ Loaded /\ Sending)'
  BY DEF TxInv, CheckClock, Asked, Quiet, Pointer, Loaded, Sending, ctlVars
<1> QED BY <1>1, <1>2, <1>3 DEF TxInv

\* The controller sends a byte.
LEMMA SendByteInv == ASSUME TxInv, SendByte PROVE TxInv'
<1>1. /\ txrts /\ Len(onwire) < etxnd /\ etxnd = req.len
      /\ onwire \in Seq(Cell) /\ etxnd \in 0 .. MaxLen
      /\ onwire' = Append(onwire, mem[Len(onwire) + 1])
  BY DEF TxInv, TypeOK, Loaded, SendByte
<1>2. Len(onwire) \in Nat /\ Len(onwire) + 1 \in 1 .. req.len /\ Len(onwire) + 1 \in 0 .. MaxLen
  BY <1>1, MaxLenFacts
<1>3. mem[Len(onwire) + 1] \in Cell /\ mem[Len(onwire) + 1] = Byte(req, Len(onwire) + 1)
  BY <1>1, <1>2 DEF TxInv, TypeOK, Loaded
<1>4. /\ onwire' \in Seq(Cell) /\ Len(onwire') = Len(onwire) + 1
      /\ \A n \in 1 .. Len(onwire) : onwire'[n] = onwire[n]
      /\ onwire'[Len(onwire) + 1] = Byte(req, Len(onwire) + 1)
  BY <1>1, <1>2, <1>3
<1>5. TypeOK'
  <2>1. Len(onwire') <= etxnd
    BY <1>1, <1>2, <1>4, MaxLenFacts
  <2> QED BY <1>4, <2>1 DEF TxInv, TypeOK, SendByte, timeVars
<1>6. Sending'
  <2>1. \A n \in 1 .. Len(onwire) : onwire[n] = Byte(req, n)
    BY <1>1 DEF TxInv, Sending
  <2>2. \A n \in 1 .. Len(onwire) + 1 : onwire'[n] = Byte(req, n)
    BY <1>2, <1>4, <2>1
  <2> QED BY <1>1, <1>4, <2>2 DEF Sending, SendByte, Byte
<1>7. (Asked /\ Quiet /\ Pointer /\ Loaded /\ Clock)'
  BY DEF TxInv, SendByte, Asked, Quiet, Pointer, Loaded, Clock, Polling, timeVars, Byte
<1> QED BY <1>5, <1>6, <1>7 DEF TxInv

\* The controller is done and clears TXRTS.
LEMMA FinishTxInv == ASSUME TxInv, FinishTx PROVE TxInv'
<1>1. onwire' = <<>> /\ onwire' \in Seq(Cell) /\ Len(onwire') = 0 /\ ~txrts'
  BY EmptySeq DEF FinishTx
<1>2. wire' \in Seq(Seq(Cell))
  <2>1. wire \in Seq(Seq(Cell)) /\ onwire \in Seq(Cell)
    BY DEF TxInv, TypeOK
  <2> QED BY <2>1 DEF FinishTx
<1>3. TypeOK'
  <2>1. etxnd \in 0 .. MaxLen
    BY DEF TxInv, TypeOK
  <2>2. Len(onwire') <= etxnd
    BY <1>1, <2>1, MaxLenFacts
  <2>3. txrts' \in BOOLEAN
    BY DEF FinishTx
  <2> QED BY <1>1, <1>2, <2>2, <2>3 DEF TxInv, TypeOK, FinishTx, timeVars
<1>4. (Asked /\ Quiet /\ Pointer /\ Loaded /\ Sending /\ Clock)'
  BY <1>1 DEF TxInv, FinishTx, Asked, Quiet, Pointer, Loaded, Sending, Clock,
              Polling, timeVars, Byte
<1> QED BY <1>3, <1>4 DEF TxInv

\* The tick counts, and may wrap.
LEMMA TickInv == ASSUME TxInv, Tick PROVE TxInv'
<1>1. tick' \in 0 .. TickSpan - 1
  BY TxConstantsOK DEF TxInv, TypeOK, Tick
<1>2. waited' \in Nat
  BY DEF TxInv, TypeOK, Tick
<1>3. TypeOK'
  BY <1>1, <1>2 DEF TxInv, TypeOK, Tick, ctlVars
<1>4. Clock'
  <2>1. SUFFICES ASSUME Polling PROVE Clock'
    BY DEF Clock, Tick, Polling
  <2>2. /\ fresh /\ waited' = waited + 1 /\ t' = t /\ ~fresh'
        /\ tick' = (tick + 1) % TickSpan
    BY <2>1 DEF Tick
  <2>3. /\ tick = (t + waited) % TickSpan /\ waited <= Timeout /\ waited \in Nat
        /\ t \in 0 .. TickSpan - 1
    BY <2>1, <2>2 DEF TxInv, TypeOK, Clock
  <2>4. tick' = (t + (waited + 1)) % TickSpan
    <3>1. waited + 1 < TickSpan
      BY <2>3, TxConstantsOK
    <3>2. (((t + waited) % TickSpan) + 1) % TickSpan = (t + (waited + 1)) % TickSpan
      BY <2>3, <3>1, NextTick
    <3> QED BY <2>2, <2>3, <3>2
  <2>5. waited' <= Timeout + 1
    BY <2>2, <2>3, TxConstantsOK
  <2> QED BY <2>2, <2>4, <2>5 DEF Clock
<1>5. (Asked /\ Quiet /\ Pointer /\ Loaded /\ Sending)'
  BY DEF TxInv, Tick, Asked, Quiet, Pointer, Loaded, Sending, ctlVars
<1> QED BY <1>3, <1>4, <1>5 DEF TxInv

\* The invariant holds always.
LEMMA TxInvariant == Spec => []TxInv
<1>1. ASSUME TxInv, UNCHANGED vars PROVE TxInv'
  BY <1>1 DEF TxInv, TypeOK, Asked, Quiet, Pointer, Loaded, Sending, Clock,
              Polling, vars, ctlVars, timeVars
<1>2. TxInv /\ [Next]_vars => TxInv'
  BY <1>1, CancelTxInv, SetPointersInv, WriteFrameInv, WriteEndInv, TriggerInv,
     StartClockInv, PollTxrtsInv, CheckClockInv, SendByteInv, FinishTxInv, TickInv
  DEF Next, SendPacket
<1> QED BY InitTx, <1>2, PTL DEF Spec

-----------------------------------------------------------------------------
(* The theorems about the send path.                                       *)

(***************************************************************************)
(* Every variable keeps its type: the frame being written stays inside the *)
(* buffer, whatever the order of calls, time-outs and transmissions.       *)
(***************************************************************************)
THEOREM TxTypeCorrect == Spec => []TypeOK
<1>1. TxInv => TypeOK
  BY DEF TxInv
<1> QED BY <1>1, TxInvariant, PTL

(***************************************************************************)
(* The TX memory and ETXND are left alone as long as TXRTS is set, whatever*)
(* the controller does and whenever a call gave up (lines 334-359).        *)
(***************************************************************************)
THEOREM MemoryStable == Spec => StableWhileSending
<1>1. ASSUME TxInv, [Next]_vars PROVE txrts => UNCHANGED <<mem, etxnd>>
  <2>1. CASE WriteFrame \/ WriteEnd
    BY <1>1, <2>1 DEF TxInv, Quiet, WriteFrame, WriteEnd
  <2>2. CASE CancelTx \/ SetPointers \/ Trigger \/ StartClock \/ PollTxrts \/ CheckClock
    BY <2>2 DEF CancelTx, SetPointers, Trigger, StartClock, PollTxrts,
                CheckClock, ctlVars
  <2>3. CASE SendByte \/ FinishTx \/ Tick \/ UNCHANGED vars
    BY <2>3 DEF SendByte, FinishTx, Tick, vars, ctlVars
  <2> QED BY <1>1, <2>1, <2>2, <2>3 DEF Next, SendPacket
<1> QED BY <1>1, TxInvariant, PTL DEF Spec, StableWhileSending

(***************************************************************************)
(* SendPacket gives up after exactly Timeout + 1 ticks, wherever the tick  *)
(* counter stood when it started (lines 365-369).                          *)
(***************************************************************************)
THEOREM TimeoutExact == Spec => GivesUpOnTime
<1>1. ASSUME TxInv, [Next]_vars
      PROVE  pc = "clock" /\ pc' = "idle" => waited = Timeout + 1
  <2>1. SUFFICES ASSUME pc = "clock", pc' = "idle" PROVE waited = Timeout + 1
    OBVIOUS
  <2>2. CheckClock
    BY <1>1, <2>1
    DEF Next, SendPacket, CancelTx, SetPointers, WriteFrame, WriteEnd, Trigger,
        StartClock, PollTxrts, SendByte, FinishTx, Tick, vars
  <2>3. (tick - t) % TickSpan > Timeout
    BY <2>1, <2>2 DEF CheckClock
  <2>4. waited > Timeout /\ waited \in Nat /\ waited <= Timeout + 1
    BY <1>1, <2>1, <2>3, Elapsed DEF Polling
  <2> QED BY <2>4, TxNats
<1> QED BY <1>1, TxInvariant, PTL DEF Spec, GivesUpOnTime

\* The refinement begins where TxWire begins.
LEMMA InitWire == Init => Wire!Init
  BY DEF Init, Wire!Init, Pending, None, Wire!None

\* The start of a call hands a frame to the wire.
LEMMA CancelSubmits == ASSUME TxInv, CancelTx PROVE Wire!Submit
  BY DEF CancelTx, Wire!Submit, Pending

\* The end of a transmission is a whole frame on it.
LEMMA FinishEmits == ASSUME TxInv, FinishTx PROVE Wire!Emit
<1>1. /\ txrts /\ pc \notin {"pointers", "write", "end", "trigger"}
      /\ req.id >= 1 /\ req.id \in Nat /\ etxnd = req.len /\ Len(onwire) = req.len
      /\ onwire \in Seq(Cell)
  BY ReqLen DEF TxInv, Quiet, Asked, Loaded, FinishTx, TypeOK
<1>2. req # None
  BY <1>1 DEF None
<1>3. onwire = [n \in 1 .. req.len |-> Wire!Byte(req, n)]
  <2>1. onwire = [n \in 1 .. req.len |-> onwire[n]]
    BY <1>1
  <2>2. \A n \in 1 .. req.len : onwire[n] = Byte(req, n)
    BY <1>1 DEF TxInv, Sending
  <2> QED BY <2>1, <2>2 DEF Byte, Wire!Byte
<1>4. Pending /\ ~Pending' /\ req' = req
  BY <1>1 DEF Pending, FinishTx
<1> QED BY <1>2, <1>3, <1>4 DEF FinishTx, Wire!Emit, Wire!None, Wire!Image, None

\* No other step shows on the wire.
LEMMA OthersStutter ==
  ASSUME TxInv, UNCHANGED vars \/ SendPacket \/ SendByte \/ Tick
  PROVE  UNCHANGED Wire!vars
<1>1. req' = req /\ wire' = wire
  BY DEF SendPacket, SetPointers, WriteFrame, WriteEnd, Trigger, StartClock,
         PollTxrts, CheckClock, SendByte, Tick, vars, ctlVars
<1>2. Pending' <=> Pending
  <2>1. CASE Trigger
    BY <2>1 DEF Trigger, Pending
  <2>2. CASE SetPointers \/ WriteFrame \/ WriteEnd
    BY <2>2 DEF SetPointers, WriteFrame, WriteEnd, Pending
  <2>3. CASE StartClock \/ PollTxrts \/ CheckClock
    BY <2>3 DEF StartClock, PollTxrts, CheckClock, Pending, ctlVars
  <2>4. CASE SendByte \/ Tick \/ UNCHANGED vars
    BY <2>4 DEF SendByte, Tick, vars, ctlVars, Pending
  <2> QED BY <2>1, <2>2, <2>3, <2>4 DEF SendPacket
<1> QED BY <1>1, <1>2 DEF Wire!vars

(***************************************************************************)
(* The send path implements TxWire: a frame on the wire is the whole of    *)
(* one frame handed over, in the order of the calls, at most once.         *)
(***************************************************************************)
THEOREM SendImplementsWire == Spec => ImplementsWire
<1>1. ASSUME TxInv, [Next]_vars PROVE [Wire!Next]_(Wire!vars)
  BY <1>1, CancelSubmits, FinishEmits, OthersStutter DEF Next, Wire!Next
<1> QED BY InitWire, <1>1, TxInvariant, PTL DEF Spec, ImplementsWire, Wire!Spec

-----------------------------------------------------------------------------
(* What follows for the caller and for the wire.                           *)

(***************************************************************************)
(* SendPacket waits for the transmitter at most Timeout + 1 ticks, also    *)
(* one that never clears TXRTS: this is what a call can cost the main loop *)
(* (lines 364-370).                                                        *)
(***************************************************************************)
THEOREM WaitIsBounded == Spec => [](Polling => waited <= Timeout + 1)
<1>1. TxInv => (Polling => waited <= Timeout + 1)
  BY Elapsed
<1> QED BY <1>1, TxInvariant, PTL

\* The call whose frame is number i on the wire.
CallOf(i) == wire[i][1].id

\* Every frame on the wire is the whole of a frame some call handed over.
WholeFrames ==
  \A i \in 1 .. Len(wire) :
    \E f \in [id : 1 .. req.id, len : Lens] : wire[i] = Wire!Image(f)

\* In the order of the calls, and none twice.
CallOrder ==
  \A i, j \in 1 .. Len(wire) : i < j => CallOf(i) < CallOf(j)

\* What may still go out was handed over later than all of them.
NewestPending ==
  Pending => \A i \in 1 .. Len(wire) : CallOf(i) < req.id

WireInv == WholeFrames /\ CallOrder /\ NewestPending

\* The number of a whole frame can be read off its first byte.
LEMMA ImageFacts ==
  ASSUME NEW m \in Nat, NEW f \in [id : 1 .. m, len : Lens]
  PROVE  /\ Wire!Image(f)[1].id = f.id
         /\ f.id \in 1 .. m
<1>1. f.len \in Nat /\ f.len >= 1
  BY MaxLenFacts
<1>2. 1 \in 1 .. f.len
  BY <1>1
<1>3. Wire!Image(f)[1] = [id |-> f.id, n |-> 1]
  BY <1>2 DEF Wire!Image, Wire!Byte
<1> QED BY <1>3

\* The calls of the frames on the wire are calls that were made.
LEMMA CallsMade ==
  ASSUME TxInv, WholeFrames
  PROVE  req.id \in Nat /\ \A i \in 1 .. Len(wire) : CallOf(i) \in 1 .. req.id
<1>1. req.id \in Nat
  BY TxNats DEF TxInv, TypeOK
<1>2. ASSUME NEW i \in 1 .. Len(wire) PROVE CallOf(i) \in 1 .. req.id
  <2>1. PICK f \in [id : 1 .. req.id, len : Lens] : wire[i] = Wire!Image(f)
    BY <1>2 DEF WholeFrames
  <2> QED BY <1>1, <2>1, ImageFacts DEF CallOf
<1> QED BY <1>1, <1>2

\* A new call is the newest.
LEMMA CancelWire == ASSUME TxInv, WireInv, CancelTx PROVE WireInv'
<1>1. req.id \in Nat /\ \A i \in 1 .. Len(wire) : CallOf(i) \in 1 .. req.id
  BY CallsMade DEF WireInv
<1>2. req'.id = req.id + 1 /\ wire' = wire
  BY DEF CancelTx
<1>3. WholeFrames'
  <2>1. ASSUME NEW i \in 1 .. Len(wire)
        PROVE  \E f \in [id : 1 .. req'.id, len : Lens] : wire[i] = Wire!Image(f)
    <3>1. PICK f \in [id : 1 .. req.id, len : Lens] : wire[i] = Wire!Image(f)
      BY <2>1 DEF WireInv, WholeFrames
    <3>2. 1 .. req.id \subseteq 1 .. req'.id
      BY <1>1, <1>2
    <3>3. f \in [id : 1 .. req'.id, len : Lens]
      BY <3>2
    <3> QED BY <3>1, <3>3
  <2> QED BY <1>2, <2>1 DEF WholeFrames
<1>4. CallOrder' /\ NewestPending'
  BY <1>1, <1>2 DEF WireInv, CallOrder, NewestPending, CallOf
<1> QED BY <1>3, <1>4 DEF WireInv

\* A frame that is out is the one of the last call.
LEMMA FinishWire == ASSUME TxInv, WireInv, FinishTx PROVE WireInv'
<1>1. /\ req.id \in Nat /\ req.id >= 1 /\ req.len \in Lens /\ Pending /\ ~Pending'
      /\ req' = req
  <2>1. Wire!Emit
    BY FinishEmits
  <2>2. txrts /\ ~txrts' /\ pc' = pc /\ req' = req /\ pc \notin {"pointers", "write", "end", "trigger"}
    BY DEF FinishTx, TxInv, Quiet
  <2> QED BY <2>2, TxNats DEF TxInv, TypeOK, Asked, Pending
<1> DEFINE f0 == [id |-> req.id, len |-> req.len]
           k  == Len(wire)
<1>2. f0 \in [id : 1 .. req.id, len : Lens] /\ f0 = req
  BY <1>1 DEF TxInv, TypeOK
<1>3. wire' = Append(wire, Wire!Image(req))
  <2>1. Wire!Emit
    BY FinishEmits
  <2> QED BY <1>1, <2>1 DEF Wire!Emit
<1> HIDE DEF f0
<1>4. wire \in Seq(Seq(Cell)) /\ k \in Nat
  BY DEF TxInv, TypeOK
<1>5. /\ Len(wire') = k + 1
      /\ \A i \in 1 .. k : wire'[i] = wire[i]
      /\ wire'[k + 1] = Wire!Image(req)
  <2>1. wire' = Append(wire, onwire) /\ onwire \in Seq(Cell)
    BY DEF FinishTx, TxInv, TypeOK
  <2>2. /\ Len(wire') = Len(wire) + 1
        /\ \A i \in 1 .. Len(wire) : wire'[i] = wire[i]
        /\ wire'[Len(wire) + 1] = onwire
    BY <1>4, <2>1, AppendProperties
  <2>3. onwire = Wire!Image(req)
    <3>1. wire'[Len(wire) + 1] = Wire!Image(req)
      <4> DEFINE x == Wire!Image(req)
      <4>1. x = Append(wire, x)[Len(wire) + 1]
        BY <1>4
      <4> QED BY <1>3, <4>1
    <3> QED BY <2>2, <3>1
  <2> QED BY <2>2, <2>3
<1>6. /\ wire'[k + 1][1].id = req.id
      /\ \A i \in 1 .. k : wire'[i][1].id = wire[i][1].id
  <2>1. Wire!Image(req)[1].id = req.id
    BY <1>1, <1>2, ImageFacts
  <2> QED BY <1>5, <2>1
<1>7. \A i \in 1 .. k : wire[i][1].id < req.id
  BY <1>1 DEF WireInv, NewestPending, CallOf
<1> HIDE DEF k
<1>8. WholeFrames'
  <2>1. ASSUME NEW i \in 1 .. k + 1
        PROVE  \E f \in [id : 1 .. req.id, len : Lens] : wire'[i] = Wire!Image(f)
    <3>1. CASE i = k + 1
      BY <1>2, <1>5, <3>1
    <3>2. CASE i # k + 1
      <4>1. i \in 1 .. k
        BY <1>4, <3>2
      <4> QED BY <1>5, <4>1 DEF WireInv, WholeFrames, k
    <3> QED BY <3>1, <3>2
  <2> QED BY <1>1, <1>5, <2>1 DEF WholeFrames
<1>9. CallOrder'
  <2>1. ASSUME NEW i \in 1 .. k + 1, NEW j \in 1 .. k + 1, i < j
        PROVE  wire'[i][1].id < wire'[j][1].id
    <3>1. i \in 1 .. k
      BY <1>4, <2>1
    <3>2. CASE j = k + 1
      BY <1>6, <1>7, <3>1, <3>2
    <3>3. CASE j # k + 1
      <4>1. j \in 1 .. k
        BY <1>4, <3>3
      <4> QED BY <1>6, <2>1, <3>1, <4>1 DEF WireInv, CallOrder, CallOf, k
    <3> QED BY <3>2, <3>3
  <2> QED BY <1>5, <2>1 DEF CallOrder, CallOf
<1> QED BY <1>1, <1>8, <1>9 DEF WireInv, NewestPending

\* No other step changes what has been carried or may still be.
LEMMA OthersWire ==
  ASSUME TxInv, WireInv, UNCHANGED vars \/ SendPacket \/ SendByte \/ Tick
  PROVE  WireInv'
<1>1. req' = req /\ wire' = wire
  BY DEF SendPacket, SetPointers, WriteFrame, WriteEnd, Trigger, StartClock,
         PollTxrts, CheckClock, SendByte, Tick, vars, ctlVars
<1>2. Pending' => Pending
  <2>1. CASE Trigger
    BY <2>1 DEF Trigger, Pending
  <2>2. CASE SetPointers \/ WriteFrame \/ WriteEnd
    BY <2>2 DEF SetPointers, WriteFrame, WriteEnd, Pending
  <2>3. CASE StartClock \/ PollTxrts \/ CheckClock
    BY <2>3 DEF StartClock, PollTxrts, CheckClock, Pending, ctlVars
  <2>4. CASE SendByte \/ Tick \/ UNCHANGED vars
    BY <2>4 DEF SendByte, Tick, vars, ctlVars, Pending
  <2> QED BY <2>1, <2>2, <2>3, <2>4 DEF SendPacket
<1> QED BY <1>1, <1>2 DEF WireInv, WholeFrames, CallOrder, NewestPending, CallOf

(***************************************************************************)
(* However late the transmitter is and whenever a call gave up, the wire   *)
(* carries whole frames, in the order of the calls, each at most once; a   *)
(* frame given up may still go out, but never after a newer one (lines     *)
(* 334-335 and 364-370).                                                   *)
(***************************************************************************)
THEOREM WireInOrder == Spec => [](WholeFrames /\ CallOrder)
<1>1. Init => WireInv
  <2> SUFFICES ASSUME Init PROVE WireInv
    OBVIOUS
  <2>1. Len(wire) = 0 /\ 1 .. Len(wire) = {}
    BY DEF Init
  <2> QED BY <2>1 DEF WireInv, WholeFrames, CallOrder, NewestPending
<1>2. TxInv /\ WireInv /\ [Next]_vars => WireInv'
  BY CancelWire, FinishWire, OthersWire DEF Next
<1>3. WireInv => WholeFrames /\ CallOrder
  BY DEF WireInv
<1> QED BY <1>1, <1>2, <1>3, TxInvariant, PTL DEF Spec

-----------------------------------------------------------------------------
(***************************************************************************)
(* The functions of the driver are programs on the registers.  A view      *)
(* is what decides whether an access is right; After says how a            *)
(* transaction changes it, and Leads(q, a, b) that the program q, started  *)
(* in view a, does every access rightly and ends in b.  Programs compose   *)
(* (LeadsOn), and so do the proofs about them.                             *)
(***************************************************************************)

Kinds     == {"WCR", "RCR", "BFS", "BFC", "SRC", "clock", "await", "poll"}
Registers == Common \cup UNION {InBank[b] : b \in 1 .. 4}
Bits      == {"BSEL0", "BSEL1", "RXEN", "TXRTS", "PKTDEC", "MIIRD"}

Transaction == [kind : Kinds, reg : Registers, bits : SUBSET Bits]

\* What decides whether an access is right: the bits of ECON1 that the
\* controller does not clear by itself, and the configuration so far.
View == [on : SUBSET (BSEL \cup {"RXEN"}), conf : SUBSET RxConfig]

Look == [on |-> econ1 \ {"TXRTS"}, conf |-> written \cap RxConfig]

\* Register r has its address in the bank these bits select, or in every bank.
Lives(r, bank) ==
  \/ r \in Common
  \/ \E b \in 1 .. 4 : BankBits[b] = bank /\ r \in InBank[b]

\* A transaction is in place: its register can be reached, and what it does
\* there is allowed in that state of the receiver.
Allowed(op, s) ==
  /\ Lives(op.reg, s.on \cap BSEL)
  /\ op.reg \in RxConfig => "RXEN" \notin s.on
  /\ op.reg = "MISTAT" => op.kind = "poll"
  /\ op.kind = "WCR" => op.reg \notin Common
  /\ op.kind \in {"BFS", "BFC"} /\ op.reg = "ECON1" =>
       op.bits \subseteq BSEL \/ op.bits = {"RXEN"} \/ op.bits = {"TXRTS"}
  /\ op.kind = "BFS" /\ op.reg = "ECON1" /\ "RXEN" \in op.bits =>
       RxConfig \subseteq s.conf

\* What it makes of the view.
After(op, s) ==
  CASE op.kind = "SRC" -> [on |-> {}, conf |-> {}]
    [] op.kind = "WCR" -> [s EXCEPT !.conf = @ \cup ({op.reg} \cap RxConfig)]
    [] op.kind = "BFS" /\ op.reg = "ECON1" ->
         [s EXCEPT !.on = @ \cup (op.bits \ {"TXRTS"})]
    [] op.kind = "BFC" /\ op.reg = "ECON1" ->
         [s EXCEPT !.on = @ \ op.bits]
    [] OTHER -> s

\* From view a every transaction of q is in place, and the last leaves b.
Leads(q, a, b) ==
  /\ q \in Seq(Transaction)
  /\ \E f \in [1 .. Len(q) + 1 -> View] :
       /\ f[1] = a
       /\ f[Len(q) + 1] = b
       /\ \A i \in 1 .. Len(q) : Allowed(q[i], f[i]) /\ f[i + 1] = After(q[i], f[i])

\* A transaction and its parts.
LEMMA OpFacts ==
  ASSUME NEW kind \in Kinds, NEW r \in Registers, NEW bits \in SUBSET Bits
  PROVE  /\ Op(kind, r, bits) \in Transaction
         /\ Op(kind, r, bits).kind = kind
         /\ Op(kind, r, bits).reg = r
         /\ Op(kind, r, bits).bits = bits
  BY DEF Op, Transaction

\* A view stays one.
LEMMA AfterView ==
  ASSUME NEW s \in View, NEW op \in Transaction, Allowed(op, s)
  PROVE  After(op, s) \in View
<1> DEFINE on == s.on
           conf == s.conf
<1>1. /\ s = [on |-> s.on, conf |-> s.conf]
      /\ s.on \subseteq BSEL \cup {"RXEN"} /\ s.conf \subseteq RxConfig
  BY DEF View
<1>2. CASE op.kind = "SRC"
  BY <1>2 DEF After, View
<1>3. CASE op.kind = "WCR"
  BY <1>1, <1>3 DEF After, View
<1>4. CASE op.kind = "BFS" /\ op.reg = "ECON1"
  <2>1. op.bits \ {"TXRTS"} \subseteq BSEL \cup {"RXEN"}
    BY <1>4 DEF Allowed
  <2> QED BY <1>1, <1>4, <2>1 DEF After, View
<1>5. CASE op.kind = "BFC" /\ op.reg = "ECON1"
  BY <1>1, <1>5 DEF After, View
<1>6. CASE /\ op.kind \notin {"SRC", "WCR"}
           /\ ~(op.kind \in {"BFS", "BFC"} /\ op.reg = "ECON1")
  BY <1>6 DEF After
<1> QED BY <1>2, <1>3, <1>4, <1>5, <1>6

\* A call that is over.
LEMMA LeadsNowhere ==
  ASSUME NEW a \in View PROVE Leads(<<>>, a, a)
<1> DEFINE q == <<>>
           f == [i \in 1 .. 1 |-> a]
<1>1. q \in Seq(Transaction) /\ Len(q) = 0
  OBVIOUS
<1>2. f \in [1 .. 1 -> View] /\ f[1] = a
  OBVIOUS
<1> HIDE DEF q, f
<1>3. Len(q) + 1 = 1 /\ 1 .. Len(q) = {}
  BY <1>1
<1>4. Leads(q, a, a)
  BY <1>1, <1>2, <1>3 DEF Leads
<1> QED BY <1>4 DEF q

\* One transaction.
LEMMA LeadsOne ==
  ASSUME NEW a \in View, NEW op \in Transaction, Allowed(op, a)
  PROVE  Leads(<<op>>, a, After(op, a))
<1> DEFINE q == <<op>>
           f == [i \in 1 .. 2 |-> IF i = 1 THEN a ELSE After(op, a)]
<1>1. q \in Seq(Transaction) /\ Len(q) = 1 /\ q[1] = op
  OBVIOUS
<1>2. f \in [1 .. 2 -> View] /\ f[1] = a /\ f[2] = After(op, a)
  BY AfterView
<1> HIDE DEF q, f
<1>3. Leads(q, a, After(op, a))
  <2>1. \A i \in 1 .. Len(q) : Allowed(q[i], f[i]) /\ f[i + 1] = After(q[i], f[i])
    BY <1>1, <1>2
  <2> QED BY <1>1, <1>2, <2>1 DEF Leads
<1> QED BY <1>3 DEF q

\* One part after the other.
LEMMA LeadsOn ==
  ASSUME NEW p, NEW q, NEW a, NEW b, NEW c, Leads(p, a, b), Leads(q, b, c)
  PROVE  Leads(p \o q, a, c)
<1>1. PICK f \in [1 .. Len(p) + 1 -> View] :
        /\ f[1] = a /\ f[Len(p) + 1] = b
        /\ \A i \in 1 .. Len(p) : Allowed(p[i], f[i]) /\ f[i + 1] = After(p[i], f[i])
  BY DEF Leads
<1>2. PICK g \in [1 .. Len(q) + 1 -> View] :
        /\ g[1] = b /\ g[Len(q) + 1] = c
        /\ \A i \in 1 .. Len(q) : Allowed(q[i], g[i]) /\ g[i + 1] = After(q[i], g[i])
  BY DEF Leads
<1>3. p \in Seq(Transaction) /\ q \in Seq(Transaction)
  BY DEF Leads
<1>4. /\ p \o q \in Seq(Transaction)
      /\ Len(p \o q) = Len(p) + Len(q)
      /\ \A i \in 1 .. Len(p) + Len(q) :
           (p \o q)[i] = IF i <= Len(p) THEN p[i] ELSE q[i - Len(p)]
  BY <1>3, ConcatProperties
<1> DEFINE m == Len(p)
           n == Len(q)
           r == p \o q
           h == [i \in 1 .. m + n + 1 |-> IF i <= m THEN f[i] ELSE g[i - m]]
<1>5. m \in Nat /\ n \in Nat
  BY <1>3
<1> HIDE DEF m, n, r
<1>6. h \in [1 .. m + n + 1 -> View]
  <2>1. SUFFICES ASSUME NEW i \in 1 .. m + n + 1
                 PROVE  (IF i <= m THEN f[i] ELSE g[i - m]) \in View
    OBVIOUS
  <2>2. CASE i <= m
    BY <1>1, <1>5, <2>2 DEF m
  <2>3. CASE ~(i <= m)
    <3>1. i - m \in 1 .. n + 1
      BY <1>5, <2>3
    <3> QED BY <1>2, <2>3, <3>1 DEF n
  <2> QED BY <2>2, <2>3
<1>7. h[1] = a
  <2>1. CASE m = 0
    BY <1>1, <1>2, <1>5, <2>1 DEF m
  <2>2. CASE m # 0
    BY <1>1, <1>5, <2>2
  <2> QED BY <2>1, <2>2
<1>8. h[m + n + 1] = c
  <2>1. ~(m + n + 1 <= m) /\ (m + n + 1) - m = n + 1 /\ m + n + 1 \in 1 .. m + n + 1
    BY <1>5
  <2> QED BY <1>2, <2>1 DEF n
<1>9. ASSUME NEW i \in 1 .. m + n
      PROVE  Allowed(r[i], h[i]) /\ h[i + 1] = After(r[i], h[i])
  <2>0. i \in 1 .. m + n + 1 /\ i + 1 \in 1 .. m + n + 1
    BY <1>5
  <2>1. CASE i < m
    <3>1. r[i] = p[i] /\ h[i] = f[i] /\ h[i + 1] = f[i + 1] /\ i \in 1 .. m
      BY <1>4, <1>5, <2>0, <2>1 DEF m, n, r
    <3> QED BY <1>1, <3>1 DEF m
  <2>2. CASE i = m
    <3>1. r[i] = p[i] /\ h[i] = f[i] /\ h[i + 1] = g[1] /\ i \in 1 .. m
      BY <1>4, <1>5, <2>0, <2>2 DEF m, n, r
    <3>2. f[i + 1] = g[1]
      BY <1>1, <1>2, <2>2 DEF m
    <3> QED BY <1>1, <3>1, <3>2 DEF m
  <2>3. CASE i > m
    <3>1. r[i] = q[i - m] /\ h[i] = g[i - m] /\ h[i + 1] = g[(i + 1) - m] /\ i - m \in 1 .. n
      BY <1>4, <1>5, <2>0, <2>3 DEF m, n, r
    <3>2. (i + 1) - m = (i - m) + 1
      BY <1>5
    <3> QED BY <1>2, <3>1, <3>2 DEF n
  <2> QED BY <1>5, <2>1, <2>2, <2>3
<1> HIDE DEF h
<1> QED BY <1>4, <1>6, <1>7, <1>8, <1>9 DEF Leads, m, n, r

\* The rest of a call is in place, too.
LEMMA LeadsTail ==
  ASSUME NEW q, NEW a, NEW b, Leads(q, a, b), q # <<>>
  PROVE  /\ Head(q) \in Transaction
         /\ Allowed(Head(q), a)
         /\ Leads(Tail(q), After(Head(q), a), b)
         /\ Len(Tail(q)) = Len(q) - 1
<1>1. PICK f \in [1 .. Len(q) + 1 -> View] :
        /\ f[1] = a /\ f[Len(q) + 1] = b
        /\ \A i \in 1 .. Len(q) : Allowed(q[i], f[i]) /\ f[i + 1] = After(q[i], f[i])
  BY DEF Leads
<1>2. q \in Seq(Transaction)
  BY DEF Leads
<1>3. /\ Head(q) \in Transaction /\ Head(q) = q[1]
      /\ Tail(q) \in Seq(Transaction)
      /\ Len(Tail(q)) = Len(q) - 1
      /\ \A i \in 1 .. Len(Tail(q)) : Tail(q)[i] = q[i + 1]
  BY <1>2, HeadTailProperties
<1> DEFINE n == Len(q)
           r == Tail(q)
           g == [i \in 1 .. n |-> f[i + 1]]
<1>4. n \in Nat /\ n >= 1 /\ Len(r) = n - 1
  BY <1>2, <1>3
<1> HIDE DEF n, r
<1>5. g \in [1 .. Len(r) + 1 -> View]
  <2>1. \A i \in 1 .. n : i + 1 \in 1 .. n + 1
    BY <1>4
  <2>2. Len(r) + 1 = n
    BY <1>4
  <2> QED BY <1>1, <2>1, <2>2 DEF n
<1>6. /\ g[1] = f[2] /\ g[n] = f[n + 1]
      /\ \A i \in 1 .. n - 1 : g[i] = f[i + 1] /\ g[i + 1] = f[(i + 1) + 1]
  BY <1>4
<1> HIDE DEF g
<1>7. Allowed(q[1], f[1]) /\ f[2] = After(q[1], f[1])
  <2>1. 1 \in 1 .. Len(q) /\ 1 + 1 = 2
    BY <1>4 DEF n
  <2> QED BY <1>1, <2>1
<1>8. \A i \in 1 .. Len(r) : Allowed(r[i], g[i]) /\ g[i + 1] = After(r[i], g[i])
  <2>1. SUFFICES ASSUME NEW i \in 1 .. n - 1
                 PROVE  Allowed(r[i], g[i]) /\ g[i + 1] = After(r[i], g[i])
    BY <1>4
  <2>2. i + 1 \in 1 .. Len(q)
    BY <1>4 DEF n
  <2>3. r[i] = q[i + 1]
    BY <1>3, <1>4 DEF r
  <2> QED BY <1>1, <1>6, <2>2, <2>3
<1>9. g[1] = After(Head(q), a) /\ g[Len(r) + 1] = b
  <2>1. Len(r) + 1 = n
    BY <1>4
  <2> QED BY <1>1, <1>3, <1>6, <1>7, <2>1 DEF n
<1>10. Leads(r, After(Head(q), a), b)
  BY <1>3, <1>5, <1>8, <1>9 DEF Leads, r
<1> QED BY <1>1, <1>3, <1>7, <1>10 DEF r

-----------------------------------------------------------------------------
(* The functions of the driver, part by part.                              *)

\* Bank b is selected, the receiver is on or off, and so much is configured.
At(b, rx, c) == [on |-> rx \cup BankBits[b + 1], conf |-> c]

RxEn == SUBSET {"RXEN"}

\* A bank number stands for bits of BSEL.
LEMMA BankFacts ==
  /\ BSEL = {"BSEL0", "BSEL1"}
  /\ \A b \in 0 .. 3 : b + 1 \in 1 .. 4 /\ BankBits[b + 1] \subseteq BSEL
  /\ \A bank \in SUBSET BSEL : \E b \in 1 .. 4 : BankBits[b] = bank
<1>1. /\ BankBits[1] = {} /\ BankBits[2] = {"BSEL0"}
      /\ BankBits[3] = {"BSEL1"} /\ BankBits[4] = {"BSEL0", "BSEL1"}
  BY DEF BankBits
<1>2. BSEL = {"BSEL0", "BSEL1"}
  BY <1>1 DEF BSEL
<1>3. ASSUME NEW b \in 0 .. 3
      PROVE  b + 1 \in 1 .. 4 /\ BankBits[b + 1] \subseteq BSEL
  <2>1. b = 0 \/ b = 1 \/ b = 2 \/ b = 3
    OBVIOUS
  <2> QED BY <1>1, <1>2, <2>1
<1>4. ASSUME NEW bank \in SUBSET BSEL
      PROVE  \E b \in 1 .. 4 : BankBits[b] = bank
  <2>1. \/ bank = {} \/ bank = {"BSEL0"} \/ bank = {"BSEL1"} \/ bank = {"BSEL0", "BSEL1"}
    BY <1>2
  <2>2. 1 \in 1 .. 4 /\ 2 \in 1 .. 4 /\ 3 \in 1 .. 4 /\ 4 \in 1 .. 4
    OBVIOUS
  <2> QED BY <1>1, <2>1, <2>2
<1> QED BY <1>2, <1>3, <1>4

\* In bank b its registers live, and those of every bank.
LEMMA AtFacts ==
  ASSUME NEW b \in 0 .. 3, NEW rx \in RxEn, NEW c \in SUBSET RxConfig
  PROVE  /\ At(b, rx, c) \in View
         /\ At(b, rx, c).on \cap {"RXEN"} = rx
         /\ At(b, rx, c).conf = c
         /\ \A r \in Common \cup InBank[b + 1] :
              Lives(r, At(b, rx, c).on \cap BSEL)
<1>1. /\ BSEL = {"BSEL0", "BSEL1"} /\ b + 1 \in 1 .. 4
      /\ BankBits[b + 1] \subseteq BSEL
  BY BankFacts
<1>2. /\ At(b, rx, c).on = rx \cup BankBits[b + 1] /\ At(b, rx, c).conf = c
      /\ At(b, rx, c) = [on |-> rx \cup BankBits[b + 1], conf |-> c]
  BY DEF At
<1>3. rx \cup BankBits[b + 1] \subseteq BSEL \cup {"RXEN"}
  BY <1>1 DEF RxEn
<1>4. (rx \cup BankBits[b + 1]) \cap BSEL = BankBits[b + 1]
  BY <1>1 DEF RxEn
<1>5. (rx \cup BankBits[b + 1]) \cap {"RXEN"} = rx
  BY <1>1 DEF RxEn
<1>6. At(b, rx, c) \in View
  BY <1>2, <1>3 DEF View
<1>7. \A r \in Common \cup InBank[b + 1] :
        Lives(r, At(b, rx, c).on \cap BSEL)
  BY <1>1, <1>2, <1>4 DEF Lives
<1> QED BY <1>2, <1>5, <1>6, <1>7

\* Reads, waits and the clock change nothing of the view.
LEMMA LeadsStay ==
  ASSUME NEW s \in View, NEW kind \in {"RCR", "clock", "await", "poll"},
         NEW r \in Registers,
         Lives(r, s.on \cap BSEL), r \notin RxConfig,
         r = "MISTAT" => kind = "poll"
  PROVE  Leads(<< Op(kind, r, {}) >>, s, s)
<1> DEFINE op == Op(kind, r, {})
<1>1. op \in Transaction /\ op.kind = kind /\ op.reg = r /\ op.bits = {}
  BY OpFacts DEF Kinds, Registers, Bits, Common
<1> HIDE DEF op
<1>2. Allowed(op, s) /\ After(op, s) = s
  BY <1>1 DEF Allowed, After
<1>3. Leads(<<op>>, s, s)
  BY <1>1, <1>2, LeadsOne
<1> QED BY <1>3 DEF op

\* Bits of another register than ECON1.
LEMMA LeadsOther ==
  ASSUME NEW s \in View
  PROVE  Leads(Set("ECON2", {"PKTDEC"}), s, s)
<1> DEFINE op == Op("BFS", "ECON2", {"PKTDEC"})
<1>1. /\ op \in Transaction /\ op.kind = "BFS" /\ op.reg = "ECON2"
      /\ op.bits = {"PKTDEC"}
  BY OpFacts DEF Kinds, Registers, Bits, Common
<1> HIDE DEF op
<1>2. Allowed(op, s) /\ After(op, s) = s
  BY <1>1 DEF Allowed, After, Lives, Common, RxConfig
<1>3. Leads(<<op>>, s, s)
  BY <1>1, <1>2, LeadsOne
<1> QED BY <1>3 DEF op, Set

\* The bit the controller clears is not part of the view.
LEMMA LeadsTxrts ==
  ASSUME NEW s \in View
  PROVE  /\ Leads(Set("ECON1", {"TXRTS"}), s, s)
         /\ Leads(Clear("ECON1", {"TXRTS"}), s, s)
<1>0. /\ s = [on |-> s.on, conf |-> s.conf]
      /\ "TXRTS" \notin s.on
  BY BankFacts DEF View
<1>1. ASSUME NEW kind \in {"BFS", "BFC"}
      PROVE  Leads(<< Op(kind, "ECON1", {"TXRTS"}) >>, s, s)
  <2> DEFINE op == Op(kind, "ECON1", {"TXRTS"})
  <2>1. /\ op \in Transaction /\ op.kind = kind /\ op.reg = "ECON1"
        /\ op.bits = {"TXRTS"}
    BY OpFacts DEF Kinds, Registers, Bits, Common
  <2> HIDE DEF op
  <2>2. Allowed(op, s)
    BY <2>1 DEF Allowed, Lives, Common, RxConfig
  <2>3. s.on \cup (op.bits \ {"TXRTS"}) = s.on /\ s.on \ op.bits = s.on
    BY <1>0, <2>1
  <2>4. After(op, s) = s
    BY <1>0, <2>1, <2>3 DEF After
  <2>5. Leads(<<op>>, s, s)
    BY <2>1, <2>2, <2>4, LeadsOne
  <2> QED BY <2>5 DEF op
<1> QED BY <1>1 DEF Set, Clear

\* SetBank, from whatever bank.
LEMMA LeadsSetBank ==
  ASSUME NEW s \in View, NEW b \in 0 .. 3
  PROVE  Leads(SetBank(b), s, At(b, s.on \cap {"RXEN"}, s.conf))
<1>1. /\ BSEL = {"BSEL0", "BSEL1"}
      /\ BankBits[b + 1] \subseteq BSEL
  BY BankFacts
<1>2. /\ s = [on |-> s.on, conf |-> s.conf]
      /\ s.on \subseteq BSEL \cup {"RXEN"} /\ s.conf \subseteq RxConfig
  BY DEF View
<1> DEFINE m == [on |-> s.on \cap {"RXEN"}, conf |-> s.conf]
           clear == Op("BFC", "ECON1", BSEL)
           set   == Op("BFS", "ECON1", BankBits[b + 1])
<1>3. m \in View /\ m.on = s.on \cap {"RXEN"} /\ m.conf = s.conf
  BY <1>2 DEF View
<1>4. /\ clear \in Transaction /\ clear.kind = "BFC" /\ clear.reg = "ECON1"
      /\ clear.bits = BSEL
  BY <1>1, OpFacts DEF Kinds, Registers, Bits, Common
<1>5. /\ set \in Transaction /\ set.kind = "BFS" /\ set.reg = "ECON1"
      /\ set.bits = BankBits[b + 1]
  BY <1>1, OpFacts DEF Kinds, Registers, Bits, Common
<1> HIDE DEF clear, set
<1>6. Leads(<<clear>>, s, m)
  <2>1. Allowed(clear, s)
    BY <1>4 DEF Allowed, Lives, Common, RxConfig
  <2>2. s.on \ clear.bits = s.on \cap {"RXEN"}
    BY <1>1, <1>2, <1>4
  <2>3. After(clear, s) = m
    BY <1>2, <1>4, <2>2 DEF After
  <2> QED BY <1>4, <2>1, <2>3, LeadsOne
<1>7. Leads(<<set>>, m, At(b, s.on \cap {"RXEN"}, s.conf))
  <2>1. "RXEN" \notin set.bits /\ "TXRTS" \notin set.bits
    BY <1>1, <1>5
  <2>2. Allowed(set, m)
    BY <1>1, <1>5, <2>1 DEF Allowed, Lives, Common, RxConfig
  <2>3. m.on \cup (set.bits \ {"TXRTS"}) = (s.on \cap {"RXEN"}) \cup BankBits[b + 1]
    BY <1>3, <1>5, <2>1
  <2>4. After(set, m) = At(b, s.on \cap {"RXEN"}, s.conf)
    BY <1>3, <1>5, <2>3 DEF After, At
  <2> QED BY <1>3, <1>5, <2>2, <2>4, LeadsOne
<1> HIDE DEF m
<1>8. Leads(<<clear>> \o <<set>>, s, At(b, s.on \cap {"RXEN"}, s.conf))
  BY <1>6, <1>7, LeadsOn
<1> QED BY <1>8 DEF SetBank, Set, Clear, clear, set

\* From bank to bank.
LEMMA LeadsBank ==
  ASSUME NEW a \in 0 .. 3, NEW b \in 0 .. 3, NEW rx \in RxEn,
         NEW c \in SUBSET RxConfig
  PROVE  Leads(SetBank(b), At(a, rx, c), At(b, rx, c))
<1>1. /\ At(a, rx, c) \in View /\ At(a, rx, c).on \cap {"RXEN"} = rx
      /\ At(a, rx, c).conf = c
  BY AtFacts
<1>2. Leads(SetBank(b), At(a, rx, c),
            At(b, At(a, rx, c).on \cap {"RXEN"}, At(a, rx, c).conf))
  BY <1>1, LeadsSetBank
<1> QED BY <1>1, <1>2

\* A write to a register of the bank.
LEMMA LeadsWrite ==
  ASSUME NEW b \in 0 .. 3, NEW rx \in RxEn, NEW c \in SUBSET RxConfig,
         NEW r \in Registers, NEW bits \in SUBSET Bits,
         r \in InBank[b + 1], r \notin Common, r # "MISTAT",
         r \in RxConfig => rx = {}
  PROVE  Leads(<< Op("WCR", r, bits) >>, At(b, rx, c),
               At(b, rx, c \cup ({r} \cap RxConfig)))
<1> DEFINE op == Op("WCR", r, bits)
           s  == At(b, rx, c)
<1>1. op \in Transaction /\ op.kind = "WCR" /\ op.reg = r
  BY OpFacts DEF Kinds, Registers, Bits, Common
<1>2. /\ s \in View /\ s.on \cap {"RXEN"} = rx /\ s.conf = c
      /\ Lives(r, s.on \cap BSEL)
  BY AtFacts
<1>3. After(op, s) = At(b, rx, c \cup ({r} \cap RxConfig))
  BY <1>1 DEF After, At
<1> HIDE DEF op, s
<1>4. Allowed(op, s)
  BY <1>1, <1>2 DEF Allowed
<1>5. Leads(<<op>>, s, At(b, rx, c \cup ({r} \cap RxConfig)))
  BY <1>1, <1>2, <1>3, <1>4, LeadsOne
<1> QED BY <1>5 DEF op, s

\* A write to a register that is not part of the receiver's configuration.
LEMMA LeadsPlain ==
  ASSUME NEW b \in 0 .. 3, NEW rx \in RxEn, NEW c \in SUBSET RxConfig,
         NEW r \in Registers, NEW bits \in SUBSET Bits,
         r \in InBank[b + 1], r \notin Common, r # "MISTAT",
         r \notin RxConfig
  PROVE  Leads(<< Op("WCR", r, bits) >>, At(b, rx, c), At(b, rx, c))
<1>1. c \cup ({r} \cap RxConfig) = c
  OBVIOUS
<1> QED BY <1>1, LeadsWrite


\* The registers by name.
LEMMA RegisterFacts ==
  /\ InBank[1] = {"ERDPT", "EWRPT", "ETXST", "ETXND", "ERXST", "ERXND", "ERXRDPT"}
  /\ InBank[2] = {"ERXFCON", "EPKTCNT"}
  /\ InBank[3] = {"MACON1", "MACON3", "MACON4", "MAMXFL", "MICMD", "MIREGADR",
                       "MIWR", "MIRD"}
  /\ InBank[4] = {"MAADR", "MISTAT"}
  /\ Registers = Common \cup InBank[1] \cup InBank[2]
                 \cup InBank[3] \cup InBank[4]
<1>1. /\ InBank[1] = {"ERDPT", "EWRPT", "ETXST", "ETXND", "ERXST", "ERXND", "ERXRDPT"}
      /\ InBank[2] = {"ERXFCON", "EPKTCNT"}
      /\ InBank[3] = {"MACON1", "MACON3", "MACON4", "MAMXFL", "MICMD", "MIREGADR",
                           "MIWR", "MIRD"}
      /\ InBank[4] = {"MAADR", "MISTAT"}
  BY DEF InBank
<1>2. UNION {InBank[b] : b \in 1 .. 4} =
        InBank[1] \cup InBank[2] \cup InBank[3] \cup InBank[4]
  <2>1. 1 .. 4 = {1, 2, 3, 4}
    OBVIOUS
  <2> QED BY <2>1
<1> QED BY <1>1, <1>2 DEF Registers

\* The accesses of the driver's functions after its start-up, in their banks.
LEMMA LeadsAccesses ==
  ASSUME NEW rx \in RxEn, NEW c \in SUBSET RxConfig
  PROVE  /\ \A r \in {"ERDPT", "ERXRDPT", "ETXST", "EWRPT", "ETXND"} :
              Leads(WriteReg(r), At(0, rx, c), At(0, rx, c))
         /\ \A r \in {"MIREGADR", "MIWR", "MICMD"} :
              Leads(WriteReg(r), At(2, rx, c), At(2, rx, c))
         /\ Leads(StartMii, At(2, rx, c), At(2, rx, c))
         /\ Leads(ReadReg("EPKTCNT"), At(1, rx, c), At(1, rx, c))
         /\ Leads(ReadReg("MIRD"), At(2, rx, c), At(2, rx, c))
         /\ Leads(Poll("MISTAT"), At(3, rx, c), At(3, rx, c))
         /\ Leads(Poll("ECON1"), At(0, rx, c), At(0, rx, c))
         /\ \A b \in 0 .. 3 : Leads(ReadClock, At(b, rx, c), At(b, rx, c))
<1>1. ASSUME NEW r \in {"ERDPT", "ERXRDPT", "ETXST", "EWRPT", "ETXND"}
      PROVE  Leads(WriteReg(r), At(0, rx, c), At(0, rx, c))
  <2>1. /\ r \in Registers /\ r \in InBank[0 + 1] /\ r \notin Common
        /\ r # "MISTAT" /\ r \notin RxConfig
    BY RegisterFacts DEF Common, RxConfig
  <2> QED BY <2>1, LeadsPlain DEF WriteReg
<1>2. ASSUME NEW r \in {"MIREGADR", "MIWR", "MICMD"}, NEW bits \in SUBSET Bits
      PROVE  Leads(<< Op("WCR", r, bits) >>, At(2, rx, c), At(2, rx, c))
  <2>1. /\ r \in Registers /\ r \in InBank[2 + 1] /\ r \notin Common
        /\ r # "MISTAT" /\ r \notin RxConfig
    BY RegisterFacts DEF Common, RxConfig
  <2> QED BY <2>1, LeadsPlain
<1>3. {} \in SUBSET Bits /\ {"MIIRD"} \in SUBSET Bits
  BY DEF Bits
<1>4. ASSUME NEW b \in 0 .. 3, NEW kind \in {"RCR", "clock", "await", "poll"},
             NEW r \in Common \cup InBank[b + 1],
             r \in Registers, r \notin RxConfig,
             r = "MISTAT" => kind = "poll"
      PROVE  Leads(<< Op(kind, r, {}) >>, At(b, rx, c), At(b, rx, c))
  <2>1. At(b, rx, c) \in View /\ Lives(r, At(b, rx, c).on \cap BSEL)
    BY AtFacts
  <2> QED BY <1>4, <2>1, LeadsStay
<1>5. Leads(ReadReg("EPKTCNT"), At(1, rx, c), At(1, rx, c))
  <2>1. /\ "EPKTCNT" \in InBank[1 + 1] /\ "EPKTCNT" \in Registers
        /\ "EPKTCNT" \notin RxConfig
    BY RegisterFacts DEF RxConfig
  <2> QED BY <1>4, <2>1 DEF ReadReg
<1>6. Leads(ReadReg("MIRD"), At(2, rx, c), At(2, rx, c))
  <2>1. /\ "MIRD" \in InBank[2 + 1] /\ "MIRD" \in Registers
        /\ "MIRD" \notin RxConfig
    BY RegisterFacts DEF RxConfig
  <2> QED BY <1>4, <2>1 DEF ReadReg
<1>7. Leads(Poll("MISTAT"), At(3, rx, c), At(3, rx, c))
  <2>1. /\ "MISTAT" \in InBank[3 + 1] /\ "MISTAT" \in Registers
        /\ "MISTAT" \notin RxConfig
    BY RegisterFacts DEF RxConfig
  <2> QED BY <1>4, <2>1 DEF Poll
<1>8. /\ "ECON1" \in Common /\ "ESTAT" \in Common
      /\ "ECON1" \in Registers /\ "ESTAT" \in Registers
      /\ "ECON1" \notin RxConfig /\ "ESTAT" \notin RxConfig
  BY RegisterFacts DEF Common, RxConfig
<1>9. Leads(Poll("ECON1"), At(0, rx, c), At(0, rx, c))
  BY <1>4, <1>8 DEF Poll
<1>10. \A b \in 0 .. 3 : Leads(ReadClock, At(b, rx, c), At(b, rx, c))
  BY <1>4, <1>8 DEF ReadClock
<1> QED BY <1>1, <1>2, <1>3, <1>5, <1>6, <1>7, <1>9, <1>10
        DEF WriteReg, StartMii

\* WritePHY.
LEMMA LeadsWritePHY ==
  ASSUME NEW s \in View
  PROVE  Leads(WritePHY, s, At(3, s.on \cap {"RXEN"}, s.conf))
<1> DEFINE rx == s.on \cap {"RXEN"}
           c  == s.conf
<1>1. rx \in RxEn /\ c \in SUBSET RxConfig
  BY DEF RxEn, View
<1>2. Leads(SetBank(2), s, At(2, rx, c))
  BY LeadsSetBank
<1> HIDE DEF rx, c
<1>3. /\ Leads(WriteReg("MIREGADR"), At(2, rx, c), At(2, rx, c))
      /\ Leads(WriteReg("MIWR"), At(2, rx, c), At(2, rx, c))
      /\ Leads(ReadClock, At(3, rx, c), At(3, rx, c))
      /\ Leads(Poll("MISTAT"), At(3, rx, c), At(3, rx, c))
  BY <1>1, LeadsAccesses
<1>4. Leads(SetBank(3), At(2, rx, c), At(3, rx, c))
  BY <1>1, LeadsBank
<1>5. Leads(WritePHY, s, At(3, rx, c))
  BY <1>2, <1>3, <1>4, LeadsOn DEF WritePHY
<1> QED BY <1>5 DEF rx, c

\* ReadPHY.
LEMMA LeadsReadPHY ==
  ASSUME NEW s \in View
  PROVE  Leads(ReadPHY, s, At(2, s.on \cap {"RXEN"}, s.conf))
<1> DEFINE rx == s.on \cap {"RXEN"}
           c  == s.conf
<1>1. rx \in RxEn /\ c \in SUBSET RxConfig
  BY DEF RxEn, View
<1>2. Leads(SetBank(2), s, At(2, rx, c))
  BY LeadsSetBank
<1> HIDE DEF rx, c
<1>3. /\ Leads(WriteReg("MIREGADR"), At(2, rx, c), At(2, rx, c))
      /\ Leads(StartMii, At(2, rx, c), At(2, rx, c))
      /\ Leads(ReadClock, At(3, rx, c), At(3, rx, c))
      /\ Leads(Poll("MISTAT"), At(3, rx, c), At(3, rx, c))
      /\ Leads(WriteReg("MICMD"), At(2, rx, c), At(2, rx, c))
      /\ Leads(ReadReg("MIRD"), At(2, rx, c), At(2, rx, c))
  BY <1>1, LeadsAccesses
<1>4. /\ Leads(SetBank(3), At(2, rx, c), At(3, rx, c))
      /\ Leads(SetBank(2), At(3, rx, c), At(2, rx, c))
  BY <1>1, LeadsBank
<1>5. Leads(SetBank(2) \o WriteReg("MIREGADR") \o StartMii \o
            SetBank(3) \o ReadClock \o Poll("MISTAT"),
            s, At(3, rx, c))
  BY <1>2, <1>3, <1>4, LeadsOn
<1>6. Leads(ReadPHY, s, At(2, rx, c))
  BY <1>3, <1>4, <1>5, LeadsOn DEF ReadPHY
<1> QED BY <1>6 DEF rx, c

\* PacketReceive, when it does not return early.
LEMMA LeadsPacketReceive ==
  ASSUME NEW s \in View
  PROVE  Leads(PacketReceiveRegs, s, At(0, s.on \cap {"RXEN"}, s.conf))
<1> DEFINE rx == s.on \cap {"RXEN"}
           c  == s.conf
<1>1. rx \in RxEn /\ c \in SUBSET RxConfig
  BY DEF RxEn, View
<1>2. Leads(SetBank(1), s, At(1, rx, c))
  BY LeadsSetBank
<1> HIDE DEF rx, c
<1>0. At(0, rx, c) \in View
  <2>1. 0 \in 0 .. 3
    OBVIOUS
  <2> QED BY <1>1, <2>1, AtFacts
<1>3. /\ Leads(ReadReg("EPKTCNT"), At(1, rx, c), At(1, rx, c))
      /\ Leads(WriteReg("ERDPT"), At(0, rx, c), At(0, rx, c))
      /\ Leads(WriteReg("ERXRDPT"), At(0, rx, c), At(0, rx, c))
      /\ Leads(Set("ECON2", {"PKTDEC"}), At(0, rx, c), At(0, rx, c))
  BY <1>0, <1>1, LeadsAccesses, LeadsOther
<1>4. /\ Leads(SetBank(0), At(1, rx, c), At(0, rx, c))
      /\ Leads(SetBank(0), At(0, rx, c), At(0, rx, c))
  BY <1>1, LeadsBank
<1>5. Leads(SetBank(1) \o ReadReg("EPKTCNT") \o
            SetBank(0) \o WriteReg("ERDPT"), s, At(0, rx, c))
  BY <1>2, <1>3, <1>4, LeadsOn
<1>6. Leads(PacketReceiveRegs, s, At(0, rx, c))
  BY <1>3, <1>4, <1>5, LeadsOn DEF PacketReceiveRegs
<1> QED BY <1>6 DEF rx, c

\* SendPacket.
LEMMA LeadsSendPacket ==
  ASSUME NEW s \in View
  PROVE  Leads(SendPacketRegs, s, At(0, s.on \cap {"RXEN"}, s.conf))
<1> DEFINE rx == s.on \cap {"RXEN"}
           c  == s.conf
<1>1. rx \in RxEn /\ c \in SUBSET RxConfig
  BY DEF RxEn, View
<1>2. /\ Leads(Clear("ECON1", {"TXRTS"}), s, s)
      /\ Leads(SetBank(0), s, At(0, rx, c))
  BY LeadsSetBank, LeadsTxrts
<1> HIDE DEF rx, c
<1>0. At(0, rx, c) \in View
  <2>1. 0 \in 0 .. 3
    OBVIOUS
  <2> QED BY <1>1, <2>1, AtFacts
<1>3. /\ Leads(WriteReg("ETXST"), At(0, rx, c), At(0, rx, c))
      /\ Leads(WriteReg("EWRPT"), At(0, rx, c), At(0, rx, c))
      /\ Leads(WriteReg("ETXND"), At(0, rx, c), At(0, rx, c))
      /\ Leads(Set("ECON1", {"TXRTS"}), At(0, rx, c), At(0, rx, c))
      /\ Leads(ReadClock, At(0, rx, c), At(0, rx, c))
      /\ Leads(Poll("ECON1"), At(0, rx, c), At(0, rx, c))
  BY <1>0, <1>1, LeadsAccesses, LeadsTxrts
<1>4. Leads(SetBank(0), At(0, rx, c), At(0, rx, c))
  BY <1>1, LeadsBank
<1>5. Leads(Clear("ECON1", {"TXRTS"}) \o SetBank(0) \o
            WriteReg("ETXST") \o WriteReg("EWRPT") \o WriteReg("ETXND"),
            s, At(0, rx, c))
  BY <1>2, <1>3, LeadsOn
<1>6. Leads(SendPacketRegs, s, At(0, rx, c))
  BY <1>3, <1>4, <1>5, LeadsOn DEF SendPacketRegs
<1> QED BY <1>6 DEF rx, c

\* A write of the receiver's configuration, while it is off.
LEMMA LeadsConfigures ==
  ASSUME NEW b \in 0 .. 3, NEW c \in SUBSET RxConfig,
         NEW r \in RxConfig, r \in InBank[b + 1]
  PROVE  Leads(WriteReg(r), At(b, {}, c), At(b, {}, c \cup {r}))
<1>1. /\ r \in Registers /\ r \notin Common /\ r # "MISTAT"
      /\ {} \in RxEn /\ {} \in SUBSET Bits /\ {r} \cap RxConfig = {r}
  BY RegisterFacts DEF Common, RxConfig, RxEn
<1>2. Leads(<< Op("WCR", r, {}) >>, At(b, {}, c),
            At(b, {}, c \cup ({r} \cap RxConfig)))
  BY <1>1, LeadsWrite
<1> QED BY <1>1, <1>2 DEF WriteReg

\* The soft reset, in any state.
LEMMA LeadsReset ==
  ASSUME NEW s \in View
  PROVE  Leads(SoftReset, s, At(0, {}, {}))
<1> DEFINE op == Op("SRC", "ESTAT", {})
<1>1. op \in Transaction /\ op.kind = "SRC" /\ op.reg = "ESTAT"
  BY OpFacts DEF Kinds, Registers, Bits, Common
<1> HIDE DEF op
<1>2. Allowed(op, s)
  BY <1>1 DEF Allowed, Lives, Common, RxConfig
<1>3. After(op, s) = At(0, {}, {})
  <2>1. BankBits[0 + 1] = {}
    BY DEF BankBits
  <2> QED BY <1>1, <2>1 DEF After, At
<1>4. Leads(<<op>>, s, At(0, {}, {}))
  BY <1>1, <1>2, <1>3, LeadsOne
<1> QED BY <1>4 DEF op, SoftReset

\* Reception goes on when everything has been written.
LEMMA LeadsEnable ==
  Leads(Enable, At(0, {}, RxConfig), At(0, {"RXEN"}, RxConfig))
<1> DEFINE op == Op("BFS", "ECON1", {"RXEN"})
           s  == At(0, {}, RxConfig)
<1>1. /\ op \in Transaction /\ op.kind = "BFS" /\ op.reg = "ECON1"
      /\ op.bits = {"RXEN"}
  BY OpFacts DEF Kinds, Registers, Bits, Common
<1>2. s \in View /\ s.conf = RxConfig
  <2>1. /\ 0 \in 0 .. 3 /\ {} \in RxEn
        /\ RxConfig \in SUBSET RxConfig
    BY DEF RxEn
  <2> QED BY <2>1, AtFacts
<1>3. After(op, s) = At(0, {"RXEN"}, RxConfig)
  <2>1. s.on \cup ({"RXEN"} \ {"TXRTS"}) = {"RXEN"} \cup BankBits[0 + 1]
    BY DEF At
  <2> QED BY <1>1, <2>1 DEF After, At
<1> HIDE DEF op, s
<1>4. Allowed(op, s)
  BY <1>1, <1>2 DEF Allowed, Lives, Common, RxConfig
<1>5. Leads(<<op>>, s, At(0, {"RXEN"}, RxConfig))
  BY <1>1, <1>2, <1>3, <1>4, LeadsOne
<1> QED BY <1>5 DEF op, s, Enable, Set

\* ENC28J60_Init, in whatever state it finds the controller.
LEMMA LeadsSetup ==
  ASSUME NEW s \in View
  PROVE  Leads(Setup, s, At(0, {"RXEN"}, RxConfig))
<1> DEFINE c1 == {"ERXST"}
           c2 == {"ERXST", "ERXND"}
           c3 == {"ERXST", "ERXND", "MACON1"}
           c4 == {"ERXST", "ERXND", "MACON1", "MACON3"}
           c5 == {"ERXST", "ERXND", "MACON1", "MACON3", "MACON4"}
           c6 == {"ERXST", "ERXND", "MACON1", "MACON3", "MACON4", "MAMXFL"}
           c7 == {"ERXST", "ERXND", "MACON1", "MACON3", "MACON4", "MAMXFL", "MAADR"}
<1>1. /\ 0 \in 0 .. 3 /\ 1 \in 0 .. 3 /\ 2 \in 0 .. 3 /\ 3 \in 0 .. 3
      /\ {} \in RxEn /\ {} \in SUBSET RxConfig
      /\ c2 \in SUBSET RxConfig /\ c6 \in SUBSET RxConfig
      /\ c7 \in SUBSET RxConfig /\ RxConfig \in SUBSET RxConfig
  BY DEF RxEn, RxConfig
<1>2. Leads(Ring, At(0, {}, {}), At(0, {}, c2))
  <2>1. Leads(WriteReg("ERXST"), At(0, {}, {}), At(0, {}, c1))
    <3>1. "ERXST" \in InBank[0 + 1] /\ "ERXST" \in RxConfig /\ {} \cup {"ERXST"} = c1
      BY RegisterFacts DEF RxConfig
    <3> QED BY <1>1, <3>1, LeadsConfigures
  <2>2. Leads(WriteReg("ERXND"), At(0, {}, c1), At(0, {}, c2))
    <3>1. /\ "ERXND" \in InBank[0 + 1] /\ "ERXND" \in RxConfig
          /\ c1 \cup {"ERXND"} = c2 /\ c1 \in SUBSET RxConfig
      BY RegisterFacts DEF RxConfig
    <3> QED BY <1>1, <3>1, LeadsConfigures
  <2> QED BY <2>1, <2>2, LeadsOn DEF Ring
<1>3. Leads(Mac, At(2, {}, c2), At(2, {}, c6))
  <2>1. /\ {"MACON1", "MACON3", "MACON4", "MAMXFL"} \subseteq InBank[2 + 1]
        /\ {"MACON1", "MACON3", "MACON4", "MAMXFL"} \subseteq RxConfig
        /\ c3 \in SUBSET RxConfig /\ c4 \in SUBSET RxConfig
        /\ c5 \in SUBSET RxConfig
    BY RegisterFacts DEF RxConfig
  <2>2. /\ c2 \cup {"MACON1"} = c3 /\ c3 \cup {"MACON3"} = c4
        /\ c4 \cup {"MACON4"} = c5 /\ c5 \cup {"MAMXFL"} = c6
    OBVIOUS
  <2> HIDE DEF c2, c3, c4, c5, c6
  <2>3. /\ Leads(WriteReg("MACON1"), At(2, {}, c2), At(2, {}, c3))
        /\ Leads(WriteReg("MACON3"), At(2, {}, c3), At(2, {}, c4))
    BY <1>1, <2>1, <2>2, LeadsConfigures
  <2>4. /\ Leads(WriteReg("MACON4"), At(2, {}, c4), At(2, {}, c5))
        /\ Leads(WriteReg("MAMXFL"), At(2, {}, c5), At(2, {}, c6))
    BY <1>1, <2>1, <2>2, LeadsConfigures
  <2> QED BY <2>3, <2>4, LeadsOn DEF Mac
<1>4. Leads(Address, At(3, {}, c6), At(3, {}, c7))
  <2>1. "MAADR" \in InBank[3 + 1] /\ "MAADR" \in RxConfig /\ c6 \cup {"MAADR"} = c7
    BY RegisterFacts DEF RxConfig
  <2> QED BY <1>1, <2>1, LeadsConfigures DEF Address
<1>5. Leads(Filter, At(1, {}, c7), At(1, {}, RxConfig))
  <2>1. /\ "ERXFCON" \in InBank[1 + 1] /\ "ERXFCON" \in RxConfig
        /\ c7 \cup {"ERXFCON"} = RxConfig
    BY RegisterFacts DEF RxConfig
  <2> QED BY <1>1, <2>1, LeadsConfigures DEF Filter
<1> HIDE DEF c2, c6, c7
<1>6. Leads(WritePHY, At(3, {}, c7), At(3, {}, c7))
  <2>1. /\ At(3, {}, c7) \in View /\ At(3, {}, c7).on \cap {"RXEN"} = {}
        /\ At(3, {}, c7).conf = c7
    BY <1>1, AtFacts
  <2>2. Leads(WritePHY, At(3, {}, c7),
              At(3, At(3, {}, c7).on \cap {"RXEN"}, At(3, {}, c7).conf))
    BY <2>1, LeadsWritePHY
  <2> QED BY <2>1, <2>2
<1>7. /\ Leads(SetBank(0), At(0, {}, {}), At(0, {}, {}))
      /\ Leads(SetBank(2), At(0, {}, c2), At(2, {}, c2))
      /\ Leads(SetBank(3), At(2, {}, c6), At(3, {}, c6))
      /\ Leads(SetBank(1), At(3, {}, c7), At(1, {}, c7))
      /\ Leads(SetBank(0), At(1, {}, RxConfig), At(0, {}, RxConfig))
  BY <1>1, LeadsBank
<1>8. Leads(SetBank(0) \o Ring \o SetBank(2) \o Mac \o
            SetBank(3) \o Address, At(0, {}, {}), At(3, {}, c7))
  BY <1>2, <1>3, <1>4, <1>7, LeadsOn
<1>9. Leads(Configure, At(0, {}, {}), At(0, {"RXEN"}, RxConfig))
  BY <1>5, <1>6, <1>7, <1>8, LeadsEnable, LeadsOn DEF Configure
<1>10. Leads(Await("ESTAT"), At(0, {}, {}), At(0, {}, {}))
  <2>1. /\ "ESTAT" \in Common /\ "ESTAT" \in Registers
        /\ "ESTAT" \notin RxConfig
    BY RegisterFacts DEF Common, RxConfig
  <2>2. At(0, {}, {}) \in View /\ Lives("ESTAT", At(0, {}, {}).on \cap BSEL)
    BY <1>1, <2>1, AtFacts
  <2> QED BY <2>1, <2>2, LeadsStay DEF Await
<1> QED BY <1>9, <1>10, LeadsReset, LeadsOn DEF Setup

\* No call is longer than the start-up.
LEMMA Lengths ==
  /\ Len(PacketReceiveRegs) <= Len(Setup)
  /\ Len(SendPacketRegs) <= Len(Setup)
  /\ Len(ReadPHY) <= Len(Setup)
  /\ Len(WritePHY) <= Len(Setup)
  /\ Len(Setup) \in Nat
<1> USE DEF SetBank, Set, Clear, WriteReg, ReadReg,
            ReadClock, Poll
<1>1. Len(PacketReceiveRegs) = 10
  BY DEF PacketReceiveRegs
<1>2. Len(SendPacketRegs) = 11
  BY DEF SendPacketRegs
<1>3. Len(ReadPHY) = 12
  BY DEF ReadPHY, StartMii
<1>4. Len(WritePHY) = 8
  BY DEF WritePHY
<1>5. Len(Setup) = 29
  BY DEF Setup, SoftReset, Await, Configure, Ring,
         Mac, Address, Filter, Enable, WritePHY
<1> QED BY <1>1, <1>2, <1>3, <1>4, <1>5

-----------------------------------------------------------------------------
(* The inductive invariant.                                                *)

\* What is left of the call is in place from here to its end.
InPlace == \E end \in View : Leads(todo, Look, end)

RegsInv == Configured /\ InPlace

\* The constants, as the steps use them.
LEMMA RegsNats ==
  Patience \in Nat /\ MaxRestarts \in Nat
  BY RegsConstantsOK

\* The view, in terms of the controller's registers.
LEMMA LookFacts ==
  ASSUME RegsTypeOK
  PROVE  /\ Look \in View
         /\ Look.on = econ1 \ {"TXRTS"} /\ Look.conf = written \cap RxConfig
         /\ Look.on \cap BSEL = econ1 \cap BSEL
<1>1. econ1 \subseteq BSEL \cup {"RXEN", "TXRTS"}
  BY DEF RegsTypeOK
<1>2. Look.on = econ1 \ {"TXRTS"} /\ Look.conf = written \cap RxConfig
  BY DEF Look
<1>3. econ1 \ {"TXRTS"} \subseteq BSEL \cup {"RXEN"}
  BY <1>1
<1>4. Look \in View
  BY <1>3 DEF Look, View
<1>5. "TXRTS" \notin BSEL
  BY BankFacts
<1> QED BY <1>2, <1>4, <1>5

\* The bank selected is the one the bits of ECON1 stand for.
LEMMA LivesReaches ==
  ASSUME RegsTypeOK, NEW r, Lives(r, Look.on \cap BSEL)
  PROVE  Reaches(r)
<1>1. CASE r \in Common
  BY <1>1 DEF Reaches
<1>2. CASE r \notin Common
  <2>1. PICK b \in 1 .. 4 : BankBits[b] = econ1 \cap BSEL /\ r \in InBank[b]
    BY <1>2, LookFacts DEF Lives
  <2>2. /\ CurrentBank \in 1 .. 4
        /\ BankBits[CurrentBank] = econ1 \cap BSEL
    BY <2>1 DEF CurrentBank
  <2>3. \A m, n \in 1 .. 4 : BankBits[m] = BankBits[n] => m = n
    <3>1. /\ BankBits[1] = {} /\ BankBits[2] = {"BSEL0"}
          /\ BankBits[3] = {"BSEL1"} /\ BankBits[4] = {"BSEL0", "BSEL1"}
      BY DEF BankBits
    <3> SUFFICES ASSUME NEW m \in 1 .. 4, NEW n \in 1 .. 4,
                        BankBits[m] = BankBits[n]
                 PROVE  m = n
      OBVIOUS
    <3>2. (m = 1 \/ m = 2 \/ m = 3 \/ m = 4) /\ (n = 1 \/ n = 2 \/ n = 3 \/ n = 4)
      OBVIOUS
    <3>3. /\ {} # {"BSEL0"} /\ {} # {"BSEL1"} /\ {} # {"BSEL0", "BSEL1"}
          /\ {"BSEL0"} # {"BSEL1"} /\ {"BSEL0"} # {"BSEL0", "BSEL1"}
          /\ {"BSEL1"} # {"BSEL0", "BSEL1"}
      OBVIOUS
    <3> QED BY <3>1, <3>2, <3>3
  <2>4. CurrentBank = b
    BY <2>1, <2>2, <2>3
  <2> QED BY <2>1, <2>4 DEF Reaches
<1> QED BY <1>1, <1>2

\* What the invariant says of the transaction at hand.
LEMMA AtHand ==
  ASSUME RegsInv, todo # <<>>
  PROVE  /\ Head(todo) \in Transaction /\ Allowed(Head(todo), Look)
         /\ Reaches(Head(todo).reg)
         /\ Len(todo) \in Nat /\ Tail(todo) # todo /\ Len(Tail(todo)) = Len(todo) - 1
<1>1. PICK end \in View : Leads(todo, Look, end)
  BY DEF RegsInv, InPlace
<1>2. /\ Head(todo) \in Transaction /\ Allowed(Head(todo), Look)
      /\ Len(Tail(todo)) = Len(todo) - 1
  BY <1>1, LeadsTail
<1>3. Len(todo) \in Nat
  BY <1>1 DEF Leads
<1>4. Reaches(Head(todo).reg)
  BY <1>2, LivesReaches DEF Allowed, RegsInv, Configured
<1>5. Tail(todo) # todo
  <2>1. SUFFICES ASSUME Tail(todo) = todo PROVE FALSE
    OBVIOUS
  <2>2. Len(todo) = Len(todo) - 1
    BY <1>2, <2>1
  <2> QED BY <1>3, <2>2
<1> QED BY <1>2, <1>3, <1>4, <1>5

\* A transaction is done and has had its effect.
LEMMA DoneInPlace ==
  ASSUME RegsInv, todo # <<>>, todo' = Tail(todo), Look' = After(Head(todo), Look)
  PROVE  InPlace' /\ Len(todo') <= Len(Setup)
<1>1. PICK end \in View : Leads(todo, Look, end)
  BY DEF RegsInv, InPlace
<1>2. Leads(Tail(todo), After(Head(todo), Look), end)
  BY <1>1, LeadsTail
<1>3. InPlace'
  BY <1>2 DEF InPlace
<1>4. Len(todo') <= Len(Setup)
  <2>1. Len(todo) <= Len(Setup) /\ Len(todo) \in Nat /\ Len(todo') = Len(todo) - 1
    BY AtHand DEF RegsInv, Configured, RegsTypeOK
  <2>2. Len(Setup) \in Nat
    BY Lengths
  <2> QED BY <2>1, <2>2
<1> QED BY <1>3, <1>4

\* A transaction that leaves the registers alone.
LEMMA IdleInv ==
  ASSUME RegsInv, todo # <<>>, todo' = Tail(todo), UNCHANGED <<econ1, written>>,
         After(Head(todo), Look) = Look, clkrdy' \in BOOLEAN, busy' \in BOOLEAN,
         elapsed' \in 0 .. Patience + 1, restarts' = restarts
  PROVE  RegsInv'
<1>1. Look' = Look
  BY DEF Look
<1>2. InPlace' /\ Len(todo') <= Len(Setup)
  BY <1>1, DoneInPlace
<1>3. Configured'
  BY <1>2 DEF RegsInv, Configured, RegsTypeOK
<1> QED BY <1>2, <1>3 DEF RegsInv

\* A register of a bank is written.
LEMMA WriteOpInv == ASSUME RegsInv, WriteOp PROVE RegsInv'
<1> DEFINE op == Head(todo)
<1>1. todo # <<>> /\ op.kind = "WCR" /\ todo' = Tail(todo) /\ restarts' = restarts
  BY DEF WriteOp, Doing, Done
<1>2. op \in Transaction /\ Allowed(op, Look) /\ Reaches(op.reg)
  BY <1>1, AtHand
<1>3. op.reg \notin Common /\ op.reg # "ECON1" /\ op.reg \in Registers
  BY <1>1, <1>2 DEF Allowed, Common, Transaction
<1>4. /\ econ1' = econ1 /\ written' = written \cup {op.reg}
      /\ busy' \in BOOLEAN /\ clkrdy' = clkrdy /\ elapsed' = elapsed
  BY <1>2, <1>3 DEF WriteOp
<1> HIDE DEF op
<1>5. Look' = After(op, Look)
  <2>1. written' \cap RxConfig =
          (written \cap RxConfig) \cup ({op.reg} \cap RxConfig)
    BY <1>4
  <2> QED BY <1>1, <1>4, <2>1 DEF Look, After
<1>6. InPlace' /\ Len(todo') <= Len(Setup)
  BY <1>1, <1>5, DoneInPlace DEF op
<1>7. written' \subseteq UNION {InBank[b] : b \in 1 .. 4}
  BY <1>3, <1>4 DEF RegsInv, Configured, RegsTypeOK, Registers
<1>8. RegsTypeOK'
  BY <1>1, <1>4, <1>6, <1>7 DEF RegsInv, Configured, RegsTypeOK
<1>9. Configured'
  BY <1>4, <1>8 DEF RegsInv, Configured
<1> QED BY <1>6, <1>9 DEF RegsInv

\* Bits of ECON1, or of ECON2, are set or cleared.
LEMMA BitOpInv == ASSUME RegsInv, BitOp PROVE RegsInv'
<1> DEFINE op == Head(todo)
<1>1. /\ todo # <<>> /\ op.kind \in {"BFS", "BFC"} /\ todo' = Tail(todo)
      /\ restarts' = restarts
  BY DEF BitOp, Doing, Done
<1>2. op \in Transaction /\ Allowed(op, Look)
  BY <1>1, AtHand
<1>3. /\ econ1' = IF op.reg # "ECON1" THEN econ1
                  ELSE IF op.kind = "BFS" THEN econ1 \cup op.bits ELSE econ1 \ op.bits
      /\ clkrdy' = clkrdy /\ busy' = busy /\ written' = written /\ elapsed' = elapsed
  BY DEF BitOp
<1>4. /\ Look.on = econ1 \ {"TXRTS"} /\ Look.conf = written \cap RxConfig
      /\ Look = [on |-> econ1 \ {"TXRTS"}, conf |-> written \cap RxConfig]
      /\ econ1 \subseteq BSEL \cup {"RXEN", "TXRTS"}
      /\ BSEL = {"BSEL0", "BSEL1"}
  BY LookFacts, BankFacts DEF RegsInv, Configured, RegsTypeOK, Look
<1> HIDE DEF op
<1>5. /\ Look' = After(op, Look)
      /\ econ1' \subseteq BSEL \cup {"RXEN", "TXRTS"}
      /\ "RXEN" \in econ1' => "RXEN" \in econ1 \/ RxConfig \subseteq Look.conf
  <2>1. CASE op.reg # "ECON1"
    <3>1. econ1' = econ1
      BY <1>3, <2>1
    <3>2. After(op, Look) = Look
      BY <1>1, <2>1 DEF After
    <3> QED BY <1>3, <1>4, <3>1, <3>2 DEF Look
  <2>2. CASE op.reg = "ECON1" /\ op.kind = "BFS"
    <3>1. econ1' = econ1 \cup op.bits
      BY <1>3, <2>2
    <3>2. op.bits \subseteq BSEL \cup {"RXEN", "TXRTS"}
      BY <1>2, <2>2 DEF Allowed
    <3>3. econ1' \ {"TXRTS"} = (econ1 \ {"TXRTS"}) \cup (op.bits \ {"TXRTS"})
      BY <3>1
    <3>4. Look' = After(op, Look)
      BY <1>3, <1>4, <2>2, <3>3 DEF Look, After
    <3>5. "RXEN" \in op.bits => RxConfig \subseteq Look.conf
      BY <1>2, <2>2 DEF Allowed
    <3> QED BY <1>4, <3>1, <3>2, <3>4, <3>5
  <2>3. CASE op.reg = "ECON1" /\ op.kind = "BFC"
    <3>1. econ1' = econ1 \ op.bits
      BY <1>3, <2>3
    <3>2. econ1' \ {"TXRTS"} = (econ1 \ {"TXRTS"}) \ op.bits
      BY <3>1
    <3>3. Look' = After(op, Look)
      BY <1>3, <1>4, <2>3, <3>2 DEF Look, After
    <3> QED BY <1>4, <3>1, <3>3
  <2> QED BY <1>1, <2>1, <2>2, <2>3
<1>6. InPlace' /\ Len(todo') <= Len(Setup)
  BY <1>1, <1>5, DoneInPlace DEF op
<1>7. RegsTypeOK'
  BY <1>1, <1>3, <1>5, <1>6 DEF RegsInv, Configured, RegsTypeOK
<1>8. Configured'
  BY <1>3, <1>4, <1>5, <1>7 DEF RegsInv, Configured
<1> QED BY <1>6, <1>8 DEF RegsInv

\* A register is read, or EPKTCNT ends the call.
LEMMA ReadOpInv == ASSUME RegsInv, ReadOp PROVE RegsInv'
<1>1. /\ todo # <<>> /\ Head(todo).kind = "RCR" /\ restarts' = restarts
      /\ UNCHANGED <<econ1, clkrdy, busy, written, elapsed>>
      /\ todo' = Tail(todo) \/ todo' = <<>>
  BY DEF ReadOp, Doing, Done, chipVars
<1>2. /\ clkrdy \in BOOLEAN /\ busy \in BOOLEAN /\ elapsed \in 0 .. Patience + 1
  BY DEF RegsInv, Configured, RegsTypeOK
<1>3. CASE todo' = Tail(todo)
  <2>1. After(Head(todo), Look) = Look
    BY <1>1 DEF After
  <2> QED BY <1>1, <1>2, <1>3, <2>1, IdleInv
<1>4. CASE todo' = <<>>
  <2>1. Look \in View /\ Look' = Look
    BY <1>1, LookFacts DEF RegsInv, Configured, Look
  <2>2. InPlace'
    BY <1>4, <2>1, LeadsNowhere DEF InPlace
  <2>3. Len(todo') <= Len(Setup)
    <3>1. Len(todo') = 0
      BY <1>4
    <3> QED BY <3>1, Lengths
  <2>4. Configured'
    BY <1>1, <2>3 DEF RegsInv, Configured, RegsTypeOK
  <2> QED BY <2>2, <2>4 DEF RegsInv
<1> QED BY <1>1, <1>3, <1>4

\* The soft reset.
LEMMA ResetOpInv == ASSUME RegsInv, ResetOp PROVE RegsInv'
<1>1. /\ todo # <<>> /\ Head(todo).kind = "SRC" /\ todo' = Tail(todo)
      /\ restarts' = restarts /\ elapsed' = elapsed
      /\ econ1' = {} /\ written' = {} /\ busy' = FALSE /\ clkrdy' \in {clkrdy, FALSE}
  BY DEF ResetOp, Doing, Done
<1>2. Look' = After(Head(todo), Look)
  <2>1. {} \ {"TXRTS"} = {} /\ {} \cap RxConfig = {}
    OBVIOUS
  <2> QED BY <1>1, <2>1 DEF Look, After
<1>3. InPlace' /\ Len(todo') <= Len(Setup)
  BY <1>1, <1>2, DoneInPlace
<1>4. Configured'
  <2>1. clkrdy' \in BOOLEAN /\ busy' \in BOOLEAN
    BY <1>1 DEF RegsInv, Configured, RegsTypeOK
  <2> QED BY <1>1, <1>3, <2>1 DEF RegsInv, Configured, RegsTypeOK
<1> QED BY <1>3, <1>4 DEF RegsInv

\* The waits and the clock.
LEMMA WaitInv ==
  ASSUME RegsInv, AwaitClkrdy \/ GetTick \/ PollOp
  PROVE  RegsInv'
<1>1. /\ todo # <<>> /\ Head(todo).kind \in {"await", "clock", "poll"}
      /\ todo' = Tail(todo) /\ restarts' = restarts
      /\ UNCHANGED <<econ1, clkrdy, busy, written>>
      /\ elapsed' = elapsed \/ elapsed' = 0
  BY DEF AwaitClkrdy, GetTick, PollOp, Doing, Done,
         chipVars
<1>2. /\ clkrdy' \in BOOLEAN /\ busy' \in BOOLEAN /\ elapsed' \in 0 .. Patience + 1
  BY <1>1, RegsNats DEF RegsInv, Configured, RegsTypeOK
<1>3. After(Head(todo), Look) = Look
  BY <1>1 DEF After
<1> QED BY <1>1, <1>2, <1>3, IdleInv

\* Any call is in place, whatever bank the last one has left.
LEMMA CallInv == ASSUME RegsInv, Call PROVE RegsInv'
<1>1. /\ todo' \in {PacketReceiveRegs, SendPacketRegs, ReadPHY, WritePHY}
      /\ UNCHANGED <<econ1, clkrdy, busy, written, elapsed, restarts>>
  BY DEF Call, chipVars
<1>2. Look \in View /\ Look' = Look
  BY <1>1, LookFacts DEF RegsInv, Configured, Look
<1> DEFINE rx == Look.on \cap {"RXEN"}
           c  == Look.conf
<1>3. /\ rx \in RxEn /\ c \in SUBSET RxConfig
      /\ 0 \in 0 .. 3 /\ 2 \in 0 .. 3 /\ 3 \in 0 .. 3
  BY <1>2 DEF RxEn, View
<1>4. At(0, rx, c) \in View /\ At(2, rx, c) \in View /\ At(3, rx, c) \in View
  BY <1>3, AtFacts
<1>5. /\ Leads(PacketReceiveRegs, Look, At(0, rx, c))
      /\ Leads(SendPacketRegs, Look, At(0, rx, c))
      /\ Leads(ReadPHY, Look, At(2, rx, c))
      /\ Leads(WritePHY, Look, At(3, rx, c))
  BY <1>2, LeadsPacketReceive, LeadsSendPacket, LeadsReadPHY, LeadsWritePHY
<1> HIDE DEF rx, c
<1>6. InPlace'
  BY <1>1, <1>2, <1>4, <1>5 DEF InPlace
<1>7. Len(todo') <= Len(Setup)
  BY <1>1, Lengths
<1>8. Configured'
  BY <1>1, <1>7 DEF RegsInv, Configured, RegsTypeOK
<1> QED BY <1>6, <1>8 DEF RegsInv

\* The start-up is in place in any state of the controller.
LEMMA SetupInPlace ==
  ASSUME RegsTypeOK PROVE \E end \in View : Leads(Setup, Look, end)
<1>1. At(0, {"RXEN"}, RxConfig) \in View
  <2>1. /\ 0 \in 0 .. 3 /\ {"RXEN"} \in RxEn
        /\ RxConfig \in SUBSET RxConfig
    BY DEF RxEn
  <2> QED BY <2>1, AtFacts
<1> QED BY <1>1, LookFacts, LeadsSetup

\* The microcontroller restarts.
LEMMA RestartInv ==
  ASSUME RegsInv, Restart PROVE RegsInv'
<1>1. /\ todo' = Setup /\ restarts < MaxRestarts /\ restarts' = restarts + 1
      /\ UNCHANGED <<econ1, clkrdy, busy, written, elapsed>>
  BY DEF Restart, chipVars
<1>2. Look' = Look
  BY <1>1 DEF Look
<1>3. InPlace'
  BY <1>1, <1>2, SetupInPlace DEF InPlace, RegsInv, Configured
<1>4. Len(todo') <= Len(Setup)
  BY <1>1, Lengths
<1>5. restarts' \in 0 .. MaxRestarts
  BY <1>1, RegsNats DEF RegsInv, Configured, RegsTypeOK
<1>6. Configured'
  BY <1>1, <1>4, <1>5 DEF RegsInv, Configured, RegsTypeOK
<1> QED BY <1>3, <1>6 DEF RegsInv

\* The controller and the tick leave the view as it is.
LEMMA AroundInv ==
  ASSUME RegsInv,
         \/ OscillatorStarts \/ TransmissionEnds \/ MiiEnds
         \/ TickPasses \/ UNCHANGED regVars
  PROVE  RegsInv'
<1>1. /\ todo' = todo /\ restarts' = restarts /\ written' = written
      /\ econ1' = econ1 \/ econ1' = econ1 \ {"TXRTS"}
  BY DEF OscillatorStarts, TransmissionEnds, MiiEnds, TickPasses,
         regVars, chipVars
<1>2. /\ clkrdy' \in {clkrdy, TRUE} /\ busy' \in {busy, FALSE}
      /\ elapsed' = elapsed \/ (elapsed <= Patience /\ elapsed' = elapsed + 1)
  BY DEF OscillatorStarts, TransmissionEnds, MiiEnds, TickPasses,
         regVars, chipVars
<1>3. clkrdy' \in BOOLEAN /\ busy' \in BOOLEAN
  BY <1>2 DEF RegsInv, Configured, RegsTypeOK
<1>4. elapsed' \in 0 .. Patience + 1
  BY <1>2, RegsNats DEF RegsInv, Configured, RegsTypeOK
<1>5. Look' = Look
  <2>1. econ1' \ {"TXRTS"} = econ1 \ {"TXRTS"}
    BY <1>1
  <2> QED BY <1>1, <2>1 DEF Look
<1>6. InPlace'
  BY <1>1, <1>5 DEF InPlace, RegsInv
<1>7. Configured'
  BY <1>1, <1>3, <1>4 DEF RegsInv, Configured, RegsTypeOK
<1> QED BY <1>6, <1>7 DEF RegsInv

\* Power-on.
LEMMA InitRegs ==
  ASSUME RegsInit PROVE RegsInv
<1>1. /\ econ1 = {} /\ clkrdy = FALSE /\ busy = FALSE /\ written = {}
      /\ todo = Setup /\ elapsed = 0 /\ restarts = 0
  BY DEF RegsInit
<1>2. RegsTypeOK
  <2>1. 0 \in 0 .. Patience + 1 /\ 0 \in 0 .. MaxRestarts
    BY RegsNats
  <2>2. Len(todo) <= Len(Setup)
    BY <1>1, Lengths
  <2> QED BY <1>1, <2>1, <2>2 DEF RegsTypeOK
<1>3. InPlace
  BY <1>1, <1>2, SetupInPlace DEF InPlace
<1> QED BY <1>1, <1>2, <1>3 DEF RegsInv, Configured

\* Every step keeps the invariant.
LEMMA RegsStep ==
  ASSUME RegsInv, [RegsNext]_regVars PROVE RegsInv'
  BY WriteOpInv, BitOpInv, ReadOpInv, ResetOpInv, WaitInv, CallInv, RestartInv, AroundInv
  DEF RegsNext, Driver

\* The invariant holds always.
LEMMA RegsInvariant ==
  RegsSpec => []RegsInv
<1>1. RegsInit => RegsInv
  BY InitRegs
<1>2. RegsInv /\ [RegsNext]_regVars => RegsInv'
  BY RegsStep
<1> QED BY <1>1, <1>2, PTL DEF RegsSpec

-----------------------------------------------------------------------------
(* The theorems about the registers.                                       *)

(***************************************************************************)
(* ReadReg and WriteReg reach their registers (lines 79 and 89): whatever  *)
(* bank a call, a time-out or a restart has left, the bank selected is the *)
(* right one wherever a register is accessed.                              *)
(***************************************************************************)
THEOREM BankIsRight ==
  RegsSpec => []RightBank
<1>1. RegsInv => RightBank
  BY AtHand DEF RightBank
<1> QED BY <1>1, RegsInvariant, PTL

(***************************************************************************)
(* Every variable keeps its type, and reception is on only when ring, MAC, *)
(* address and filter have been written since the last reset (lines        *)
(* 191-231).                                                               *)
(***************************************************************************)
THEOREM StaysConfigured ==
  RegsSpec => []Configured
<1>1. RegsInv => Configured
  BY DEF RegsInv
<1> QED BY <1>1, RegsInvariant, PTL

(***************************************************************************)
(* No register of the receiver's configuration is written while it         *)
(* receives, not by the Init after a restart either (lines 180-184).       *)
(***************************************************************************)
THEOREM ReceiverStaysFrozen ==
  RegsSpec => FrozenWhileReceiving
<1>1. RegsInv => (Accessed \in RxConfig => "RXEN" \notin econ1)
  <2> SUFFICES ASSUME RegsInv, Accessed \in RxConfig
               PROVE  "RXEN" \notin econ1
    OBVIOUS
  <2>1. todo # <<>> /\ Accessed = Head(todo).reg
    BY DEF Accessed, RxConfig
  <2>2. "RXEN" \notin Look.on
    BY <2>1, AtHand DEF Allowed
  <2> QED BY <2>2, LookFacts DEF RegsInv, Configured
<1> QED BY <1>1, RegsInvariant, PTL DEF RegsSpec, FrozenWhileReceiving

(***************************************************************************)
(* RXEN and TXRTS change by the controller, by an operation on that bit    *)
(* alone or by the reset; a change of bank leaves them (lines 70-73).      *)
(***************************************************************************)
THEOREM BitsStayApart ==
  RegsSpec => BitsKeptApart
<1> DEFINE Apart ==
      \A bit \in {"RXEN", "TXRTS"} :
        (bit \in econ1) # (bit \in econ1') =>
          \/ todo' = todo
          \/ Head(todo).bits = {bit}
          \/ Head(todo).kind = "SRC"
<1>1. RegsInv /\ [RegsNext]_regVars => Apart
  <2> SUFFICES ASSUME RegsInv, [RegsNext]_regVars,
                      NEW bit \in {"RXEN", "TXRTS"},
                      (bit \in econ1) # (bit \in econ1'), todo' # todo
               PROVE  Head(todo).bits = {bit} \/ Head(todo).kind = "SRC"
    OBVIOUS
  <2>1. econ1' # econ1
    OBVIOUS
  <2>2. WriteOp \/ BitOp \/ ResetOp
    BY <2>1
    DEF RegsNext, Driver, Call, ReadOp, AwaitClkrdy,
        GetTick, PollOp, OscillatorStarts, TransmissionEnds,
        MiiEnds, TickPasses, Restart, regVars, chipVars
  <2>3. CASE ResetOp
    BY <2>3 DEF ResetOp, Doing
  <2>4. CASE WriteOp
    <3>1. todo # <<>> /\ Head(todo).kind = "WCR"
      BY <2>4 DEF WriteOp, Doing
    <3>2. Head(todo).reg # "ECON1"
      BY <3>1, AtHand DEF Allowed, Common
    <3> QED BY <2>1, <2>4, <3>2 DEF WriteOp
  <2>5. CASE BitOp
    <3>1. /\ todo # <<>> /\ Head(todo).kind \in {"BFS", "BFC"}
          /\ Head(todo).reg = "ECON1"
          /\ econ1' = econ1 \cup Head(todo).bits \/ econ1' = econ1 \ Head(todo).bits
      BY <2>1, <2>5 DEF BitOp, Doing
    <3>2. bit \in Head(todo).bits
      BY <3>1
    <3>3. \/ Head(todo).bits \subseteq BSEL
          \/ Head(todo).bits = {"RXEN"} \/ Head(todo).bits = {"TXRTS"}
      BY <3>1, AtHand DEF Allowed
    <3>4. bit \notin BSEL
      BY BankFacts
    <3> QED BY <3>2, <3>3, <3>4
  <2> QED BY <2>2, <2>3, <2>4, <2>5
<1> QED BY <1>1, RegsInvariant, PTL DEF RegsSpec, BitsKeptApart
=============================================================================
