-------------------------------- MODULE EncTx --------------------------------
(***************************************************************************)
(* The send path of the ENC28J60 driver: ENC28J60_SendPacket               *)
(* (ENC28J60/Src/enc28j60.c) as enc28j60_low_level_output calls it, one    *)
(* call after the other, against the controller's transmit logic and the   *)
(* HAL millisecond tick, which both run beside it.                         *)
(*                                                                         *)
(* The controller is not part of the repository.  It is modelled from what *)
(* the driver relies on: while ECON1.TXRTS is set it reads the TX memory   *)
(* from the byte after TXSTART to ETXND and puts it on the wire, then      *)
(* clears TXRTS; clearing TXRTS from outside stops it.  It may stall for   *)
(* any time, which is why the driver has a timeout.                        *)
(***************************************************************************)
EXTENDS Integers, Sequences

CONSTANTS
  Lens,       \* lengths of the frames handed to SendPacket
  Timeout,    \* ticks SendPacket waits (200)
  TickSpan,   \* values of the tick counter (2^32)
  MaxSends    \* bound: number of calls

MaxLen == CHOOSE m \in Lens : \A len \in Lens : len <= m

ASSUME TxConstantsOK ==
  /\ Lens \subseteq Nat \ {0}
  /\ \E m \in Lens : \A len \in Lens : len <= m
  /\ Timeout \in Nat
  /\ TickSpan \in Nat
  /\ Timeout + 1 < TickSpan
  /\ MaxSends \in Nat

VARIABLES
  \* the controller
  txrts,    \* ECON1.TXRTS
  mem,      \* the TX memory, from TXSTART (cell 0) on
  ewrpt,    \* EWRPT - TXSTART: where WBM writes next
  etxnd,    \* ETXND - TXSTART: the last byte to send
  onwire,   \* the bytes of the transmission in progress sent so far
  wire,     \* the frames the wire has carried whole
  \* the driver
  pc,       \* the next step of SendPacket; "idle" outside of it
  req,      \* the frame of the last call: id, len
  t,        \* the tick read after the trigger
  \* the tick
  tick,     \* uwTick
  fresh,    \* no tick has come since the loop last read uwTick
  waited    \* history: ticks since t was read

ctlVars  == <<txrts, mem, ewrpt, etxnd, onwire, wire>>
timeVars == <<tick, fresh, waited>>
vars     == <<ctlVars, pc, req, t, timeVars>>

Cell       == [id : Nat, n : Nat]
None       == [id |-> 0, len |-> 0]
Byte(f, n) == [id |-> f.id, n |-> n]
Unwritten  == [id |-> 0, n |-> 0]

Init ==
  /\ txrts = FALSE
  /\ mem = [c \in 0 .. MaxLen |-> Unwritten]
  /\ ewrpt = 0
  /\ etxnd = 0
  /\ onwire = <<>>
  /\ wire = <<>>
  /\ pc = "idle"
  /\ req = None
  /\ t = 0
  /\ tick \in 0 .. TickSpan - 1
  /\ fresh = TRUE
  /\ waited = 0

-----------------------------------------------------------------------------
(* ENC28J60_SendPacket.                                                    *)

\* A slip of CancelTx: a transmission in progress goes on.
CancelTxNot ==
  /\ pc = "idle"
  /\ req.id < MaxSends
  /\ \E len \in Lens : req' = [id |-> req.id + 1, len |-> len]
  /\ pc' = "pointers"
  /\ UNCHANGED <<ctlVars, t, timeVars>>

\* A new frame: TXRTS is cleared, whatever was being sent is given up.
CancelTx ==
  /\ pc = "idle"
  /\ req.id < MaxSends
  /\ \E len \in Lens : req' = [id |-> req.id + 1, len |-> len]
  /\ txrts' = FALSE
  /\ onwire' = <<>>
  /\ pc' = "pointers"
  /\ UNCHANGED <<mem, ewrpt, etxnd, wire, t, timeVars>>

\* A slip of SetPointers: EWRPT is left where the last frame ended.
SetPointersOnce ==
  /\ pc = "pointers"
  /\ pc' = "write"
  /\ UNCHANGED <<ctlVars, req, t, timeVars>>

\* ETXST and EWRPT := TXSTART.
SetPointers ==
  /\ pc = "pointers"
  /\ ewrpt' = 0
  /\ pc' = "write"
  /\ UNCHANGED <<txrts, mem, etxnd, onwire, wire, req, t, timeVars>>

\* WBM: the control byte and the frame, from EWRPT on, which moves along.
WriteFrame ==
  /\ pc = "write"
  /\ mem' = [c \in DOMAIN mem |->
               IF c \in ewrpt .. ewrpt + req.len THEN Byte(req, c - ewrpt)
               ELSE mem[c]]
  /\ ewrpt' = ewrpt + req.len + 1
  /\ pc' = "end"
  /\ UNCHANGED <<txrts, etxnd, onwire, wire, req, t, timeVars>>

\* A slip of WriteEnd: the control byte is not counted.
WriteEndShort ==
  /\ pc = "end"
  /\ etxnd' = req.len - 1
  /\ pc' = "trigger"
  /\ UNCHANGED <<txrts, mem, ewrpt, onwire, wire, req, t, timeVars>>

\* txEnd = TXSTART + len, the control byte included.
WriteEnd ==
  /\ pc = "end"
  /\ etxnd' = req.len
  /\ pc' = "trigger"
  /\ UNCHANGED <<txrts, mem, ewrpt, onwire, wire, req, t, timeVars>>

Trigger ==
  /\ pc = "trigger"
  /\ txrts' = TRUE
  /\ pc' = "start"
  /\ UNCHANGED <<mem, ewrpt, etxnd, onwire, wire, req, t, timeVars>>

StartClock ==
  /\ pc = "start"
  /\ t' = tick
  /\ fresh' = TRUE
  /\ waited' = 0
  /\ pc' = "poll"
  /\ UNCHANGED <<ctlVars, req, tick>>

\* A slip of PollTxrts: the wait has no timeout.
PollTxrtsNoClock ==
  /\ pc = "poll"
  /\ pc' = IF txrts THEN "poll" ELSE "idle"
  /\ UNCHANGED <<ctlVars, req, t, timeVars>>

\* TXRTS has dropped: the frame is out, SendPacket returns.
PollTxrts ==
  /\ pc = "poll"
  /\ pc' = IF txrts THEN "clock" ELSE "idle"
  /\ UNCHANGED <<ctlVars, req, t, timeVars>>

\* A slip of CheckClock: a deadline that wraps, compared as it is.
CheckClockDeadline ==
  /\ pc = "clock"
  /\ pc' = IF tick > (t + Timeout) % TickSpan THEN "idle" ELSE "poll"
  /\ fresh' = TRUE
  /\ UNCHANGED <<ctlVars, req, t, tick, waited>>

\* HAL_GetTick() - t in 32 bits; past the timeout SendPacket gives up and
\* leaves TXRTS set.
CheckClock ==
  /\ pc = "clock"
  /\ pc' = IF (tick - t) % TickSpan > Timeout THEN "idle" ELSE "poll"
  /\ fresh' = TRUE
  /\ UNCHANGED <<ctlVars, req, t, tick, waited>>

SendPacket ==
  \/ SetPointers \/ WriteFrame \/ WriteEnd \/ Trigger
  \/ StartClock \/ PollTxrts \/ CheckClock

-----------------------------------------------------------------------------
(* The controller and the tick.                                            *)

SendByte ==
  /\ txrts
  /\ Len(onwire) < etxnd
  /\ onwire' = Append(onwire, mem[Len(onwire) + 1])
  /\ UNCHANGED <<txrts, mem, ewrpt, etxnd, wire, pc, req, t, timeVars>>

FinishTx ==
  /\ txrts
  /\ Len(onwire) = etxnd
  /\ wire' = Append(wire, onwire)
  /\ onwire' = <<>>
  /\ txrts' = FALSE
  /\ UNCHANGED <<mem, ewrpt, etxnd, pc, req, t, timeVars>>

Polling == pc \in {"poll", "clock"}

\* SysTick.  One round of the polling loop is a few bytes of SPI, far less
\* than a millisecond: at most one tick comes per round.
Tick ==
  /\ Polling => fresh
  /\ tick' = (tick + 1) % TickSpan
  /\ fresh' = FALSE
  /\ waited' = IF Polling THEN waited + 1 ELSE waited
  /\ UNCHANGED <<ctlVars, pc, req, t>>

Next == CancelTx \/ SendPacket \/ SendByte \/ FinishTx \/ Tick

\* SendPacket runs and time passes; the controller need not do anything,
\* and nobody has to send.
Fairness == WF_vars(SendPacket) /\ WF_vars(Tick)

Spec     == Init /\ [][Next]_vars
FairSpec == Spec /\ Fairness
-----------------------------------------------------------------------------
(* Correctness.                                                            *)

(***************************************************************************)
(* Every variable keeps its type; the frame being sent never runs past the *)
(* memory that holds it.                                                   *)
(***************************************************************************)
TypeOK ==
  /\ txrts \in BOOLEAN
  /\ mem \in [0 .. MaxLen -> Cell]
  /\ ewrpt \in 0 .. MaxLen + 1
  /\ etxnd \in 0 .. MaxLen
  /\ onwire \in Seq(Cell) /\ Len(onwire) <= etxnd
  /\ wire \in Seq(Seq(Cell))
  /\ pc \in {"idle", "pointers", "write", "end", "trigger", "start", "poll", "clock"}
  /\ req \in [id : 0 .. MaxSends, len : Lens \cup {0}]
  /\ t \in 0 .. TickSpan - 1
  /\ tick \in 0 .. TickSpan - 1
  /\ fresh \in BOOLEAN
  /\ waited \in Nat

(***************************************************************************)
(* The driver never touches the TX memory or ETXND while the controller is *)
(* reading them, not even after a call that gave up and left TXRTS set     *)
(* (lines 334-335 before 340-359).                                         *)
(***************************************************************************)
StableWhileSending == [][txrts => UNCHANGED <<mem, etxnd>>]_vars

(***************************************************************************)
(* SendPacket gives up exactly one tick past the timeout, also when the    *)
(* tick counter wraps in between: never early, never later (line 369).     *)
(***************************************************************************)
GivesUpOnTime == [][pc = "clock" /\ pc' = "idle" => waited = Timeout + 1]_vars

Pending == pc \in {"pointers", "write", "end", "trigger"} \/ txrts

Wire == INSTANCE TxWire
  WITH issued  <- req.id,
       current <- IF Pending THEN req ELSE None

(***************************************************************************)
(* The send path implements TxWire: whatever stalls, late completions and  *)
(* give-ups happen, every frame on the wire is the whole of one frame      *)
(* handed over, without a byte of an earlier one, in the order of the      *)
(* calls and at most once.                                                 *)
(***************************************************************************)
ImplementsWire == Wire!Spec

(***************************************************************************)
(* Every call returns, also when the controller never clears TXRTS: the    *)
(* main loop is not stopped by a dead transmitter.                         *)
(***************************************************************************)
SendReturns == (pc # "idle") ~> (pc = "idle")
=============================================================================
