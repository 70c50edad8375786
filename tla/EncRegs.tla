------------------------------- MODULE EncRegs -------------------------------
(***************************************************************************)
(* Register access of the ENC28J60 driver (ENC28J60/Src/enc28j60.c): the   *)
(* start-up in ENC28J60_Init, the two PHY accesses, and the register       *)
(* traffic of PacketReceive and SendPacket, which all go through one       *)
(* window.  A register is reached by its address in the bank ECON1         *)
(* selects; ECON1 also holds RXEN and TXRTS, and the controller clears     *)
(* TXRTS whenever a transmission ends.  The microcontroller may restart at *)
(* any time; the controller then goes on as it was.                        *)
(*                                                                         *)
(* A function of the driver is the sequence of its SPI transactions, the   *)
(* writes to the two bytes of a register counting as one.  What the values *)
(* mean is left to EncRx and EncTx; here it matters where they land, when, *)
(* and what they do to the bits they are not about.  Names that EncTx has, *)
(* too, begin or end in Regs here: EncDriverProofs extends both.           *)
(***************************************************************************)
EXTENDS Integers, Sequences

CONSTANTS
  Patience,      \* ticks a wait with a timeout lasts (100 or 200)
  MiiDummyByte,  \* the first byte read from an MII register is not its value
  MaxRestarts    \* bound: number of restarts of the microcontroller

ASSUME RegsConstantsOK ==
  Patience \in Nat /\ MiiDummyByte \in BOOLEAN /\ MaxRestarts \in Nat

-----------------------------------------------------------------------------
(* SPI transactions and the functions made of them.                        *)

BankBits == << {}, {"BSEL0"}, {"BSEL1"}, {"BSEL0", "BSEL1"} >>
BSEL     == BankBits[4]

\* The registers of each bank; those of Common are in every bank.
InBank ==
  << {"ERDPT", "EWRPT", "ETXST", "ETXND", "ERXST", "ERXND", "ERXRDPT"},
     {"ERXFCON", "EPKTCNT"},
     {"MACON1", "MACON3", "MACON4", "MAMXFL", "MICMD", "MIREGADR", "MIWR", "MIRD"},
     {"MAADR", "MISTAT"} >>
Common == {"ECON1", "ECON2", "ESTAT"}

Op(kind, reg, bits) == [kind |-> kind, reg |-> reg, bits |-> bits]

WriteReg(r)  == << Op("WCR", r, {}) >>
ReadReg(r)   == << Op("RCR", r, {}) >>
Set(r, bits) == << Op("BFS", r, bits) >>
Clear(r, bits) == << Op("BFC", r, bits) >>
SoftReset    == << Op("SRC", "ESTAT", {}) >>
ReadClock    == << Op("clock", "ESTAT", {}) >>
\* while (!(ReadReg(r) & bit));
Await(r)     == << Op("await", r, {}) >>
\* while (ReadReg(r) & bit) if (HAL_GetTick() - t > patience) break;
Poll(r)      == << Op("poll", r, {}) >>

\* Slips of SetBank: the old bits stay; ECON1 is written as a whole.
SetBankNoClear(b) == Set("ECON1", BankBits[b + 1])
SetBankWhole(b)   == << Op("WCR", "ECON1", BankBits[b + 1]) >>

SetBank(b) == Clear("ECON1", BSEL) \o Set("ECON1", BankBits[b + 1])

StartMii == << Op("WCR", "MICMD", {"MIIRD"}) >>

ReadPHY ==
  SetBank(2) \o WriteReg("MIREGADR") \o StartMii \o
  SetBank(3) \o ReadClock \o Poll("MISTAT") \o
  SetBank(2) \o WriteReg("MICMD") \o ReadReg("MIRD")

\* A slip of WritePHY: the bank of the wait is forgotten.
WritePHYNoBank ==
  SetBank(2) \o WriteReg("MIREGADR") \o WriteReg("MIWR") \o
  ReadClock \o Poll("MISTAT")

\* The write to MIWRH starts it.
WritePHY ==
  SetBank(2) \o WriteReg("MIREGADR") \o WriteReg("MIWR") \o
  SetBank(3) \o ReadClock \o Poll("MISTAT")

Ring    == WriteReg("ERXST") \o WriteReg("ERXND")
Mac     == WriteReg("MACON1") \o WriteReg("MACON3") \o WriteReg("MACON4")
           \o WriteReg("MAMXFL")
Address == WriteReg("MAADR")
Filter  == WriteReg("ERXFCON")
Enable  == Set("ECON1", {"RXEN"})

\* A slip of Configure: reception is on before the filter is chosen.
ConfigureEarly ==
  SetBank(0) \o Ring \o SetBank(2) \o Mac \o SetBank(3) \o Address \o
  WritePHY \o Enable \o SetBank(1) \o Filter \o SetBank(0)

\* ENC28J60_Init once the controller is ready.
Configure ==
  SetBank(0) \o Ring \o SetBank(2) \o Mac \o SetBank(3) \o Address \o
  WritePHY \o SetBank(1) \o Filter \o SetBank(0) \o Enable

\* A slip of Setup: no reset.
SetupNoReset == Await("ESTAT") \o Configure

\* ENC28J60_Init.
Setup == SoftReset \o Await("ESTAT") \o Configure

\* The first read decides whether the rest is done.
PacketReceiveRegs ==
  SetBank(1) \o ReadReg("EPKTCNT") \o
  SetBank(0) \o WriteReg("ERDPT") \o
  SetBank(0) \o WriteReg("ERXRDPT") \o Set("ECON2", {"PKTDEC"})

SendPacketRegs ==
  Clear("ECON1", {"TXRTS"}) \o SetBank(0) \o
  WriteReg("ETXST") \o WriteReg("EWRPT") \o WriteReg("ETXND") \o
  Set("ECON1", {"TXRTS"}) \o ReadClock \o SetBank(0) \o Poll("ECON1")

-----------------------------------------------------------------------------
VARIABLES
  \* the controller
  econ1,     \* the bits set in ECON1
  clkrdy,    \* ESTAT.CLKRDY
  busy,      \* MISTAT.BUSY
  written,   \* registers that hold what the driver has written to them
  \* the driver
  todo,      \* the SPI transactions left of the current call
  elapsed,   \* ticks since the clock was read, up to one past Patience
  \* the surroundings
  restarts   \* number of restarts so far

chipVars == <<econ1, clkrdy, busy, written>>
regVars  == <<chipVars, todo, elapsed, restarts>>

\* Power-on: the controller in its reset state, main calls Init.
RegsInit ==
  /\ econ1 = {}
  /\ clkrdy = FALSE
  /\ busy = FALSE
  /\ written = {}
  /\ todo = Setup
  /\ elapsed = 0
  /\ restarts = 0

CurrentBank == CHOOSE b \in 1 .. 4 : BankBits[b] = econ1 \cap BSEL
Reaches(r)  == r \in Common \cup InBank[CurrentBank]

-----------------------------------------------------------------------------
(* The driver.                                                             *)

Doing(kind) == todo # <<>> /\ Head(todo).kind = kind
Done        == todo' = Tail(todo) /\ UNCHANGED restarts

\* The main loop, or lwIP called by it, uses the driver.
Call ==
  /\ todo = <<>>
  /\ todo' \in {PacketReceiveRegs, SendPacketRegs, ReadPHY, WritePHY}
  /\ UNCHANGED <<chipVars, elapsed, restarts>>

WriteOp ==
  /\ Doing("WCR")
  /\ LET op == Head(todo)
         hit == Reaches(op.reg)
     IN /\ econ1' = IF op.reg = "ECON1" THEN op.bits ELSE econ1
        /\ written' = IF hit THEN written \cup {op.reg} ELSE written
        /\ busy' = (busy \/ (hit /\ (op.reg = "MIWR" \/ "MIIRD" \in op.bits)))
  /\ Done
  /\ UNCHANGED <<clkrdy, elapsed>>

\* BFS and BFC touch the bits of their mask alone.
BitOp ==
  /\ Doing("BFS") \/ Doing("BFC")
  /\ LET op == Head(todo)
     IN econ1' = IF op.reg # "ECON1" THEN econ1
                 ELSE IF op.kind = "BFS" THEN econ1 \cup op.bits
                 ELSE econ1 \ op.bits
  /\ Done
  /\ UNCHANGED <<clkrdy, busy, written, elapsed>>

\* EPKTCNT = 0 ends PacketReceive at once.
ReadOp ==
  /\ Doing("RCR")
  /\ \/ Done
     \/ Head(todo).reg = "EPKTCNT" /\ todo' = <<>> /\ UNCHANGED restarts
  /\ UNCHANGED <<chipVars, elapsed>>

\* 0xFF.  CLKRDY drops, or does not, as the oscillator runs on.
ResetOp ==
  /\ Doing("SRC")
  /\ econ1' = {}
  /\ written' = {}
  /\ busy' = FALSE
  /\ clkrdy' \in {clkrdy, FALSE}
  /\ Done
  /\ UNCHANGED elapsed

AwaitClkrdy ==
  /\ Doing("await")
  /\ clkrdy
  /\ Done
  /\ UNCHANGED <<chipVars, elapsed>>

GetTick ==
  /\ Doing("clock")
  /\ elapsed' = 0
  /\ Done
  /\ UNCHANGED chipVars

\* What a wait can read: the bit, or in the wrong bank anything.
PolledBit ==
  IF Head(todo).reg = "ECON1" THEN {"TXRTS" \in econ1}
  ELSE IF MiiDummyByte \/ ~Reaches(Head(todo).reg) THEN BOOLEAN
  ELSE {busy}

\* A slip of PollOp: no way out but the bit.
PollOpForEver ==
  /\ Doing("poll")
  /\ FALSE \in PolledBit
  /\ Done
  /\ UNCHANGED <<chipVars, elapsed>>

\* Rounds that find the bit set and time left change nothing.
PollOp ==
  /\ Doing("poll")
  /\ FALSE \in PolledBit \/ elapsed > Patience
  /\ Done
  /\ UNCHANGED <<chipVars, elapsed>>

Driver ==
  WriteOp \/ BitOp \/ ReadOp \/ ResetOp \/ AwaitClkrdy \/ GetTick \/ PollOp

-----------------------------------------------------------------------------
(* The controller, the tick, and the reset line of the microcontroller.    *)

OscillatorStarts ==
  /\ ~clkrdy
  /\ clkrdy' = TRUE
  /\ UNCHANGED <<econ1, busy, written, todo, elapsed, restarts>>

TransmissionEnds ==
  /\ "TXRTS" \in econ1
  /\ econ1' = econ1 \ {"TXRTS"}
  /\ UNCHANGED <<clkrdy, busy, written, todo, elapsed, restarts>>

MiiEnds ==
  /\ busy
  /\ busy' = FALSE
  /\ UNCHANGED <<econ1, clkrdy, written, todo, elapsed, restarts>>

TickPasses ==
  /\ elapsed <= Patience
  /\ elapsed' = elapsed + 1
  /\ UNCHANGED <<chipVars, todo, restarts>>

Restart ==
  /\ restarts < MaxRestarts
  /\ restarts' = restarts + 1
  /\ todo' = Setup
  /\ UNCHANGED <<chipVars, elapsed>>

RegsNext ==
  \/ Call \/ Driver
  \/ OscillatorStarts \/ TransmissionEnds \/ MiiEnds \/ TickPasses \/ Restart

\* The driver runs and time passes.  The controller owes nothing: neither
\* that the oscillator starts nor that TXRTS or BUSY ever drops.
RegsFairness == WF_regVars(Driver) /\ WF_regVars(TickPasses)

RegsSpec     == RegsInit /\ [][RegsNext]_regVars
RegsFairSpec == RegsSpec /\ RegsFairness
-----------------------------------------------------------------------------
(* Correctness.                                                            *)

RxConfig == {"ERXST", "ERXND", "MACON1", "MACON3", "MACON4", "MAMXFL", "MAADR",
             "ERXFCON"}

\* The register the driver accesses in a step that takes the head of todo.
Accessed == IF todo # <<>> /\ todo' = Tail(todo) THEN Head(todo).reg ELSE "none"

\* Every variable keeps its type.
RegsTypeOK ==
  /\ econ1 \subseteq BSEL \cup {"RXEN", "TXRTS"}
  /\ clkrdy \in BOOLEAN
  /\ busy \in BOOLEAN
  /\ written \subseteq UNION {InBank[b] : b \in 1 .. 4}
  /\ Len(todo) <= Len(Setup)
  /\ elapsed \in 0 .. Patience + 1
  /\ restarts \in 0 .. MaxRestarts

(***************************************************************************)
(* ReadReg and WriteReg take the bank on trust (lines 79 and 89).  In      *)
(* whatever order the functions are called, wherever each of them returns  *)
(* early or times out, and after any restart, every register is accessed   *)
(* in the bank it lives in.                                                *)
(***************************************************************************)
RightBank == todo # <<>> => Reaches(Head(todo).reg)

(***************************************************************************)
(* The registers are in order: every variable keeps its type, and          *)
(* reception is on only when ring, MAC, address and filter have all been   *)
(* written since the last reset (lines 191-231).                           *)
(***************************************************************************)
Configured ==
  /\ RegsTypeOK
  /\ "RXEN" \in econ1 => RxConfig \subseteq written

(***************************************************************************)
(* The configuration of the receiver is never written while it receives,   *)
(* not by an Init that follows a restart either: the soft reset stops the  *)
(* controller first (lines 180-184).                                       *)
(***************************************************************************)
FrozenWhileReceiving == [][(Accessed \in RxConfig) => "RXEN" \notin econ1]_regVars

(***************************************************************************)
(* ECON1 is shared by the bank selection, RXEN and TXRTS.  Changing banks  *)
(* neither ends a reception nor starts, repeats or cuts off a transmission *)
(* that the controller may be ending at the same moment (lines 70-73, 231, *)
(* 335 and 362).                                                           *)
(***************************************************************************)
BitsKeptApart ==
  [][\A bit \in {"RXEN", "TXRTS"} :
       (bit \in econ1) # (bit \in econ1') =>
         \/ todo' = todo                  \* the controller
         \/ Head(todo).bits = {bit}
         \/ Head(todo).kind = "SRC"]_regVars

(***************************************************************************)
(* ReadPHY and WritePHY leave their wait only when the MII has finished or *)
(* the time is up (lines 116 and 158).                                     *)
(***************************************************************************)
WaitsForPhy ==
  [][Accessed = "MISTAT" => ~busy \/ elapsed > Patience]_regVars

(***************************************************************************)
(* If the oscillator runs in the end, Init and every later call return: a  *)
(* transmitter or a PHY that never gets ready holds nothing up.            *)
(***************************************************************************)
CallsReturn == <>[]clkrdy => []<>(todo = <<>>)
=============================================================================
