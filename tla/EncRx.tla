-------------------------------- MODULE EncRx --------------------------------
(***************************************************************************)
(* The receive path of the ENC28J60 driver: ENC28J60_PacketReceive         *)
(* (ENC28J60/Src/enc28j60.c) running against the controller, which stores  *)
(* frames from the wire in its circular RX buffer at the same time.        *)
(*                                                                         *)
(* The two share the RX buffer, the packet counter EPKTCNT and the read    *)
(* pointer ERXRDPT.  Nothing excludes them from each other: every SPI      *)
(* transaction of the driver is one action here, and the controller may    *)
(* store any number of bytes between two of them.                          *)
(*                                                                         *)
(* The controller is not part of the repository.  It is modelled from the  *)
(* driver's own description of it: a ring from RXSTART to RXEND, a header  *)
(* [next, status, length] before every frame, ERXRDPT as the address below *)
(* which storage must stop, EPKTCNT as the number of stored frames.        *)
(* RXSTART is 0, as in enc28j60.h, so the ring is 0 .. RingSize-1.         *)
(***************************************************************************)
EXTENDS Integers, Sequences

CONSTANTS
  RingSize,       \* RXEND + 1 (3072)
  Radix,          \* values of one register byte (256)
  HdrSize,        \* bytes the controller puts before a frame (6)
  FcsSize,        \* bytes of checksum at the end of a frame (4)
  MaxLen,         \* capacity of the caller's buffer, sizeof(pkt_buf) (400)
  FrameLens,      \* lengths, checksum included, of the frames that arrive
  ResetRdpt,      \* value of ERXRDPT after reset: Init does not write it
  GarbageHeaders, \* what a header read at an address with no header can be
  MaxFrames       \* bound: number of frames that arrive

Word   == Radix * Radix            \* values of uint16_t and of a pointer pair
Addr   == 0 .. RingSize - 1
Header == [next : 0 .. Word - 1, len : 0 .. Word - 1]

StoredSize(len) == HdrSize + len

ASSUME ConstantsOK ==
  /\ RingSize \in Nat /\ Radix \in Nat /\ RingSize <= Word /\ Radix >= 2
  /\ HdrSize \in Nat \ {0} /\ FcsSize \in Nat \ {0} /\ MaxLen \in Nat
  /\ MaxLen < Word
  /\ FrameLens \subseteq Nat
  /\ \A len \in FrameLens : /\ FcsSize <= len
                            /\ StoredSize(len) < RingSize
  /\ ResetRdpt \in Addr
  /\ GarbageHeaders \subseteq Header /\ GarbageHeaders # {}
  /\ MaxFrames \in Nat

VARIABLES
  \* the controller
  erxrdpt,    \* ERXRDPT: storage stops before this address
  rdptLow,    \* the low byte of ERXRDPT, held until the high byte is written
  wrpt,       \* where the frame being received starts in the ring
  frame,      \* the frame being received: id (0 when the wire is idle), len
              \* and the number of bytes stored so far
  pktcnt,     \* EPKTCNT
  arrived,    \* number of frames the wire has carried
  pending,    \* the stored frames the driver has not read, oldest first
  damaged,    \* ids of those whose bytes have been overwritten
  \* the driver
  pc,         \* the next SPI transaction of ENC28J60_PacketReceive
  rxPtr,      \* static rxPtr: where the next header is read
  hdr,        \* the header just read: nextPtr, and pktLen before it is cut
  delivered,  \* what the calls have handed over: frame id (0: garbage), length
  \* history
  overrun,    \* an unread frame has been overwritten
  exposed     \* ERXRDPT has been given an address outside the ring

ctlVars  == <<erxrdpt, rdptLow, wrpt, frame, pktcnt, arrived>>
memVars  == <<pending, damaged, overrun>>
drvVars  == <<pc, rxPtr, hdr, delivered>>
vars     == <<ctlVars, memVars, drvVars, exposed>>

-----------------------------------------------------------------------------
(* Addresses of the ring.                                                  *)

Wrap(a)    == IF a >= RingSize THEN a - RingSize ELSE a
\* how far b lies ahead of a, walking upwards and around
Dist(a, b) == IF b >= a THEN b - a ELSE b - a + RingSize

Slot       == [id : Nat, at : Addr, len : FrameLens]
EndOf(s)   == Wrap(s.at + StoredSize(s.len))
Covers(s, a) == Dist(s.at, a) < StoredSize(s.len)

Low(x)  == x % Radix
High(x) == (x \div Radix) % Radix

\* ERXRDPT protects nothing: no address of the ring equals it.
Unprotected == erxrdpt \notin Addr

NoFrame == [id |-> 0, len |-> 0, got |-> 0]

Init ==
  /\ erxrdpt = ResetRdpt
  /\ rdptLow = Low(ResetRdpt)
  /\ wrpt = 0
  /\ frame = NoFrame
  /\ pktcnt = 0
  /\ arrived = 0
  /\ pending = <<>>
  /\ damaged = {}
  /\ pc = "count"
  /\ rxPtr = 0
  /\ hdr = [next |-> 0, len |-> 0]
  /\ delivered = <<>>
  /\ overrun = FALSE
  /\ exposed = FALSE

-----------------------------------------------------------------------------
(* The controller.                                                         *)

FrameBegins ==
  /\ frame = NoFrame
  /\ arrived < MaxFrames
  /\ arrived' = arrived + 1
  /\ \E len \in FrameLens :
       frame' = [id |-> arrived + 1, len |-> len, got |-> 0]
  /\ UNCHANGED <<erxrdpt, rdptLow, wrpt, pktcnt, memVars, drvVars, exposed>>

NextByteAt == Wrap(wrpt + frame.got)

\* One more byte goes into the ring; whatever was there is gone.
ByteStored ==
  /\ frame.id # 0
  /\ frame.got < StoredSize(frame.len)
  /\ NextByteAt # erxrdpt
  /\ frame' = [frame EXCEPT !.got = @ + 1]
  /\ LET hit == {i \in DOMAIN pending : Covers(pending[i], NextByteAt)}
     IN /\ damaged' = damaged \cup {pending[i].id : i \in hit}
        /\ overrun' = (overrun \/ hit # {})
  /\ UNCHANGED <<erxrdpt, rdptLow, wrpt, pktcnt, arrived, pending, drvVars,
                 exposed>>

\* The frame has reached ERXRDPT: no room, the frame is dropped.
FrameRefused ==
  /\ frame.id # 0
  /\ frame.got < StoredSize(frame.len)
  /\ NextByteAt = erxrdpt
  /\ frame' = NoFrame
  /\ UNCHANGED <<erxrdpt, rdptLow, wrpt, pktcnt, arrived, memVars, drvVars,
                 exposed>>

FrameStored ==
  /\ frame.id # 0
  /\ frame.got = StoredSize(frame.len)
  /\ pending' = Append(pending, [id |-> frame.id, at |-> wrpt, len |-> frame.len])
  /\ wrpt' = Wrap(wrpt + StoredSize(frame.len))
  /\ pktcnt' = pktcnt + 1
  /\ frame' = NoFrame
  /\ UNCHANGED <<erxrdpt, rdptLow, arrived, damaged, overrun, drvVars, exposed>>

Controller == FrameBegins \/ ByteStored \/ FrameRefused \/ FrameStored

-----------------------------------------------------------------------------
(* ENC28J60_PacketReceive, one action per SPI transaction the controller   *)
(* can tell apart.                                                         *)

\* The frame whose header starts at rxPtr, if it is still there.
Readable(s) == s.at = rxPtr /\ s.id \notin damaged
HeaderAt    == {i \in DOMAIN pending : Readable(pending[i])}

\* Two slips of Clip: not cut at all; cut before the checksum is taken off.
ClipUncut(len)   == (len - FcsSize) % Word
ClipTooSoon(len) == ((IF len > MaxLen THEN MaxLen ELSE len) - FcsSize) % Word

\* pktLen -= 4 in 16 bits, then cut to the buffer.
Clip(len) == LET n == (len - FcsSize) % Word
             IN IF n > MaxLen THEN MaxLen ELSE n

\* A slip of ReadCount: the last packet is left for later.
ReadCountNotLast ==
  /\ pc = "count"
  /\ pktcnt > 1
  /\ pc' = "header"
  /\ UNCHANGED <<ctlVars, memVars, rxPtr, hdr, delivered, exposed>>

\* EPKTCNT = 0: the call returns 0, a step that changes nothing.
ReadCount ==
  /\ pc = "count"
  /\ pktcnt # 0
  /\ pc' = "header"
  /\ UNCHANGED <<ctlVars, memVars, rxPtr, hdr, delivered, exposed>>

\* ERDPT := rxPtr, then six bytes from there.
ReadHeader ==
  /\ pc = "header"
  /\ \/ \E i \in HeaderAt :
          hdr' = [next |-> EndOf(pending[i]), len |-> pending[i].len]
     \/ HeaderAt = {} /\ hdr' \in GarbageHeaders
  /\ pc' = "payload"
  /\ UNCHANGED <<ctlVars, memVars, rxPtr, delivered, exposed>>

\* What the buffer holds after the payload transaction.
PayloadRead ==
  [id  |-> IF \E i \in HeaderAt : hdr = [next |-> EndOf(pending[i]),
                                         len  |-> pending[i].len]
           THEN pending[CHOOSE i \in HeaderAt : TRUE].id ELSE 0,
   len |-> Clip(hdr.len)]

\* A slip of ReadPayload: the next header is looked for behind the frame
\* instead of where the controller says it is.
ReadPayloadNoWrap ==
  /\ pc = "payload"
  /\ delivered' = Append(delivered, PayloadRead)
  /\ pending' = Tail(pending)
  /\ rxPtr' = (rxPtr + StoredSize(hdr.len)) % Word
  /\ pc' = "rdptLow"
  /\ UNCHANGED <<ctlVars, damaged, overrun, hdr, exposed>>

\* The payload is in the caller's buffer: the frame counts as read, and
\* rxPtr moves on.
ReadPayload ==
  /\ pc = "payload"
  /\ delivered' = Append(delivered, PayloadRead)
  /\ pending' = Tail(pending)
  /\ rxPtr' = hdr.next
  /\ pc' = "rdptLow"
  /\ UNCHANGED <<ctlVars, damaged, overrun, hdr, exposed>>

\* A slip of WriteRdptLow: the pointer itself, not the address before it.
WriteRdptLowNext ==
  /\ pc = "rdptLow"
  /\ rdptLow' = Low(rxPtr)
  /\ pc' = "rdptHigh"
  /\ UNCHANGED <<erxrdpt, wrpt, frame, pktcnt, arrived, memVars, rxPtr, hdr,
                 delivered, exposed>>

WriteRdptLow ==
  /\ pc = "rdptLow"
  /\ rdptLow' = Low(rxPtr - 1)
  /\ pc' = "rdptHigh"
  /\ UNCHANGED <<erxrdpt, wrpt, frame, pktcnt, arrived, memVars, rxPtr, hdr,
                 delivered, exposed>>

\* A slip of WriteRdptHigh: the borrow does not reach the high byte.
WriteRdptHighNoBorrow ==
  /\ pc = "rdptHigh"
  /\ erxrdpt' = High(rxPtr) * Radix + rdptLow
  /\ exposed' = (exposed \/ erxrdpt' \notin Addr)
  /\ pc' = "pktdec"
  /\ UNCHANGED <<rdptLow, wrpt, frame, pktcnt, arrived, memVars, rxPtr, hdr,
                 delivered>>

\* The pair takes effect with its high byte.
WriteRdptHigh ==
  /\ pc = "rdptHigh"
  /\ erxrdpt' = High(rxPtr - 1) * Radix + rdptLow
  /\ exposed' = (exposed \/ erxrdpt' \notin Addr)
  /\ pc' = "pktdec"
  /\ UNCHANGED <<rdptLow, wrpt, frame, pktcnt, arrived, memVars, rxPtr, hdr,
                 delivered>>

\* A slip of DecrementCount: the packet stays on the counter.
DecrementCountForgotten ==
  /\ pc = "pktdec"
  /\ pc' = "count"
  /\ UNCHANGED <<ctlVars, memVars, rxPtr, hdr, delivered, exposed>>

\* ECON2.PKTDEC, and the call returns pktLen.
DecrementCount ==
  /\ pc = "pktdec"
  /\ pktcnt' = pktcnt - 1
  /\ pc' = "count"
  /\ UNCHANGED <<erxrdpt, rdptLow, wrpt, frame, arrived, memVars, rxPtr, hdr,
                 delivered, exposed>>

PacketReceive ==
  \/ ReadCount \/ ReadHeader \/ ReadPayload
  \/ WriteRdptLow \/ WriteRdptHigh \/ DecrementCount

Next == Controller \/ PacketReceive

\* The main loop calls PacketReceive again and again and none of its steps
\* waits for anything; the controller finishes the frame it has begun.
Fairness ==
  /\ WF_vars(PacketReceive)
  /\ WF_vars(ByteStored \/ FrameRefused \/ FrameStored)

Spec     == Init /\ [][Next]_vars
FairSpec == Spec /\ Fairness
-----------------------------------------------------------------------------
(* Correctness.                                                            *)

\* Offset of the i-th unread frame from the read pointer, and the number of
\* bytes the unread frames occupy.
Pos(i) == Dist(rxPtr, pending[i].at)
Used   == IF pending = <<>> THEN 0
          ELSE Pos(Len(pending)) + StoredSize(pending[Len(pending)].len)

\* The packet the driver has read but not yet taken off EPKTCNT.
Finishing == pc \in {"rdptLow", "rdptHigh", "pktdec"}

(***************************************************************************)
(* Every variable keeps its type; in particular rxPtr and ERXRDPT stay     *)
(* 16-bit values and EPKTCNT never goes below zero.                        *)
(***************************************************************************)
TypeOK ==
  /\ erxrdpt \in 0 .. Word - 1
  /\ rdptLow \in 0 .. Radix - 1
  /\ wrpt \in Addr
  /\ frame \in [id : Nat, len : FrameLens \cup {0}, got : Nat]
  /\ pktcnt \in Nat
  /\ arrived \in 0 .. MaxFrames
  /\ pending \in Seq(Slot)
  /\ damaged \subseteq Nat
  /\ pc \in {"count", "header", "payload", "rdptLow", "rdptHigh", "pktdec"}
  /\ rxPtr \in 0 .. Word - 1
  /\ hdr \in Header
  /\ delivered \in Seq([id : Nat, len : 0 .. MaxLen])
  /\ overrun \in BOOLEAN
  /\ exposed \in BOOLEAN

(***************************************************************************)
(* EPKTCNT counts exactly the unread frames plus the one ReadPayload has   *)
(* taken and DecrementCount has not: the driver never reads a header       *)
(* without a frame behind it and never forgets one (lines 285 and 314).    *)
(***************************************************************************)
CountMatches == pktcnt = Len(pending) + (IF Finishing THEN 1 ELSE 0)

(***************************************************************************)
(* As long as no unread frame has been overwritten, the unread frames lie  *)
(* end to end from the driver's static rxPtr up to the controller's write  *)
(* pointer: two pointers kept on the two sides of the SPI bus, never       *)
(* compared by anybody, describe the same ring.                            *)
(***************************************************************************)
RingInStep ==
  ~overrun =>
    /\ rxPtr \in Addr
    /\ pending # <<>> => pending[1].at = rxPtr
    /\ \A i \in 1 .. Len(pending) - 1 : pending[i + 1].at = EndOf(pending[i])
    /\ wrpt = Wrap(rxPtr + Used)
    /\ Used + frame.got <= RingSize

(***************************************************************************)
(* ERXRDPT does its job while it stays in the ring: no byte of an unread   *)
(* frame is overwritten, whatever the wire delivers between the driver's   *)
(* transactions (lines 307-311).                                           *)
(***************************************************************************)
SafeUntilExposed == ~exposed => ~overrun

(***************************************************************************)
(* Reading every frame gives the whole ring back but the one byte ERXRDPT  *)
(* names (before the first read, what the reset value allows): reception   *)
(* never stalls on an empty ring.                                          *)
(***************************************************************************)
EmptyRingHasRoom ==
  (~overrun /\ pc = "count" /\ pktcnt = 0 /\ ~Unprotected) =>
    Dist(wrpt, erxrdpt) = IF delivered = <<>> THEN ResetRdpt ELSE RingSize - 1

(***************************************************************************)
(* What the header says and the code below it does not keep:               *)
(* enc28j60.h:21 says the RX ring holds the incoming packets, enc28j60.c   *)
(* lines 275 and 307 that ERXRDPT frees only what has been read: no unread *)
(* frame is ever overwritten.                                              *)
(***************************************************************************)
UnreadIntact == ~overrun

\* The frames of the ring as the caller should get them: no checksum, and
\* no more than the buffer holds.
Deliver(f) ==
  [id  |-> f.id,
   len |-> IF f.len - FcsSize > MaxLen THEN MaxLen ELSE f.len - FcsSize]

Fifo == INSTANCE RxFifo
  WITH Frame   <- [id : 1 .. MaxFrames, len : FrameLens],
       Result  <- [id : 0 .. MaxFrames, len : 0 .. MaxLen],
       queue   <- [i \in DOMAIN pending |->
                     [id |-> pending[i].id, len |-> pending[i].len]],
       results <- delivered,
       spoiled <- overrun

(***************************************************************************)
(* The receive path implements the bounded lossy queue of RxFifo: until an *)
(* unread frame is overwritten, the calls return the accepted frames in    *)
(* order, each once, each with its own length less the checksum and cut to *)
(* the buffer; afterwards, still never more than the buffer holds.         *)
(***************************************************************************)
ImplementsFifo == Fifo!Spec

(***************************************************************************)
(* Every stored frame is eventually handed over, or at least replaced in   *)
(* the hand-over by what is left of it: the loop of main.c polls for ever  *)
(* and no call of PacketReceive waits for anything.                        *)
(***************************************************************************)
EveryStoredFrameIsRead ==
  \A n \in 1 .. MaxFrames :
    (Len(delivered) + Len(pending) >= n) ~> (Len(delivered) >= n)
=============================================================================
