----------------------------- MODULE EncRxProofs -----------------------------
(***************************************************************************)
(* Proofs about the receive path of EncRx, for every ring size, every set  *)
(* of frame lengths, every buffer and any number of frames.                *)
(***************************************************************************)
EXTENDS EncRx, SequenceTheorems, TLAPS

-----------------------------------------------------------------------------
(* Arithmetic: the two bytes of a pointer, and offsets in the ring.        *)

\* A product grows with its factor.
LEMMA MulMono ==
  ASSUME NEW a \in Int, NEW b \in Int, NEW c \in Nat, a <= b
  PROVE  c * a <= c * b
  BY SMT

(***************************************************************************)
(* Splitting nextPtr - 1 into two register bytes and joining them again    *)
(* gives the same value, except that -1 becomes the largest one (lines     *)
(* 310-311 with nextPtr = RXSTART).                                        *)
(***************************************************************************)
LEMMA BytePair ==
  ASSUME NEW x \in -1 .. Word - 1
  PROVE  /\ Low(x) \in 0 .. Radix - 1
         /\ (High(x) * Radix) + Low(x) = IF x = -1 THEN Word - 1 ELSE x
<1> DEFINE q == x \div Radix
           r == x % Radix
<1>1. /\ q \in Int
      /\ r \in 0 .. Radix - 1
      /\ x = (Radix * q) + r
  BY ConstantsOK, SMT DEF Word
<1>2. q >= -1
  <2>1. SUFFICES ASSUME q <= -2 PROVE FALSE
    BY <1>1
  <2>2. Radix * q <= Radix * (-2)
    BY <1>1, <2>1, ConstantsOK, MulMono
  <2> QED BY <1>1, <2>2, ConstantsOK DEF Word
<1>3. q < Radix
  <2>1. SUFFICES ASSUME q >= Radix PROVE FALSE
    BY <1>1, ConstantsOK
  <2>2. Radix * Radix <= Radix * q
    BY <1>1, <2>1, ConstantsOK, MulMono
  <2> QED BY <1>1, <2>2, ConstantsOK DEF Word
<1>4. CASE x = -1
  <2>1. q < 1 /\ q # 0
    <3>1. SUFFICES ASSUME q >= 0 PROVE FALSE
      BY <1>1
    <3>2. Radix * 0 <= Radix * q
      BY <1>1, <3>1, ConstantsOK, MulMono
    <3> QED BY <1>1, <1>4, <3>2, ConstantsOK
  <2>2. q = -1
    BY <1>1, <1>2, <2>1
  <2>3. r = Radix - 1
    BY <1>1, <1>4, <2>2, ConstantsOK
  <2>4. (-1) % Radix = Radix - 1
    BY ConstantsOK
  <2> QED BY <1>1, <1>4, <2>2, <2>3, <2>4, ConstantsOK DEF Low, High, Word
<1>5. CASE x # -1
  <2>1. q # -1
    BY <1>1, <1>5, ConstantsOK
  <2>2. q % Radix = q
    BY <1>1, <1>2, <1>3, <2>1, ConstantsOK
  <2>3. Radix * q = q * Radix
    BY <1>1, ConstantsOK
  <2> QED BY <1>1, <1>5, <2>2, <2>3, ConstantsOK DEF Low, High
<1> QED BY <1>4, <1>5

\* A pointer pair holds every address of the ring.
LEMMA WordNat == Word \in Nat /\ Word >= 4 /\ RingSize <= Word
<1>1. Word \in Nat
  BY ConstantsOK DEF Word
<1>2. Radix * 2 <= Radix * Radix
  BY ConstantsOK, MulMono
<1> QED BY <1>1, <1>2, ConstantsOK DEF Word

\* A clipped length fits the buffer.
LEMMA ClipType ==
  ASSUME NEW len \in Nat
  PROVE  Clip(len) \in 0 .. MaxLen
<1>1. (len - FcsSize) % Word \in 0 .. Word - 1
  BY WordNat, ConstantsOK
<1> QED BY <1>1, ConstantsOK DEF Clip

(***************************************************************************)
(* For the lengths the controller reports, the 16-bit subtraction of the   *)
(* checksum does not wrap (line 301).                                      *)
(***************************************************************************)
LEMMA ClipFrame ==
  ASSUME NEW len \in FrameLens
  PROVE  Clip(len) = IF len - FcsSize > MaxLen THEN MaxLen ELSE len - FcsSize
<1>1. len \in Nat /\ FcsSize <= len /\ len < Word
  BY WordNat, ConstantsOK DEF StoredSize
<1>2. (len - FcsSize) % Word = len - FcsSize
  <2>1. len - FcsSize \in 0 .. Word - 1
    BY <1>1, WordNat, ConstantsOK
  <2> QED BY <2>1, WordNat, SMT
<1> QED BY <1>2 DEF Clip

\* Stepping d < RingSize addresses forward is undone by Dist.
LEMMA WrapDist ==
  ASSUME NEW x \in Addr, NEW d \in 0 .. RingSize - 1
  PROVE  Wrap(x + d) \in Addr /\ Dist(x, Wrap(x + d)) = d
  BY ConstantsOK DEF Addr, Wrap, Dist

\* The distance from x to y leads from x to y.
LEMMA DistWrap ==
  ASSUME NEW x \in Addr, NEW y \in Addr
  PROVE  Dist(x, y) \in 0 .. RingSize - 1 /\ Wrap(x + Dist(x, y)) = y
  BY ConstantsOK DEF Addr, Wrap, Dist

\* Addresses and distances are numbers.
LEMMA WrapInt ==
  ASSUME NEW x \in Int
  PROVE  Wrap(x) \in Int
  BY ConstantsOK DEF Wrap

\* Distances are numbers.
LEMMA DistInt ==
  ASSUME NEW x \in Int, NEW y \in Int
  PROVE  Dist(x, y) \in Int
  BY ConstantsOK DEF Dist

\* A step along the ring ends on the ring.
LEMMA WrapAddr ==
  ASSUME NEW x \in Addr, NEW d \in 0 .. RingSize
  PROVE  Wrap(x + d) \in Addr
  BY ConstantsOK DEF Addr, Wrap

\* The ring has an address 0, and the reset value of ERXRDPT.
LEMMA RingNat == RingSize \in Nat /\ 0 \in Addr /\ ResetRdpt \in Addr
  BY ConstantsOK DEF Addr

\* A frame with its header is shorter than the ring.
LEMMA Stored ==
  ASSUME NEW len \in FrameLens
  PROVE  StoredSize(len) \in 1 .. RingSize - 1
  BY ConstantsOK DEF StoredSize

\* A length fits into two bytes of the header.
LEMMA LenWord ==
  ASSUME NEW len \in FrameLens
  PROVE  len \in Nat /\ len \in 0 .. Word - 1
<1>1. len \in Nat /\ len < RingSize /\ RingSize \in Nat
  BY ConstantsOK DEF StoredSize
<1> QED BY <1>1, WordNat

\* A stored frame ends on the ring.
LEMMA EndOfAddr ==
  ASSUME NEW s \in Slot
  PROVE  EndOf(s) \in Addr
<1>1. s.at \in Addr /\ s.len \in FrameLens
  BY DEF Slot
<1>2. StoredSize(s.len) \in 0 .. RingSize
  BY <1>1, Stored, RingNat
<1> QED BY <1>1, <1>2, WrapAddr DEF EndOf

-----------------------------------------------------------------------------
(* What every reachable state has in common, overwritten frames or not.    *)

FrameOK ==
  \/ frame = NoFrame
  \/ /\ frame.id \in 1 .. arrived
     /\ frame.len \in FrameLens
     /\ frame.got \in 0 .. StoredSize(frame.len)

IdsOK == \A i \in 1 .. Len(pending) : pending[i].id \in 1 .. arrived

PairOK == pc = "rdptHigh" => rdptLow = Low(rxPtr - 1)

\* A header is read only when there is a frame behind it.
BusyOK == pc \in {"header", "payload"} => pending # <<>>

TypingInv == /\ TypeOK /\ CountMatches
             /\ FrameOK /\ IdsOK /\ PairOK /\ BusyOK

\* The types hold after the initialisation.
LEMMA InitTyping == Init => TypingInv
<1> SUFFICES ASSUME Init PROVE TypingInv
  OBVIOUS
<1>1. ResetRdpt \in 0 .. Word - 1 /\ Low(ResetRdpt) \in 0 .. Radix - 1
  BY WordNat, BytePair, ConstantsOK DEF Addr
<1>2. 0 \in Addr /\ 0 \in 0 .. Word - 1
  BY WordNat, ConstantsOK DEF Addr
<1>3. hdr \in Header
  BY <1>2 DEF Init, Header
<1>4. frame \in [id : Nat, len : FrameLens \cup {0}, got : Nat]
  BY DEF Init, NoFrame
<1>5. arrived \in 0 .. MaxFrames
  BY ConstantsOK DEF Init
<1>6. TypeOK
  <2>1. pending \in Seq(Slot) /\ delivered \in Seq([id : Nat, len : 0 .. MaxLen])
    BY DEF Init
  <2>2. /\ erxrdpt \in 0 .. Word - 1 /\ rdptLow \in 0 .. Radix - 1
        /\ wrpt \in Addr /\ pktcnt \in Nat /\ damaged \subseteq Nat
        /\ rxPtr \in 0 .. Word - 1
    BY <1>1, <1>2 DEF Init
  <2> QED BY <1>3, <1>4, <1>5, <2>1, <2>2 DEF Init, TypeOK
<1>7. CountMatches /\ IdsOK /\ PairOK /\ FrameOK /\ BusyOK
  BY DEF BusyOK, Init, CountMatches, Finishing, IdsOK, PairOK, FrameOK
<1> QED BY <1>6, <1>7 DEF TypingInv

\* Types: the controller begins a frame.
LEMMA FrameBeginsTyping ==
  ASSUME TypingInv, FrameBegins PROVE TypingInv'
<1>1. TypeOK'
  BY ConstantsOK
     DEF TypingInv, TypeOK, FrameBegins, memVars, drvVars
<1>2. (CountMatches /\ PairOK /\ BusyOK)'
  BY DEF TypingInv, CountMatches, PairOK, BusyOK, Finishing, FrameBegins, memVars, drvVars
<1>3. IdsOK'
  BY ConstantsOK DEF TypingInv, TypeOK, IdsOK, FrameBegins, memVars
<1>4. FrameOK'
  BY ConstantsOK DEF TypingInv, TypeOK, FrameOK, FrameBegins, StoredSize
<1> QED BY <1>1, <1>2, <1>3, <1>4 DEF TypingInv

\* Types: it stores a byte.
LEMMA ByteStoredTyping ==
  ASSUME TypingInv, ByteStored PROVE TypingInv'
<1>1. TypeOK'
  <2> DEFINE hit == {i \in DOMAIN pending : Covers(pending[i], NextByteAt)}
  <2>1. damaged' \subseteq Nat
    <3>1. \A i \in DOMAIN pending : pending[i] \in Slot
      BY DEF TypingInv, TypeOK
    <3>2. \A i \in hit : pending[i].id \in Nat
      BY <3>1 DEF Slot
    <3>3. damaged' = damaged \cup {pending[i].id : i \in hit}
      BY DEF ByteStored
    <3> QED BY <3>2, <3>3 DEF TypingInv, TypeOK
  <2>2. overrun' \in BOOLEAN
    BY DEF TypingInv, TypeOK, ByteStored
  <2>3. frame' \in [id : Nat, len : FrameLens \cup {0}, got : Nat]
    <3>1. frame \in [id : Nat, len : FrameLens \cup {0}, got : Nat]
      BY DEF TypingInv, TypeOK
    <3>2. frame' = [frame EXCEPT !.got = @ + 1]
      BY DEF ByteStored
    <3> QED BY <3>1, <3>2
  <2> QED BY <2>1, <2>2, <2>3 DEF TypingInv, TypeOK, ByteStored, drvVars
<1>2. (CountMatches /\ PairOK /\ IdsOK /\ BusyOK)'
  BY DEF TypingInv, CountMatches, PairOK, BusyOK, IdsOK, Finishing, ByteStored, drvVars
<1>3. FrameOK'
  <2>1. /\ frame.id \in 1 .. arrived
        /\ frame.len \in FrameLens
        /\ frame.got \in 0 .. StoredSize(frame.len)
    BY DEF TypingInv, FrameOK, ByteStored, NoFrame
  <2>2. StoredSize(frame.len) \in Nat
    BY <2>1, Stored, RingNat
  <2>3. /\ frame'.id = frame.id /\ frame'.len = frame.len
        /\ frame'.got = frame.got + 1
    BY DEF ByteStored, TypingInv, TypeOK
  <2>4. frame.got + 1 \in 0 .. StoredSize(frame.len)
    BY <2>1, <2>2 DEF ByteStored
  <2>5. arrived' = arrived
    BY DEF ByteStored
  <2> QED BY <2>1, <2>3, <2>4, <2>5 DEF FrameOK, StoredSize
<1> QED BY <1>1, <1>2, <1>3 DEF TypingInv

\* Types: it refuses the frame for want of room.
LEMMA FrameRefusedTyping ==
  ASSUME TypingInv, FrameRefused PROVE TypingInv'
  BY DEF TypingInv, TypeOK, CountMatches, PairOK, BusyOK, IdsOK, FrameOK, Finishing,
         FrameRefused, NoFrame, memVars, drvVars

\* Types: it completes the frame and counts it.
LEMMA FrameStoredTyping ==
  ASSUME TypingInv, FrameStored PROVE TypingInv'
<1> DEFINE s == [id |-> frame.id, at |-> wrpt, len |-> frame.len]
<1>1. frame.id \in 1 .. arrived /\ frame.len \in FrameLens
  BY DEF TypingInv, FrameOK, FrameStored, NoFrame
<1>2. s \in Slot /\ arrived \in Nat
  BY <1>1, ConstantsOK DEF TypingInv, TypeOK, Slot
<1>3. pending \in Seq(Slot) /\ pending' = Append(pending, s)
  BY DEF TypingInv, TypeOK, FrameStored
<1>4. pending' \in Seq(Slot) /\ Len(pending') = Len(pending) + 1
  BY <1>2, <1>3
<1>5. wrpt' \in Addr
  BY <1>1, <1>2, EndOfAddr DEF FrameStored, EndOf
<1>6. TypeOK'
  <2>1. frame' \in [id : Nat, len : FrameLens \cup {0}, got : Nat]
    BY DEF FrameStored, NoFrame
  <2>2. pktcnt' \in Nat
    BY DEF TypingInv, TypeOK, FrameStored
  <2> QED BY <1>4, <1>5, <2>1, <2>2
          DEF TypingInv, TypeOK, FrameStored, drvVars
<1>7. (CountMatches /\ PairOK /\ BusyOK)'
  <2>1. pending' # <<>> /\ Len(pending) \in Nat
    BY <1>3, <1>4
  <2>2. CountMatches'
    BY <1>4, <2>1 DEF TypingInv, CountMatches, Finishing, FrameStored, drvVars
  <2> QED BY <2>1, <2>2 DEF TypingInv, PairOK, BusyOK, FrameStored, drvVars
<1>8. IdsOK'
  BY <1>1, <1>3, <1>4 DEF TypingInv, IdsOK, FrameStored
<1>9. FrameOK'
  BY DEF FrameOK, FrameStored
<1> QED BY <1>6, <1>7, <1>8, <1>9 DEF TypingInv

\* Types: the driver reads EPKTCNT.
LEMMA ReadCountTyping ==
  ASSUME TypingInv, ReadCount PROVE TypingInv'
  BY DEF TypingInv, TypeOK, CountMatches, PairOK, BusyOK, IdsOK, FrameOK, Finishing,
         ReadCount, ctlVars, memVars

\* Types: it reads the six bytes of a header.
LEMMA ReadHeaderTyping ==
  ASSUME TypingInv, ReadHeader PROVE TypingInv'
<1>1. hdr' \in Header
  <2>1. CASE \E i \in HeaderAt :
               hdr' = [next |-> EndOf(pending[i]), len |-> pending[i].len]
    <3>1. PICK i \in HeaderAt :
            hdr' = [next |-> EndOf(pending[i]), len |-> pending[i].len]
      BY <2>1
    <3>2. pending[i] \in Slot
      BY DEF HeaderAt, TypingInv, TypeOK
    <3>3. EndOf(pending[i]) \in 0 .. Word - 1
      BY <3>2, EndOfAddr, WordNat, ConstantsOK DEF Addr
    <3>4. pending[i].len \in 0 .. Word - 1
      BY <3>2, LenWord DEF Slot
    <3> QED BY <3>1, <3>3, <3>4 DEF Header
  <2>2. CASE hdr' \in GarbageHeaders
    BY <2>2, ConstantsOK
  <2> QED BY <2>1, <2>2 DEF ReadHeader
<1>2. TypeOK'
  BY <1>1 DEF TypingInv, TypeOK, ReadHeader, ctlVars, memVars
<1>3. (CountMatches /\ PairOK /\ IdsOK /\ FrameOK /\ BusyOK)'
  BY DEF TypingInv, TypeOK, CountMatches, PairOK, BusyOK, IdsOK, FrameOK, Finishing,
         ReadHeader, ctlVars, memVars
<1> QED BY <1>2, <1>3 DEF TypingInv

\* What the driver reads is a known frame, or a damaged one.
LEMMA PayloadType ==
  ASSUME TypingInv
  PROVE  /\ PayloadRead.id \in 0 .. arrived
         /\ PayloadRead.len \in 0 .. MaxLen
         /\ PayloadRead = [id |-> PayloadRead.id, len |-> PayloadRead.len]
<1> DEFINE i == CHOOSE k \in HeaderAt : TRUE
<1>1. Clip(hdr.len) \in 0 .. MaxLen
  BY ClipType, WordNat DEF TypingInv, TypeOK, Header
<1>2. ASSUME \E k \in HeaderAt : TRUE
      PROVE  pending[i].id \in 0 .. arrived
  <2>1. i \in HeaderAt
    BY <1>2
  <2>2. i \in 1 .. Len(pending)
    BY <2>1 DEF HeaderAt, TypingInv, TypeOK
  <2> QED BY <2>2 DEF TypingInv, TypeOK, IdsOK
<1>3. 0 \in 0 .. arrived
  BY DEF TypingInv, TypeOK
<1> QED BY <1>1, <1>2, <1>3 DEF PayloadRead

\* Types: it reads the bytes of the frame.
LEMMA ReadPayloadTyping ==
  ASSUME TypingInv, ReadPayload PROVE TypingInv'
<1>1. pending \in Seq(Slot) /\ pending # <<>> /\ pending' = Tail(pending)
  BY DEF TypingInv, TypeOK, BusyOK, ReadPayload
<1>2. /\ pending' \in Seq(Slot)
      /\ Len(pending') = Len(pending) - 1
      /\ \A i \in 1 .. Len(pending') : pending'[i] = pending[i + 1]
  BY <1>1
<1>3. delivered' \in Seq([id : Nat, len : 0 .. MaxLen])
  <2>1. arrived \in Nat /\ arrived \in 0 .. MaxFrames
    BY ConstantsOK DEF TypingInv, TypeOK
  <2>2. PayloadRead \in [id : Nat, len : 0 .. MaxLen]
    BY <2>1, PayloadType
  <2> QED BY <2>2 DEF TypingInv, TypeOK, ReadPayload
<1>4. TypeOK'
  BY <1>2, <1>3 DEF TypingInv, TypeOK, ReadPayload, ctlVars, Header
<1>5. (CountMatches /\ PairOK /\ BusyOK)'
  BY <1>1, <1>2 DEF TypingInv, TypeOK, CountMatches, PairOK, BusyOK, Finishing,
                    ReadPayload, ctlVars
<1>6. (IdsOK /\ FrameOK)'
  BY <1>1, <1>2 DEF TypingInv, IdsOK, FrameOK, ReadPayload, ctlVars
<1> QED BY <1>4, <1>5, <1>6 DEF TypingInv

\* Types: it writes the low byte of ERXRDPT.
LEMMA WriteRdptLowTyping ==
  ASSUME TypingInv, WriteRdptLow PROVE TypingInv'
<1>1. rxPtr - 1 \in -1 .. Word - 1
  BY WordNat DEF TypingInv, TypeOK
<1>2. rdptLow' \in 0 .. Radix - 1
  BY <1>1, BytePair DEF WriteRdptLow
<1>3. TypeOK'
  BY <1>2 DEF TypingInv, TypeOK, WriteRdptLow, memVars
<1>4. (CountMatches /\ PairOK /\ BusyOK /\ IdsOK /\ FrameOK)'
  BY DEF TypingInv, CountMatches, PairOK, BusyOK, IdsOK, FrameOK, Finishing,
         WriteRdptLow, memVars
<1> QED BY <1>3, <1>4 DEF TypingInv

\* The two bytes make one value: one before rxPtr, or the largest word.
LEMMA WriteRdptHighValue ==
  ASSUME TypingInv, WriteRdptHigh
  PROVE  erxrdpt' = IF rxPtr = 0 THEN Word - 1 ELSE rxPtr - 1
<1>1. rxPtr \in 0 .. Word - 1 /\ rdptLow = Low(rxPtr - 1)
  BY DEF TypingInv, TypeOK, PairOK, WriteRdptHigh
<1>2. rxPtr - 1 \in -1 .. Word - 1 /\ (rxPtr = 0 <=> rxPtr - 1 = -1)
  BY <1>1, WordNat
<1>3. erxrdpt' = (High(rxPtr - 1) * Radix) + Low(rxPtr - 1)
  BY <1>1 DEF WriteRdptHigh
<1> QED BY <1>2, <1>3, BytePair

\* Types: it writes the high byte, which takes both over.
LEMMA WriteRdptHighTyping ==
  ASSUME TypingInv, WriteRdptHigh PROVE TypingInv'
<1>1. erxrdpt' \in 0 .. Word - 1
  BY WriteRdptHighValue, WordNat DEF TypingInv, TypeOK
<1>2. exposed' \in BOOLEAN
  BY DEF TypingInv, TypeOK, WriteRdptHigh
<1>3. TypeOK'
  BY <1>1, <1>2 DEF TypingInv, TypeOK, WriteRdptHigh, memVars
<1>4. (CountMatches /\ PairOK /\ BusyOK /\ IdsOK /\ FrameOK)'
  BY DEF TypingInv, CountMatches, PairOK, BusyOK, IdsOK, FrameOK, Finishing,
         WriteRdptHigh, memVars
<1> QED BY <1>3, <1>4 DEF TypingInv

\* Types: it takes the frame off EPKTCNT.
LEMMA DecrementCountTyping ==
  ASSUME TypingInv, DecrementCount PROVE TypingInv'
<1>1. Len(pending) \in Nat
  BY DEF TypingInv, TypeOK
<1>2. pktcnt' \in Nat
  BY <1>1 DEF TypingInv, CountMatches, Finishing, DecrementCount
<1>3. TypeOK'
  BY <1>2 DEF TypingInv, TypeOK, DecrementCount, memVars
<1>4. (CountMatches /\ PairOK /\ BusyOK /\ IdsOK /\ FrameOK)'
  BY <1>1 DEF TypingInv, CountMatches, PairOK, BusyOK, IdsOK, FrameOK,
              Finishing, DecrementCount, memVars
<1> QED BY <1>3, <1>4 DEF TypingInv

\* Types: nothing changes.
LEMMA StutterTyping ==
  ASSUME TypingInv, UNCHANGED vars PROVE TypingInv'
  BY DEF TypingInv, TypeOK, CountMatches, PairOK, BusyOK, IdsOK, FrameOK,
         Finishing, vars, ctlVars, memVars, drvVars

\* The types hold always.
LEMMA Typing == Spec => []TypingInv
<1>1. TypingInv /\ [Next]_vars => TypingInv'
  BY FrameBeginsTyping, ByteStoredTyping, FrameRefusedTyping,
     FrameStoredTyping, ReadCountTyping, ReadHeaderTyping, ReadPayloadTyping,
     WriteRdptLowTyping, WriteRdptHighTyping, DecrementCountTyping,
     StutterTyping
  DEF Next, Controller, PacketReceive
<1> QED BY InitTyping, <1>1, PTL DEF Spec

(***************************************************************************)
(* Pointers stay 16-bit values, lengths handed to the caller stay within   *)
(* its buffer, and EPKTCNT never goes below zero.                          *)
(***************************************************************************)
THEOREM TypeCorrect == Spec => []TypeOK
  BY Typing, PTL DEF TypingInv

(***************************************************************************)
(* EPKTCNT always counts the unread frames plus the one being finished     *)
(* (lines 285, 286 and 314).                                               *)
(***************************************************************************)
THEOREM CounterCorrect == Spec => []CountMatches
  BY Typing, PTL DEF TypingInv

-----------------------------------------------------------------------------
(* Where the unread frames lie.                                            *)

Size(i) == StoredSize(pending[i].len)

\* While nothing has been overwritten: the frames lie one behind the other,
\* without overlap, from rxPtr to the frame being received, and a header
\* that has been read is the first frame's.
Layout ==
  ~overrun =>
    /\ rxPtr \in Addr
    /\ damaged = {}
    /\ pending # <<>> => pending[1].at = rxPtr
    /\ \A i \in 1 .. Len(pending) - 1 : pending[i + 1].at = EndOf(pending[i])
    /\ \A i \in 1 .. Len(pending) : Pos(i) + Size(i) <= Used
    /\ \A i, j \in 1 .. Len(pending) : i < j => Pos(i) + Size(i) <= Pos(j)
    /\ wrpt = Wrap(rxPtr + Used)
    /\ Used + frame.got <= RingSize
    /\ pc = "payload" => hdr = [next |-> EndOf(pending[1]),
                                len  |-> pending[1].len]

\* While ERXRDPT has not left the ring: the unread frames and the one being
\* received lie below it.
Guarded ==
  ~exposed =>
    /\ ~overrun
    /\ erxrdpt \in Addr
    /\ Used + frame.got <= Dist(rxPtr, erxrdpt)

RingInv == TypingInv /\ Layout /\ Guarded

\* A byte that fits behind what is unread is not part of it.
LEMMA NotCovered ==
  ASSUME NEW x \in Addr, NEW p \in Nat, NEW u \in Nat, NEW g \in Nat,
         NEW s \in Nat \ {0}, p + s <= u, u + g < RingSize
  PROVE  Dist(Wrap(x + p), Wrap(Wrap(x + u) + g)) >= s
  BY RingNat DEF Addr, Wrap, Dist

\* The unread frames, each with its address and its size.
LEMMA Slots ==
  ASSUME TypingInv
  PROVE  /\ pending \in Seq(Slot) /\ Len(pending) \in Nat
         /\ \A i \in 1 .. Len(pending) :
              /\ pending[i] \in Slot
              /\ pending[i].at \in Addr
              /\ pending[i].len \in FrameLens
              /\ Size(i) \in 1 .. RingSize - 1
<1>1. pending \in Seq(Slot) /\ Len(pending) \in Nat
  BY DEF TypingInv, TypeOK
<1>2. ASSUME NEW i \in 1 .. Len(pending)
      PROVE  /\ pending[i] \in Slot /\ pending[i].at \in Addr
             /\ pending[i].len \in FrameLens
  <2>1. pending[i] \in Slot
    BY <1>1
  <2> QED BY <2>1 DEF Slot
<1>3. ASSUME NEW i \in 1 .. Len(pending)
      PROVE  Size(i) \in 1 .. RingSize - 1
  BY <1>2, Stored DEF Size
<1> QED BY <1>1, <1>2, <1>3

\* Where the unread frames lie, as distances from rxPtr.
LEMMA Places ==
  ASSUME TypingInv, rxPtr \in Addr
  PROVE  /\ Used \in Nat
         /\ \A i \in 1 .. Len(pending) :
              /\ Pos(i) \in 0 .. RingSize - 1
              /\ pending[i].at = Wrap(rxPtr + Pos(i))
<1>1. ASSUME NEW i \in 1 .. Len(pending)
      PROVE  /\ Pos(i) \in 0 .. RingSize - 1
             /\ pending[i].at = Wrap(rxPtr + Pos(i))
  BY Slots, DistWrap DEF Pos
<1>2. Used \in Nat
  <2>1. CASE pending = <<>>
    BY <2>1 DEF Used
  <2>2. CASE pending # <<>>
    <3>1. Len(pending) \in 1 .. Len(pending)
      BY <2>2, Slots
    <3> QED BY <2>2, <3>1, <1>1, Slots, RingNat DEF Used, Size
  <2> QED BY <2>1, <2>2
<1> QED BY <1>1, <1>2

\* The invariant of the ring holds after the initialisation.
LEMMA InitRing == Init => RingInv
<1> SUFFICES ASSUME Init PROVE RingInv
  OBVIOUS
<1>1. TypingInv
  BY InitTyping
<1>2. Used = 0 /\ frame.got = 0 /\ Len(pending) = 0 /\ pending = <<>>
  BY DEF Init, Used, NoFrame
<1>3. Layout
  BY <1>2, RingNat DEF Init, Layout, Wrap, Addr
<1>4. Guarded
  <2>1. Dist(rxPtr, erxrdpt) \in 0 .. RingSize - 1
    BY RingNat, DistWrap DEF Init
  <2> QED BY <1>2, <2>1, RingNat DEF Init, Guarded
<1> QED BY <1>1, <1>3, <1>4 DEF RingInv

\* The bytes stored so far are a number.
LEMMA GotNat ==
  ASSUME TypingInv PROVE frame.got \in Nat
  BY DEF TypingInv, TypeOK

\* Steps that move neither pointer and store nothing.
LEMMA QuietStep ==
  ASSUME TypingInv, TypingInv', Layout, Guarded,
         UNCHANGED <<rxPtr, pending, wrpt, erxrdpt, damaged, hdr, overrun, exposed>>,
         frame'.got <= frame.got,
         pc' = "payload" => pc = "payload"
  PROVE  Layout' /\ Guarded'
<1>1. /\ Used' = Used
      /\ \A i \in 1 .. Len(pending) : Pos(i)' = Pos(i) /\ Size(i)' = Size(i)
  BY DEF Used, Pos, Size
<1>2. frame.got \in Nat /\ frame'.got \in Nat
  BY DEF TypingInv, TypeOK
<1>3. ASSUME ~overrun
      PROVE  /\ Used + frame.got <= RingSize => Used' + frame'.got <= RingSize
             /\ \A d \in Nat : Used + frame.got <= d => Used' + frame'.got <= d
  <2>1. Used \in Nat
    BY <1>3, Places DEF Layout
  <2> QED BY <1>1, <1>2, <2>1, RingNat
<1>4. Layout'
  BY <1>1, <1>3 DEF Layout
<1>5. Guarded'
  <2>1. ASSUME ~exposed, ~overrun PROVE Dist(rxPtr, erxrdpt) \in Nat
    BY <2>1, DistWrap, RingNat DEF Layout, Guarded
  <2> QED BY <1>3, <2>1 DEF Guarded
<1> QED BY <1>4, <1>5

\* Ring: a frame that begins holds nothing yet.
LEMMA FrameBeginsRing ==
  ASSUME RingInv, FrameBegins PROVE RingInv'
<1>1. TypingInv'
  BY FrameBeginsTyping DEF RingInv
<1>2. frame'.got <= frame.got
  BY DEF FrameBegins, NoFrame
<1> QED BY <1>1, <1>2, QuietStep DEF RingInv, FrameBegins, memVars, drvVars

\* Ring: a refused frame leaves nothing.
LEMMA FrameRefusedRing ==
  ASSUME RingInv, FrameRefused PROVE RingInv'
<1>1. TypingInv'
  BY FrameRefusedTyping DEF RingInv
<1>2. frame'.got <= frame.got
  BY GotNat DEF RingInv, FrameRefused, NoFrame
<1> QED BY <1>1, <1>2, QuietStep DEF RingInv, FrameRefused, memVars, drvVars

\* Ring: reading EPKTCNT moves nothing.
LEMMA ReadCountRing ==
  ASSUME RingInv, ReadCount PROVE RingInv'
<1>1. TypingInv'
  BY ReadCountTyping DEF RingInv
<1>2. frame'.got <= frame.got
  BY GotNat DEF RingInv, ReadCount, ctlVars
<1> QED BY <1>1, <1>2, QuietStep DEF RingInv, ReadCount, ctlVars, memVars

\* Ring: the low byte alone is latched and protects what it did.
LEMMA WriteRdptLowRing ==
  ASSUME RingInv, WriteRdptLow PROVE RingInv'
<1>1. TypingInv'
  BY WriteRdptLowTyping DEF RingInv
<1>2. frame'.got <= frame.got
  BY GotNat DEF RingInv, WriteRdptLow
<1> QED BY <1>1, <1>2, QuietStep DEF RingInv, WriteRdptLow, memVars

\* Ring: the count is not part of the ring.
LEMMA DecrementCountRing ==
  ASSUME RingInv, DecrementCount PROVE RingInv'
<1>1. TypingInv'
  BY DecrementCountTyping DEF RingInv
<1>2. frame'.got <= frame.got
  BY GotNat DEF RingInv, DecrementCount
<1> QED BY <1>1, <1>2, QuietStep DEF RingInv, DecrementCount, memVars

\* Ring: nothing changes.
LEMMA StutterRing ==
  ASSUME RingInv, UNCHANGED vars PROVE RingInv'
<1>1. TypingInv'
  BY StutterTyping DEF RingInv
<1>2. frame'.got <= frame.got
  BY GotNat DEF RingInv, vars, ctlVars
<1> QED BY <1>1, <1>2, QuietStep DEF RingInv, vars, ctlVars, memVars, drvVars

(***************************************************************************)
(* A byte that does not reach ERXRDPT lands behind every unread frame.     *)
(***************************************************************************)
LEMMA ByteMisses ==
  ASSUME TypingInv, Layout, ~overrun, Used + frame.got < RingSize
  PROVE  \A i \in 1 .. Len(pending) : ~Covers(pending[i], NextByteAt)
<1> SUFFICES ASSUME NEW i \in 1 .. Len(pending)
             PROVE  ~Covers(pending[i], NextByteAt)
  OBVIOUS
<1>1. rxPtr \in Addr /\ wrpt = Wrap(rxPtr + Used) /\ Pos(i) + Size(i) <= Used
  BY DEF Layout
<1>2. /\ Used \in Nat /\ Pos(i) \in Nat /\ Size(i) \in Nat \ {0}
      /\ pending[i].at = Wrap(rxPtr + Pos(i))
  BY <1>1, Places, Slots, RingNat
<1>3. Dist(Wrap(rxPtr + Pos(i)), Wrap(Wrap(rxPtr + Used) + frame.got)) >= Size(i)
  BY <1>1, <1>2, GotNat, NotCovered
<1>4. Dist(pending[i].at, NextByteAt) >= Size(i)
  BY <1>1, <1>2, <1>3 DEF NextByteAt
<1>5. Dist(pending[i].at, NextByteAt) \in Int
  <2>1. rxPtr \in Int /\ rxPtr + Pos(i) \in Int /\ rxPtr + Used \in Int
    BY <1>1, <1>2 DEF Addr
  <2>2. pending[i].at \in Int /\ wrpt \in Int
    BY <1>1, <1>2, <2>1, WrapInt
  <2>3. wrpt + frame.got \in Int
    BY <2>2, GotNat
  <2> QED BY <2>2, <2>3, WrapInt, DistInt DEF NextByteAt
<1>6. Size(i) = StoredSize(pending[i].len)
  BY DEF Size
<1>7. Dist(pending[i].at, NextByteAt) >= StoredSize(pending[i].len)
  BY <1>4, <1>6
<1>8. StoredSize(pending[i].len) \in Int
  BY <1>2, <1>6
<1> QED BY <1>5, <1>7, <1>8 DEF Covers

\* Ring: a byte goes behind what is unread, or breaks what was exposed.
LEMMA ByteStoredRing ==
  ASSUME RingInv, ByteStored PROVE RingInv'
<1> DEFINE hit == {i \in DOMAIN pending : Covers(pending[i], NextByteAt)}
<1>1. TypingInv' /\ TypingInv /\ Layout /\ Guarded
  BY ByteStoredTyping DEF RingInv
<1>2. /\ UNCHANGED <<rxPtr, pending, wrpt, erxrdpt, hdr, exposed, pc>>
      /\ damaged' = damaged \cup {pending[i].id : i \in hit}
      /\ overrun' = (overrun \/ hit # {})
  BY DEF ByteStored, drvVars
<1>3. /\ Used' = Used
      /\ \A i \in 1 .. Len(pending) : Pos(i)' = Pos(i) /\ Size(i)' = Size(i)
  BY <1>2 DEF Used, Pos, Size
<1>4. /\ frame.got \in Nat /\ frame'.got = frame.got + 1
      /\ frame.got < RingSize
  <2>1. frame.len \in FrameLens
    BY <1>1 DEF TypingInv, FrameOK, ByteStored, NoFrame
  <2>2. StoredSize(frame.len) \in Nat /\ StoredSize(frame.len) < RingSize
    BY <2>1, Stored, RingNat
  <2>3. frame.got \in Nat /\ frame.got < StoredSize(frame.len)
    BY <1>1, GotNat DEF ByteStored
  <2>4. frame'.got = frame.got + 1
    BY <1>1 DEF ByteStored, TypingInv, TypeOK
  <2> QED BY <2>2, <2>3, <2>4, RingNat
<1>5. DOMAIN pending = 1 .. Len(pending)
  BY <1>1, Slots
\* On a full ring the next byte would hit the first unread frame.
<1>6. ASSUME ~overrun' PROVE Used + frame.got < RingSize
  <2>1. ~overrun /\ hit = {}
    BY <1>2, <1>6
  <2>2. rxPtr \in Addr /\ Used \in Nat /\ Used + frame.got <= RingSize
    BY <1>1, <2>1, Places DEF Layout
  <2>3. SUFFICES ASSUME Used + frame.got = RingSize PROVE FALSE
    BY <1>4, <2>2, RingNat
  <2>4. pending # <<>>
    BY <1>4, <2>2, <2>3, RingNat DEF Used
  <2>5. 1 \in 1 .. Len(pending) /\ pending[1].at = rxPtr
    BY <1>1, <2>1, <2>4, Slots DEF Layout
  <2>6. NextByteAt = rxPtr
    <3>1. wrpt = Wrap(rxPtr + Used)
      BY <1>1, <2>1 DEF Layout
    <3> QED BY <1>4, <2>2, <2>3, <3>1, RingNat DEF NextByteAt, Wrap, Addr
  <2>7. Covers(pending[1], NextByteAt)
    <3>1. Dist(rxPtr, rxPtr) = 0
      BY <2>2, RingNat DEF Dist, Addr
    <3>2. 0 < StoredSize(pending[1].len)
      BY <1>1, <2>5, Slots, RingNat DEF Size
    <3> QED BY <2>5, <2>6, <3>1, <3>2 DEF Covers
  <2> QED BY <1>5, <2>1, <2>5, <2>7
<1>7. Layout'
  <2>1. SUFFICES ASSUME ~overrun' PROVE Layout'
    BY DEF Layout
  <2>2. ~overrun /\ hit = {} /\ Used + frame.got < RingSize
    BY <1>2, <1>6, <2>1
  <2>3. damaged' = {}
    BY <1>1, <1>2, <2>2 DEF Layout
  <2>4. Used' + frame'.got <= RingSize
    <3>1. Used \in Nat
      BY <1>1, <2>2, Places DEF Layout
    <3> QED BY <1>3, <1>4, <2>2, <3>1, RingNat
  <2> QED BY <1>1, <1>2, <1>3, <2>2, <2>3, <2>4 DEF Layout
<1>8. Guarded'
  <2>1. SUFFICES ASSUME ~exposed PROVE Guarded'
    BY <1>2 DEF Guarded
  <2>2. /\ ~overrun /\ erxrdpt \in Addr /\ rxPtr \in Addr
        /\ Used + frame.got <= Dist(rxPtr, erxrdpt)
        /\ wrpt = Wrap(rxPtr + Used)
    BY <1>1, <2>1 DEF Guarded, Layout
  <2>3. Used \in Nat /\ Dist(rxPtr, erxrdpt) \in 0 .. RingSize - 1
    BY <1>1, <2>2, Places, DistWrap
  <2>4. Used + frame.got # Dist(rxPtr, erxrdpt)
    <3>1. SUFFICES ASSUME Used + frame.got = Dist(rxPtr, erxrdpt) PROVE FALSE
      OBVIOUS
    <3>2. NextByteAt = Wrap(rxPtr + Dist(rxPtr, erxrdpt))
      BY <1>4, <2>2, <2>3, <3>1, RingNat DEF NextByteAt, Wrap, Addr
    <3> QED BY <2>2, <3>2, DistWrap DEF ByteStored
  <2>5. Used + frame.got < RingSize
    BY <1>4, <2>2, <2>3, RingNat
  <2>6. hit = {}
    BY <1>1, <1>5, <2>2, <2>5, ByteMisses
  <2>7. Used' + frame'.got <= Dist(rxPtr, erxrdpt)
    BY <1>3, <1>4, <2>2, <2>3, <2>4, RingNat
  <2> QED BY <1>2, <2>2, <2>6, <2>7 DEF Guarded
<1> QED BY <1>1, <1>7, <1>8 DEF RingInv

\* Ring: a complete frame is the last of the unread ones.
LEMMA FrameStoredRing ==
  ASSUME RingInv, FrameStored PROVE RingInv'
<1> DEFINE s == [id |-> frame.id, at |-> wrpt, len |-> frame.len]
<1>0. PICK n \in Nat : n = Len(pending)
  BY Slots DEF RingInv
<1>1. TypingInv' /\ TypingInv /\ Layout /\ Guarded
  BY FrameStoredTyping DEF RingInv
<1>2. /\ UNCHANGED <<rxPtr, erxrdpt, hdr, exposed, pc, damaged, overrun>>
      /\ pending' = Append(pending, s)
      /\ wrpt' = Wrap(wrpt + StoredSize(frame.len))
      /\ frame'.got = 0
      /\ frame.got = StoredSize(frame.len)
  BY DEF FrameStored, drvVars, NoFrame
<1>3. frame.len \in FrameLens /\ frame.got \in 1 .. RingSize - 1
  <2>1. frame.len \in FrameLens
    BY <1>1 DEF TypingInv, FrameOK, FrameStored, NoFrame
  <2> QED BY <1>2, <2>1, Stored
<1>4. /\ n \in Nat /\ Len(pending') = n + 1 /\ pending' # <<>>
      /\ \A i \in 1 .. n : pending'[i] = pending[i]
      /\ pending'[n + 1] = s
  BY <1>0, <1>1, <1>2, Slots
<1>5. ASSUME ~overrun
      PROVE  /\ Layout'
             /\ Used' + frame'.got = Used + frame.got
  <2>1. /\ rxPtr \in Addr /\ damaged = {} /\ wrpt = Wrap(rxPtr + Used)
        /\ Used \in Nat /\ Used + frame.got <= RingSize
    BY <1>0, <1>1, <1>5, Places DEF Layout
  <2>2. Used \in 0 .. RingSize - 1
    BY <1>3, <2>1, RingNat
  <2>3. Dist(rxPtr, wrpt) = Used /\ wrpt \in Addr
    BY <2>1, <2>2, WrapDist
  <2>4. \A i \in 1 .. n : Pos(i)' = Pos(i) /\ Size(i)' = Size(i)
    BY <1>2, <1>4 DEF Pos, Size
  <2>5. Pos(n + 1)' = Used /\ Size(n + 1)' = frame.got
    BY <1>2, <1>4, <2>3 DEF Pos, Size
  <2>6. Used' = Used + frame.got
    <3>1. Used' = (Pos(n + 1) + Size(n + 1))'
      BY <1>4 DEF Used, Size, Pos
    <3> QED BY <2>5, <3>1
  <2>7. pending'[1].at = rxPtr
    <3>1. CASE n = 0
      <4>1. pending = <<>>
        BY <1>0, <1>1, <3>1, Slots, EmptySeq
      <4>2. Used = 0 /\ pending'[1] = s
        BY <1>4, <3>1, <4>1 DEF Used
      <4>3. wrpt = rxPtr
        BY <2>1, <4>2, RingNat DEF Wrap, Addr
      <4> QED BY <4>2, <4>3
    <3>2. CASE n # 0
      BY <1>0, <1>1, <1>4, <1>5, <3>2 DEF Layout
    <3> QED BY <3>1, <3>2
  <2>8. \A i \in 1 .. n : pending'[i + 1].at = EndOf(pending'[i])
    <3> SUFFICES ASSUME NEW i \in 1 .. n
                 PROVE  pending'[i + 1].at = EndOf(pending'[i])
      OBVIOUS
    <3>1. CASE i < n
      <4>1. i \in 1 .. n - 1 /\ i + 1 \in 1 .. n
        BY <1>4, <3>1
      <4> QED BY <1>0, <1>1, <1>4, <1>5, <4>1 DEF Layout
    <3>2. CASE i = n
      <4>1. /\ pending # <<>>
            /\ Pos(n) \in 0 .. RingSize - 1 /\ Size(n) \in 1 .. RingSize - 1
            /\ pending[n].at = Wrap(rxPtr + Pos(n))
        BY <1>0, <1>1, <1>4, <2>1, <3>2, Places, Slots
      <4>2. Used = Pos(n) + Size(n)
        BY <1>0, <4>1 DEF Used, Size
      <4>3. Wrap(Wrap(rxPtr + Pos(n)) + Size(n)) = Wrap(rxPtr + Used)
        BY <2>1, <2>2, <4>1, <4>2, RingNat DEF Wrap, Addr
      <4>4. EndOf(pending[n]) = wrpt
        BY <2>1, <4>1, <4>3 DEF EndOf, Size
      <4> QED BY <1>4, <3>2, <4>4
    <3> QED BY <1>4, <3>1, <3>2
  <2>9. \A i \in 1 .. n : Pos(i) + Size(i) <= Used /\ Pos(i) \in Nat /\ Size(i) \in Nat
    BY <1>0, <1>1, <1>5, <2>1, Places, Slots, RingNat DEF Layout
  <2>10. \A i \in 1 .. n + 1 : (Pos(i) + Size(i))' <= Used'
    BY <1>3, <1>4, <2>1, <2>4, <2>5, <2>6, <2>9
  <2>11. \A i, j \in 1 .. n + 1 : i < j => (Pos(i) + Size(i) <= Pos(j))'
    <3> SUFFICES ASSUME NEW i \in 1 .. n + 1, NEW j \in 1 .. n + 1, i < j
                 PROVE  (Pos(i) + Size(i))' <= Pos(j)'
      OBVIOUS
    <3>1. i \in 1 .. n
      BY <1>4
    <3>2. CASE j = n + 1
      BY <2>4, <2>5, <2>9, <3>1, <3>2
    <3>3. CASE j \in 1 .. n
      BY <1>0, <1>1, <1>5, <2>4, <3>1, <3>3 DEF Layout
    <3> QED BY <1>4, <3>2, <3>3
  <2>12. wrpt' = Wrap(rxPtr + Used')
    <3>1. Wrap(Wrap(rxPtr + Used) + frame.got) = Wrap(rxPtr + (Used + frame.got))
      BY <1>3, <2>1, <2>2, RingNat DEF Wrap, Addr
    <3> QED BY <1>2, <2>1, <2>6, <3>1
  <2>13. Used' + frame'.got = Used + frame.got
    BY <1>2, <1>3, <2>1, <2>6
  <2>14. pc' = "payload" => hdr' = [next |-> EndOf(pending'[1]), len |-> pending'[1].len]
    <3>1. SUFFICES ASSUME pc = "payload"
                   PROVE  hdr = [next |-> EndOf(pending'[1]), len |-> pending'[1].len]
      BY <1>2
    <3>2. 1 \in 1 .. n
      BY <1>0, <1>1, <1>4, <3>1 DEF TypingInv, BusyOK
    <3> QED BY <1>1, <1>4, <1>5, <3>1, <3>2 DEF Layout
  <2> QED BY <1>0, <1>2, <1>4, <2>1, <2>7, <2>8, <2>10, <2>11, <2>12, <2>13, <2>14
          DEF Layout, EndOf
<1>6. Layout'
  <2>1. CASE overrun
    BY <1>2, <2>1 DEF Layout
  <2> QED BY <1>5, <2>1
<1>7. Guarded'
  BY <1>1, <1>2, <1>5 DEF Guarded
<1> QED BY <1>1, <1>6, <1>7 DEF RingInv

\* While nothing has been overwritten, what lies at rxPtr is the first frame.
LEMMA HeaderIsFirst ==
  ASSUME TypingInv, Layout, ~overrun, pending # <<>>
  PROVE  HeaderAt = {1}
<1>1. /\ rxPtr \in Addr /\ damaged = {} /\ pending[1].at = rxPtr
      /\ 1 \in 1 .. Len(pending) /\ DOMAIN pending = 1 .. Len(pending)
  BY Slots, EmptySeq DEF Layout
<1>2. Pos(1) = 0 /\ Size(1) >= 1 /\ Size(1) \in Nat
  BY <1>1, Slots, RingNat DEF Pos, Dist, Addr
<1>3. ASSUME NEW i \in 1 .. Len(pending), pending[i].at = rxPtr
      PROVE  i = 1
  <2>1. Pos(i) = 0
    BY <1>1, <1>3, RingNat DEF Pos, Dist, Addr
  <2>2. 1 < i => Pos(1) + Size(1) <= Pos(i)
    BY <1>1 DEF Layout
  <2>3. i = 1 \/ 1 < i
    BY <1>1, Slots
  <2> QED BY <1>2, <2>1, <2>2, <2>3
<1> QED BY <1>1, <1>3 DEF HeaderAt, Readable

\* Ring: the header in hand describes the oldest unread frame.
LEMMA ReadHeaderRing ==
  ASSUME RingInv, ReadHeader PROVE RingInv'
<1>1. TypingInv' /\ TypingInv /\ Layout /\ Guarded
  BY ReadHeaderTyping DEF RingInv
<1>2. UNCHANGED <<rxPtr, pending, wrpt, erxrdpt, frame, damaged, overrun, exposed>>
  BY DEF ReadHeader, ctlVars, memVars
<1>3. /\ Used' = Used
      /\ \A i \in 1 .. Len(pending) : Pos(i)' = Pos(i) /\ Size(i)' = Size(i)
  BY <1>2 DEF Used, Pos, Size
<1>4. ASSUME ~overrun
      PROVE  hdr' = [next |-> EndOf(pending[1]), len |-> pending[1].len]
  <2>1. pending # <<>>
    BY <1>1 DEF TypingInv, BusyOK, ReadHeader
  <2> QED BY <1>1, <1>4, <2>1, HeaderIsFirst DEF ReadHeader
<1>5. Layout'
  BY <1>1, <1>2, <1>3, <1>4 DEF Layout
<1>6. Guarded'
  BY <1>1, <1>2, <1>3 DEF Guarded
<1> QED BY <1>1, <1>5, <1>6 DEF RingInv

\* Moving the start along the ring shortens the distance by as much.
LEMMA Advance ==
  ASSUME NEW x \in Addr, NEW s \in 1 .. RingSize - 1,
         NEW p \in 0 .. RingSize - 1, s <= p
  PROVE  Dist(Wrap(x + s), Wrap(x + p)) = p - s
  BY RingNat DEF Addr, Wrap, Dist

\* Two steps along the ring are one.
LEMMA WrapTwice ==
  ASSUME NEW x \in Addr, NEW s \in 1 .. RingSize - 1,
         NEW u \in Nat, s <= u, u <= RingSize
  PROVE  Wrap(Wrap(x + s) + (u - s)) = Wrap(x + u)
  BY RingNat DEF Addr, Wrap

(***************************************************************************)
(* Reading a frame moves the read pointer to the next one and shrinks the  *)
(* occupied part by exactly what was read (line 308).                      *)
(***************************************************************************)
LEMMA PayloadShift ==
  ASSUME RingInv, ReadPayload, ~overrun,
         NEW n \in Nat, n = Len(pending)
  PROVE  /\ n >= 1 /\ Len(pending') = n - 1
         /\ \A i \in 1 .. n - 1 : pending'[i] = pending[i + 1]
         /\ rxPtr' = EndOf(pending[1]) /\ rxPtr' = Wrap(rxPtr + Size(1))
         /\ rxPtr' \in Addr /\ Size(1) <= Used
         /\ \A i \in 1 .. n - 1 : /\ Pos(i)' = Pos(i + 1) - Size(1)
                                  /\ Size(i)' = Size(i + 1)
         /\ Used' = Used - Size(1)
<1>1. TypingInv /\ Layout /\ rxPtr \in Addr
  BY DEF RingInv, Layout
<1>2. /\ pending # <<>> /\ pending' = Tail(pending) /\ rxPtr' = hdr.next
      /\ pending \in Seq(Slot)
  BY <1>1, Slots DEF TypingInv, BusyOK, ReadPayload
<1>3. n >= 1 /\ 1 \in 1 .. n
  BY <1>2, EmptySeq
<1>4. Len(pending') = n - 1 /\ \A i \in 1 .. n - 1 : pending'[i] = pending[i + 1]
  BY <1>2
<1>5. pending[1].at = rxPtr /\ Size(1) \in 1 .. RingSize - 1 /\ Pos(1) = 0
  BY <1>1, <1>2, <1>3, Slots, RingNat DEF Layout, Pos, Dist, Addr
<1>6. rxPtr' = EndOf(pending[1]) /\ rxPtr' = Wrap(rxPtr + Size(1))
  BY <1>1, <1>2, <1>5 DEF ReadPayload, Layout, EndOf, Size
<1>7. rxPtr' \in Addr
  BY <1>1, <1>5, <1>6, WrapDist, RingNat
<1>8. Size(1) <= Used
  BY <1>1, <1>3, <1>5, RingNat DEF Layout
<1>9. ASSUME NEW i \in 1 .. n - 1
      PROVE  Pos(i)' = Pos(i + 1) - Size(1) /\ Size(i)' = Size(i + 1)
  <2>1. i + 1 \in 1 .. n /\ 1 < i + 1
    BY <1>3
  <2>2. /\ Pos(i + 1) \in 0 .. RingSize - 1
        /\ pending[i + 1].at = Wrap(rxPtr + Pos(i + 1))
    BY <1>1, <2>1, Places
  <2>3. Size(1) <= Pos(i + 1)
    <3>1. Pos(1) + Size(1) <= Pos(i + 1)
      BY <1>1, <1>3, <2>1 DEF Layout
    <3> QED BY <1>5, <3>1, RingNat
  <2>4. Pos(i)' = Dist(rxPtr', pending[i + 1].at)
    BY <1>4 DEF Pos
  <2> QED BY <1>1, <1>4, <1>5, <1>6, <2>2, <2>3, <2>4, Advance DEF Size
<1>10. Used' = Used - Size(1)
  <2>1. CASE n = 1
    <3>1. pending' = <<>>
      <4>1. pending' \in Seq(Slot) /\ Len(pending') = 0
        BY <1>2, <1>4, <2>1
      <4> QED BY <4>1, EmptySeq
    <3>2. Used' = 0
      BY <3>1 DEF Used
    <3>3. Used = Pos(1) + Size(1)
      BY <1>2, <2>1 DEF Used, Size
    <3> QED BY <1>5, <3>2, <3>3, RingNat
  <2>2. CASE n # 1
    <3>1. n - 1 \in 1 .. n - 1 /\ (n - 1) + 1 = n /\ n \in 1 .. n
      BY <1>3, <2>2
    <3>2. pending' # <<>>
      BY <1>4, <3>1
    <3>3. Used' = Pos(n - 1)' + Size(n - 1)'
      BY <1>4, <3>2 DEF Used, Size, Pos
    <3>4. Pos(n - 1)' = Pos(n) - Size(1) /\ Size(n - 1)' = Size(n)
      <4>1. Pos(n - 1)' = Pos((n - 1) + 1) - Size(1) /\ Size(n - 1)' = Size((n - 1) + 1)
        BY <1>9, <3>1
      <4> QED BY <3>1, <4>1
    <3>5. Used = Pos(n) + Size(n)
      BY <1>2 DEF Used, Size
    <3>6. Pos(n) \in Int /\ Size(n) \in Int /\ Size(1) \in Int
      BY <1>1, <1>5, <3>1, Places, Slots, RingNat
    <3> QED BY <3>3, <3>4, <3>5, <3>6
  <2> QED BY <2>1, <2>2
<1> QED BY <1>3, <1>4, <1>6, <1>7, <1>8, <1>9, <1>10

\* Ring: rxPtr passes the frame that was read, which is no longer unread.
LEMMA ReadPayloadRing ==
  ASSUME RingInv, ReadPayload PROVE RingInv'
<1>0. PICK n \in Nat : n = Len(pending)
  BY Slots DEF RingInv
<1>1. TypingInv' /\ TypingInv /\ Layout /\ Guarded
  BY ReadPayloadTyping DEF RingInv
<1>2. /\ UNCHANGED <<wrpt, erxrdpt, frame, damaged, overrun, exposed>>
      /\ pc' # "payload"
  BY DEF ReadPayload, ctlVars
<1>3. Layout'
  <2>1. SUFFICES ASSUME ~overrun PROVE Layout'
    BY <1>2 DEF Layout
  <2>2. /\ n >= 1 /\ Len(pending') = n - 1
        /\ \A i \in 1 .. n - 1 : pending'[i] = pending[i + 1]
        /\ rxPtr' = EndOf(pending[1]) /\ rxPtr' = Wrap(rxPtr + Size(1))
        /\ rxPtr' \in Addr /\ Size(1) <= Used
        /\ \A i \in 1 .. n - 1 : /\ Pos(i)' = Pos(i + 1) - Size(1)
                                 /\ Size(i)' = Size(i + 1)
        /\ Used' = Used - Size(1)
    BY <1>0, <2>1, PayloadShift
  <2>3. /\ rxPtr \in Addr /\ Used \in Nat /\ 1 \in 1 .. n
        /\ Size(1) \in 1 .. RingSize - 1
    BY <1>0, <1>1, <2>1, <2>2, Places, Slots DEF Layout
  <2>4. \A i \in 1 .. n : Pos(i) \in Nat /\ Size(i) \in Nat
    BY <1>0, <1>1, <2>3, Places, Slots, RingNat
  <2>5. pending' # <<>> => pending'[1].at = rxPtr'
    <3>1. SUFFICES ASSUME n > 1 PROVE pending'[1].at = rxPtr'
      BY <1>1, <2>2, Slots, EmptySeq DEF TypingInv, TypeOK
    <3>2. 1 \in 1 .. n - 1 /\ pending'[1] = pending[2]
      BY <2>2, <3>1
    <3>3. pending[1 + 1].at = EndOf(pending[1])
      BY <1>0, <1>1, <2>1, <3>2 DEF Layout
    <3> QED BY <2>2, <3>2, <3>3
  <2>6. \A i \in 1 .. Len(pending') - 1 : pending'[i + 1].at = EndOf(pending'[i])
    <3> SUFFICES ASSUME NEW i \in 1 .. n - 2
                 PROVE  pending'[i + 1].at = EndOf(pending'[i])
      BY <2>2
    <3>1. i \in 1 .. n - 1 /\ i + 1 \in 1 .. n - 1
      OBVIOUS
    <3>2. pending[(i + 1) + 1].at = EndOf(pending[i + 1])
      BY <1>0, <1>1, <2>1, <3>1 DEF Layout
    <3> QED BY <2>2, <3>1, <3>2
  <2>7. \A i \in 1 .. Len(pending') : (Pos(i) + Size(i))' <= Used'
    <3> SUFFICES ASSUME NEW i \in 1 .. n - 1
                 PROVE  (Pos(i) + Size(i))' <= Used'
      BY <2>2
    <3>1. i + 1 \in 1 .. n
      BY <2>2
    <3>2. Pos(i + 1) + Size(i + 1) <= Used
      BY <1>0, <1>1, <2>1, <3>1 DEF Layout
    <3>3. /\ Pos(i + 1) \in Nat /\ Size(i + 1) \in Nat
          /\ Pos(i)' = Pos(i + 1) - Size(1) /\ Size(i)' = Size(i + 1)
      BY <2>2, <2>4, <3>1
    <3>4. Pos(i)' + Size(i)' <= Used'
      BY <2>2, <2>3, <3>2, <3>3
    <3> QED BY <3>4
  <2>8. \A i, j \in 1 .. Len(pending') : i < j => (Pos(i) + Size(i) <= Pos(j))'
    <3> SUFFICES ASSUME NEW i \in 1 .. n - 1, NEW j \in 1 .. n - 1, i < j
                 PROVE  (Pos(i) + Size(i))' <= Pos(j)'
      BY <2>2
    <3>1. i + 1 \in 1 .. n /\ j + 1 \in 1 .. n /\ i + 1 < j + 1
      BY <2>2
    <3>2. Pos(i + 1) + Size(i + 1) <= Pos(j + 1)
      BY <1>0, <1>1, <2>1, <3>1 DEF Layout
    <3>3. /\ Pos(i + 1) \in Nat /\ Size(i + 1) \in Nat /\ Pos(j + 1) \in Nat
          /\ Pos(i)' = Pos(i + 1) - Size(1) /\ Size(i)' = Size(i + 1)
          /\ Pos(j)' = Pos(j + 1) - Size(1)
      BY <2>2, <2>4, <3>1
    <3>4. Pos(i)' + Size(i)' <= Pos(j)'
      BY <2>3, <3>2, <3>3
    <3> QED BY <3>4
  <2>9. wrpt' = Wrap(rxPtr' + Used')
    <3>1. wrpt = Wrap(rxPtr + Used) /\ Used + frame.got <= RingSize
      BY <1>1, <2>1 DEF Layout
    <3>2. Used <= RingSize
      BY <1>1, <2>3, <3>1, GotNat, RingNat
    <3>3. Wrap(Wrap(rxPtr + Size(1)) + (Used - Size(1))) = Wrap(rxPtr + Used)
      BY <2>2, <2>3, <3>2, WrapTwice
    <3> QED BY <1>2, <2>2, <3>1, <3>3
  <2>10. Used' + frame'.got <= RingSize
    <3>1. Used + frame.got <= RingSize /\ frame.got \in Nat
      BY <1>1, <2>1, GotNat DEF Layout
    <3> QED BY <1>2, <2>2, <2>3, <3>1, RingNat
  <2>11. damaged' = {}
    BY <1>1, <1>2, <2>1 DEF Layout
  <2> QED BY <1>2, <2>2, <2>5, <2>6, <2>7, <2>8, <2>9, <2>10, <2>11
          DEF Layout, EndOf
<1>4. Guarded'
  <2>1. SUFFICES ASSUME ~exposed PROVE Guarded'
    BY <1>2 DEF Guarded
  <2>2. /\ ~overrun /\ erxrdpt \in Addr /\ rxPtr \in Addr
        /\ Used + frame.got <= Dist(rxPtr, erxrdpt) /\ frame.got \in Nat
    BY <1>1, <2>1, GotNat DEF Guarded, Layout
  <2>3. /\ n >= 1 /\ rxPtr' = Wrap(rxPtr + Size(1)) /\ Size(1) <= Used
        /\ Used' = Used - Size(1)
    BY <1>0, <2>2, PayloadShift
  <2>4. /\ Used \in Nat /\ Size(1) \in 1 .. RingSize - 1
        /\ Dist(rxPtr, erxrdpt) \in 0 .. RingSize - 1
        /\ erxrdpt = Wrap(rxPtr + Dist(rxPtr, erxrdpt))
    BY <1>0, <1>1, <2>2, <2>3, Places, Slots, DistWrap
  <2>5. Size(1) <= Dist(rxPtr, erxrdpt)
    BY <2>2, <2>3, <2>4, RingNat
  <2>6. Dist(rxPtr', erxrdpt) = Dist(rxPtr, erxrdpt) - Size(1)
    <3> DEFINE p == Dist(rxPtr, erxrdpt)
    <3>1. Dist(Wrap(rxPtr + Size(1)), Wrap(rxPtr + p)) = p - Size(1)
      <4> HIDE DEF p
      <4> QED BY <2>2, <2>4, <2>5, Advance DEF p
    <3> QED BY <2>3, <2>4, <3>1
  <2>7. Used' + frame'.got <= Dist(rxPtr', erxrdpt)
    BY <1>2, <2>2, <2>3, <2>4, <2>6, RingNat
  <2> QED BY <1>2, <2>2, <2>7 DEF Guarded
<1> QED BY <1>1, <1>3, <1>4 DEF RingInv

(***************************************************************************)
(* ERXRDPT = nextPtr - 1 gives the controller the whole ring but one byte  *)
(* as long as it stays in the ring (lines 310-311).                        *)
(***************************************************************************)
LEMMA WholeRingBehind ==
  ASSUME TypingInv, WriteRdptHigh, rxPtr \in Addr, erxrdpt' \in Addr
  PROVE  Dist(rxPtr, erxrdpt') = RingSize - 1
<1>1. CASE rxPtr = 0
  <2>1. erxrdpt' = Word - 1
    BY <1>1, WriteRdptHighValue
  <2>2. erxrdpt' = RingSize - 1
    BY <2>1, WordNat, RingNat DEF Addr
  <2> QED BY <1>1, <2>2, RingNat DEF Dist, Addr
<1>2. CASE rxPtr # 0
  <2>1. erxrdpt' = rxPtr - 1
    BY <1>2, WriteRdptHighValue
  <2> QED BY <1>2, <2>1, RingNat DEF Dist, Addr
<1> QED BY <1>1, <1>2

\* Ring: the new ERXRDPT frees what was read, and no more.
LEMMA WriteRdptHighRing ==
  ASSUME RingInv, WriteRdptHigh PROVE RingInv'
<1>1. TypingInv' /\ TypingInv /\ Layout /\ Guarded
  BY WriteRdptHighTyping DEF RingInv
<1>2. /\ UNCHANGED <<rxPtr, pending, wrpt, frame, hdr, damaged, overrun>>
      /\ pc' # "payload"
      /\ exposed' = (exposed \/ erxrdpt' \notin Addr)
  BY DEF WriteRdptHigh, memVars
<1>3. /\ Used' = Used
      /\ \A i \in 1 .. Len(pending) : Pos(i)' = Pos(i) /\ Size(i)' = Size(i)
  BY <1>2 DEF Used, Pos, Size
<1>4. Layout'
  BY <1>1, <1>2, <1>3 DEF Layout
<1>5. Guarded'
  <2>1. SUFFICES ASSUME ~exposed' PROVE Guarded'
    BY DEF Guarded
  <2>2. ~exposed /\ erxrdpt' \in Addr
    BY <1>2, <2>1
  <2>3. /\ ~overrun /\ rxPtr \in Addr /\ erxrdpt \in Addr
        /\ Used + frame.got <= Dist(rxPtr, erxrdpt) /\ frame.got \in Nat
    BY <1>1, <2>2, GotNat DEF Guarded, Layout
  <2>4. Used \in Nat /\ Dist(rxPtr, erxrdpt) \in 0 .. RingSize - 1
    BY <1>1, <2>3, Places, DistWrap
  <2>5. Dist(rxPtr, erxrdpt') = RingSize - 1
    BY <1>1, <2>2, <2>3, WholeRingBehind
  <2>6. Used' + frame'.got <= Dist(rxPtr', erxrdpt')
    BY <1>2, <1>3, <2>3, <2>4, <2>5, RingNat
  <2> QED BY <1>2, <2>2, <2>3, <2>6 DEF Guarded
<1> QED BY <1>1, <1>4, <1>5 DEF RingInv

\* The invariant of the ring holds always.
LEMMA Ring == Spec => []RingInv
<1>1. RingInv /\ [Next]_vars => RingInv'
  BY FrameBeginsRing, ByteStoredRing, FrameRefusedRing, FrameStoredRing,
     ReadCountRing, ReadHeaderRing, ReadPayloadRing, WriteRdptLowRing,
     WriteRdptHighRing, DecrementCountRing, StutterRing
  DEF Next, Controller, PacketReceive
<1> QED BY InitRing, <1>1, PTL DEF Spec

(***************************************************************************)
(* The driver's static rxPtr and the controller's write pointer describe   *)
(* the same ring until an unread frame is overwritten, whatever the sizes  *)
(* and however many frames come (lines 267, 290-291 and 308).              *)
(***************************************************************************)
THEOREM PointersInStep == Spec => []RingInStep
<1>1. RingInv => RingInStep
  BY DEF RingInv, Layout, RingInStep
<1> QED BY Ring, <1>1, PTL

(***************************************************************************)
(* No unread frame is ever overwritten unless ERXRDPT has been given an    *)
(* address outside the ring (lines 310-311).                               *)
(***************************************************************************)
THEOREM UnreadSafe == Spec => []SafeUntilExposed
<1>1. RingInv => SafeUntilExposed
  BY DEF RingInv, Guarded, SafeUntilExposed
<1> QED BY Ring, <1>1, PTL

-----------------------------------------------------------------------------
(* A drained ring is empty.                                                *)

\* ERXRDPT is one below rxPtr from the first hand-over on, except while it
\* is being written.
RdptOK ==
  /\ delivered = <<>> =>
       erxrdpt = ResetRdpt /\ rxPtr = 0 /\ pc \in {"count", "header", "payload"}
  /\ delivered # <<>> /\ pc \notin {"rdptLow", "rdptHigh"} =>
       erxrdpt = IF rxPtr = 0 THEN Word - 1 ELSE rxPtr - 1

\* After a frame was read one has been delivered.
LEMMA DeliveredGrows ==
  ASSUME TypingInv, ReadPayload PROVE delivered' # <<>>
<1>1. PayloadRead \in [id : Nat, len : 0 .. MaxLen]
  <2>1. arrived \in Nat
    BY ConstantsOK DEF TypingInv, TypeOK
  <2> QED BY <2>1, PayloadType
<1>2. Len(delivered') = Len(delivered) + 1 /\ Len(delivered) \in Nat
  BY <1>1 DEF TypingInv, TypeOK, ReadPayload
<1> QED BY <1>2, EmptySeq

\* Between calls ERXRDPT follows rxPtr.
LEMMA Rdpt == Spec => [](RingInv /\ RdptOK)
<1>1. Init => RdptOK
  BY DEF Init, RdptOK
<1>2. ASSUME RingInv, RdptOK, [Next]_vars PROVE RdptOK'
  <2>1. CASE ReadPayload
    BY <1>2, <2>1, DeliveredGrows DEF RingInv, RdptOK, ReadPayload
  <2>2. CASE WriteRdptHigh
    BY <1>2, <2>2, WriteRdptHighValue DEF RingInv, RdptOK, WriteRdptHigh
  <2>3. CASE Controller
    BY <1>2, <2>3 DEF RdptOK, Controller, FrameBegins, ByteStored,
                      FrameRefused, FrameStored, drvVars
  <2>4. CASE ReadCount \/ ReadHeader \/ WriteRdptLow \/ DecrementCount
    BY <1>2, <2>4 DEF RdptOK, ReadCount, ReadHeader, WriteRdptLow,
                      DecrementCount, ctlVars
  <2>5. CASE UNCHANGED vars
    BY <1>2, <2>5 DEF RdptOK, vars, ctlVars, drvVars
  <2> QED BY <1>2, <2>1, <2>2, <2>3, <2>4, <2>5 DEF Next, PacketReceive
<1> QED BY <1>1, <1>2, Ring, PTL DEF Spec

(***************************************************************************)
(* Once every frame has been read, the controller has the whole ring but   *)
(* one byte in front of it, for every ring size (lines 310-311).           *)
(***************************************************************************)
THEOREM RoomWhenEmpty == Spec => []EmptyRingHasRoom
<1>1. ASSUME RingInv, RdptOK PROVE EmptyRingHasRoom
  <2>1. SUFFICES ASSUME ~overrun, pc = "count", pktcnt = 0, erxrdpt \in Addr
                 PROVE  Dist(wrpt, erxrdpt) =
                          IF delivered = <<>> THEN ResetRdpt ELSE RingSize - 1
    BY DEF EmptyRingHasRoom, Unprotected
  <2>2. Len(pending) = 0 /\ pending \in Seq(Slot)
    BY <1>1, <2>1, Slots DEF RingInv, TypingInv, CountMatches, Finishing
  <2>3. Used = 0
    BY <2>2, EmptySeq DEF Used
  <2>4. rxPtr \in Addr /\ wrpt = rxPtr
    BY <1>1, <2>1, <2>3, RingNat DEF RingInv, Layout, Wrap, Addr
  <2>5. CASE delivered = <<>>
    BY <1>1, <2>4, <2>5, RingNat DEF RdptOK, Dist, Addr
  <2>6. CASE delivered # <<>> /\ rxPtr = 0
    <3>1. erxrdpt = Word - 1 /\ erxrdpt = RingSize - 1
      BY <1>1, <2>1, <2>6, WordNat, RingNat DEF RdptOK, Addr
    <3> QED BY <2>4, <2>6, <3>1, RingNat DEF Dist, Addr
  <2>7. CASE delivered # <<>> /\ rxPtr # 0
    <3>1. erxrdpt = rxPtr - 1
      BY <1>1, <2>1, <2>7 DEF RdptOK
    <3> QED BY <2>4, <2>7, <3>1, RingNat DEF Dist, Addr
  <2> QED BY <2>5, <2>6, <2>7
<1> QED BY <1>1, Rdpt, PTL

-----------------------------------------------------------------------------
(* The receive path implements RxFifo.                                     *)

Known == [id : 1 .. MaxFrames, len : FrameLens]
Entry(s) == [id |-> s.id, len |-> s.len]
Queue == [i \in DOMAIN pending |-> [id |-> pending[i].id, len |-> pending[i].len]]

\* The unread frames as the abstract queue has them.
LEMMA QueueSeq ==
  ASSUME TypingInv
  PROVE  /\ Queue \in Seq(Known)
         /\ Len(Queue) = Len(pending)
         /\ \A i \in 1 .. Len(pending) : Queue[i] = Entry(pending[i])
<1>1. DOMAIN pending = 1 .. Len(pending) /\ Len(pending) \in Nat
  BY Slots
<1>2. ASSUME NEW i \in 1 .. Len(pending)
      PROVE  [id |-> pending[i].id, len |-> pending[i].len] \in Known
  <2>1. pending[i].len \in FrameLens /\ pending[i].id \in 1 .. arrived
    BY Slots DEF TypingInv, IdsOK
  <2>2. pending[i].id \in 1 .. MaxFrames
    BY <2>1, ConstantsOK DEF TypingInv, TypeOK
  <2> QED BY <2>1, <2>2 DEF Known
<1>3. Queue \in [1 .. Len(pending) -> Known]
  BY <1>1, <1>2 DEF Queue
<1>4. Queue \in Seq(Known) /\ Len(Queue) = Len(pending)
  BY <1>1, <1>3
<1> QED BY <1>1, <1>4 DEF Queue, Entry

\* The refinement begins where RxFifo begins.
LEMMA InitRefines == Init => Fifo!Init
<1> SUFFICES ASSUME Init PROVE Fifo!Init
  OBVIOUS
<1>1. TypingInv
  BY InitTyping
<1>2. Queue = <<>>
  BY <1>1, QueueSeq, EmptySeq DEF Init
<1> QED BY <1>2 DEF Init, Fifo!Init, Queue

\* No more frames arrive than the bound.
LEMMA ArrivedBound ==
  ASSUME TypingInv PROVE arrived \in Nat /\ arrived <= MaxFrames /\ MaxFrames \in Nat
<1>1. arrived \in 0 .. MaxFrames /\ MaxFrames \in Nat
  BY ConstantsOK DEF TypingInv, TypeOK
<1> QED BY <1>1

\* A stored frame is accepted by the queue.
LEMMA FrameStoredRefines ==
  ASSUME RingInv, FrameStored
  PROVE  \E f \in Known : Fifo!Accept(f)
<1> DEFINE s == [id |-> frame.id, at |-> wrpt, len |-> frame.len]
<1>1. TypingInv /\ TypingInv'
  BY FrameStoredTyping DEF RingInv
<1>2. Entry(s) \in Known
  <2>1. frame.id \in 1 .. arrived /\ frame.len \in FrameLens
    BY <1>1 DEF TypingInv, FrameOK, FrameStored, NoFrame
  <2>2. frame.id \in 1 .. MaxFrames
    BY <1>1, <2>1, ArrivedBound
  <2> QED BY <2>1, <2>2 DEF Entry, Known
<1>3. /\ Len(pending') = Len(pending) + 1 /\ Len(pending) \in Nat
      /\ \A i \in 1 .. Len(pending) : pending'[i] = pending[i]
      /\ pending'[Len(pending) + 1] = s
  BY <1>1, Slots DEF FrameStored
<1>4. Queue' = Append(Queue, Entry(s))
  <2>1. /\ Queue' \in Seq(Known) /\ Len(Queue') = Len(pending')
        /\ \A i \in 1 .. Len(pending') : Queue'[i] = Entry(pending'[i])
    <3>1. /\ (Queue \in Seq(Known))' /\ (Len(Queue) = Len(pending))'
          /\ (\A i \in 1 .. Len(pending) : Queue[i] = Entry(pending[i]))'
      BY <1>1, QueueSeq, PTL
    <3> QED BY <3>1
  <2>2. /\ Queue \in Seq(Known) /\ Len(Queue) = Len(pending)
        /\ \A i \in 1 .. Len(pending) : Queue[i] = Entry(pending[i])
    BY <1>1, QueueSeq
  <2>3. /\ Append(Queue, Entry(s)) \in Seq(Known)
        /\ Len(Append(Queue, Entry(s))) = Len(pending) + 1
        /\ \A i \in 1 .. Len(pending) : Append(Queue, Entry(s))[i] = Queue[i]
        /\ Append(Queue, Entry(s))[Len(pending) + 1] = Entry(s)
    BY <1>2, <2>2
  <2>4. \A i \in 1 .. Len(pending) + 1 : Queue'[i] = Append(Queue, Entry(s))[i]
    BY <1>3, <2>1, <2>2, <2>3 DEF Entry
  <2> QED BY <1>3, <2>1, <2>3, <2>4, SeqEqual
<1>5. UNCHANGED <<delivered, overrun>>
  BY DEF FrameStored, drvVars
<1> QED BY <1>2, <1>4, <1>5 DEF Fifo!Accept, Queue

\* A frame that is read is taken from the queue.
LEMMA ReadPayloadRefines ==
  ASSUME RingInv, ReadPayload
  PROVE  Fifo!Take
<1>1. TypingInv /\ TypingInv' /\ Layout
  BY ReadPayloadTyping DEF RingInv
<1>2. pending # <<>> /\ pending' = Tail(pending) /\ pending \in Seq(Slot)
  BY <1>1, Slots DEF TypingInv, BusyOK, ReadPayload
<1>3. /\ Len(pending') = Len(pending) - 1 /\ 1 \in 1 .. Len(pending)
      /\ \A i \in 1 .. Len(pending) - 1 : pending'[i] = pending[i + 1]
  BY <1>2, EmptySeq
<1>4. /\ Queue \in Seq(Known) /\ Len(Queue) = Len(pending)
      /\ \A i \in 1 .. Len(pending) : Queue[i] = Entry(pending[i])
  BY <1>1, QueueSeq
<1>5. Queue # <<>> /\ Head(Queue) = Entry(pending[1])
  BY <1>3, <1>4, EmptySeq
<1>6. Queue' = Tail(Queue)
  <2>1. /\ Queue' \in Seq(Known) /\ Len(Queue') = Len(pending')
        /\ \A i \in 1 .. Len(pending') : Queue'[i] = Entry(pending'[i])
    <3>1. /\ (Queue \in Seq(Known))' /\ (Len(Queue) = Len(pending))'
          /\ (\A i \in 1 .. Len(pending) : Queue[i] = Entry(pending[i]))'
      BY <1>1, QueueSeq, PTL
    <3> QED BY <3>1
  <2>2. /\ Tail(Queue) \in Seq(Known) /\ Len(Tail(Queue)) = Len(pending) - 1
        /\ \A i \in 1 .. Len(pending) - 1 : Tail(Queue)[i] = Queue[i + 1]
    BY <1>4, <1>5, HeadTailProperties
  <2>3. \A i \in 1 .. Len(pending) - 1 : Queue'[i] = Tail(Queue)[i]
    <3> SUFFICES ASSUME NEW i \in 1 .. Len(pending) - 1
                 PROVE  Queue'[i] = Tail(Queue)[i]
      OBVIOUS
    <3>1. i + 1 \in 1 .. Len(pending) /\ i \in 1 .. Len(pending')
      BY <1>1, <1>3, Slots
    <3>2. Queue'[i] = Entry(pending[i + 1])
      BY <1>3, <2>1, <3>1
    <3>3. Tail(Queue)[i] = Entry(pending[i + 1])
      BY <1>4, <2>2, <3>1
    <3> QED BY <3>2, <3>3
  <2> QED BY <1>3, <2>1, <2>2, <2>3, SeqEqual
<1>7. delivered' = Append(delivered, PayloadRead) /\ overrun' = overrun
  BY DEF ReadPayload
<1>8. overrun => PayloadRead \in [id : 0 .. MaxFrames, len : 0 .. MaxLen]
  <2>1. PayloadRead.id \in 0 .. MaxFrames
    BY <1>1, PayloadType, ArrivedBound
  <2> QED BY <1>1, <2>1, PayloadType
<1>9. ~overrun => PayloadRead = Deliver(Entry(pending[1]))
  <2>1. SUFFICES ASSUME ~overrun PROVE PayloadRead = Deliver(Entry(pending[1]))
    OBVIOUS
  <2>2. /\ HeaderAt = {1}
        /\ hdr = [next |-> EndOf(pending[1]), len |-> pending[1].len]
    BY <1>1, <1>2, <2>1, HeaderIsFirst DEF Layout, ReadPayload
  <2>3. PayloadRead = [id |-> pending[1].id, len |-> Clip(pending[1].len)]
    BY <2>2 DEF PayloadRead
  <2>4. pending[1].len \in FrameLens
    BY <1>1, <1>3, Slots
  <2> QED BY <2>3, <2>4, ClipFrame DEF Deliver, Entry
<1> QED BY <1>5, <1>6, <1>7, <1>8, <1>9 DEF Fifo!Take, Queue

\* A stored byte changes nothing in the queue, or spoils it.
LEMMA ByteStoredRefines ==
  ASSUME RingInv, ByteStored
  PROVE  Fifo!Spoil \/ UNCHANGED Fifo!vars
<1>1. UNCHANGED <<pending, delivered>> /\ (overrun => overrun')
  BY DEF ByteStored, drvVars
<1>2. overrun \in BOOLEAN /\ overrun' \in BOOLEAN
  BY ByteStoredTyping DEF RingInv, TypingInv, TypeOK
<1>3. CASE overrun' = overrun
  BY <1>1, <1>3 DEF Fifo!vars
<1>4. CASE overrun' # overrun
  <2>1. overrun = FALSE /\ overrun' = TRUE
    BY <1>1, <1>2, <1>4
  <2> QED BY <1>1, <2>1 DEF Fifo!Spoil
<1> QED BY <1>3, <1>4

(***************************************************************************)
(* The receive path implements the queue of RxFifo: every step of driver   *)
(* or controller is a step of the queue or leaves it alone.                *)
(***************************************************************************)
THEOREM ReceiveImplementsFifo == Spec => ImplementsFifo
<1>1. ASSUME RingInv, [Next]_vars PROVE [Fifo!Next]_(Fifo!vars)
  <2>1. CASE FrameStored
    BY <1>1, <2>1, FrameStoredRefines DEF Fifo!Next, Known
  <2>2. CASE ReadPayload
    BY <1>1, <2>2, ReadPayloadRefines DEF Fifo!Next
  <2>3. CASE ByteStored
    BY <1>1, <2>3, ByteStoredRefines DEF Fifo!Next
  <2>4. CASE FrameBegins \/ FrameRefused
    BY <2>4 DEF FrameBegins, FrameRefused, memVars, drvVars, Fifo!vars
  <2>5. CASE ReadCount \/ ReadHeader \/ WriteRdptLow \/ WriteRdptHigh \/ DecrementCount
    BY <2>5 DEF ReadCount, ReadHeader, WriteRdptLow, WriteRdptHigh,
                DecrementCount, memVars, Fifo!vars
  <2>6. CASE UNCHANGED vars
    BY <2>6 DEF vars, memVars, drvVars, Fifo!vars
  <2> QED BY <1>1, <2>1, <2>2, <2>3, <2>4, <2>5, <2>6
          DEF Next, Controller, PacketReceive
<1> QED BY InitRefines, <1>1, Ring, PTL DEF Spec, ImplementsFifo, Fifo!Spec
=============================================================================
