------------------------------- MODULE TxWire -------------------------------
(***************************************************************************)
(* What the send path promises: a frame handed to it is put on the wire    *)
(* whole, once, or not at all, and never after a frame that was handed     *)
(* over later.  Handing over a frame gives up the one before it.           *)
(***************************************************************************)
EXTENDS Naturals, Sequences

CONSTANTS
  Lens,        \* lengths a frame can have
  MaxSends     \* bound: number of frames handed over

VARIABLES
  issued,      \* number of frames handed over
  current,     \* the frame that may still go out, or None
  wire         \* the frames the wire has carried, each as its bytes

vars == <<issued, current, wire>>

None     == [id |-> 0, len |-> 0]
Byte(f, n) == [id |-> f.id, n |-> n]
Image(f) == [n \in 1 .. f.len |-> Byte(f, n)]

Init ==
  /\ issued = 0
  /\ current = None
  /\ wire = <<>>

Submit ==
  /\ issued < MaxSends
  /\ issued' = issued + 1
  /\ \E len \in Lens : current' = [id |-> issued + 1, len |-> len]
  /\ UNCHANGED wire

Emit ==
  /\ current # None
  /\ wire' = Append(wire, Image(current))
  /\ current' = None
  /\ UNCHANGED issued

Next == Submit \/ Emit

Spec == Init /\ [][Next]_vars
=============================================================================
