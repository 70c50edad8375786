------------------------------- MODULE MCEncRx -------------------------------
(***************************************************************************)
(* A ring of nine bytes and frames that take three or five of them: three  *)
(* short frames fill it exactly, so the read pointer comes back to RXSTART *)
(* on a frame boundary, and a long one does not fit behind a short one.    *)
(* Addresses have two digits in base 4, so the two bytes of a pointer      *)
(* matter, and 7 of the 16 addresses lie outside the ring.                 *)
(***************************************************************************)
EXTENDS EncRx

\* A header that points back into the ring, one that points outside with a
\* length below the checksum's, and one with the largest length.
MCGarbage == {[next |-> 3, len |-> 2], [next |-> 13, len |-> 0],
              [next |-> 0, len |-> 15]}
=============================================================================
