------------------------------ MODULE ByteStream ------------------------------
(***************************************************************************)
(* What a TCP receiver promises its application: it reads the bytes the    *)
(* other side wrote, each once, in order, with nothing left out, and the   *)
(* end of the stream after the last of them.  Bytes are named by their     *)
(* place in the stream.                                                    *)
(***************************************************************************)
EXTENDS Naturals, Sequences

CONSTANT MaxLength   \* bound: the longest stream

VARIABLES
  n,       \* bytes the other side writes
  read,    \* the bytes the application has been given
  eof      \* it has been told that there are no more

vars == <<n, read, eof>>

Prefix(k) == [i \in 1 .. k |-> i]

Init ==
  /\ n \in 0 .. MaxLength
  /\ read = <<>>
  /\ eof = FALSE

Deliver ==
  /\ ~eof
  /\ \E k \in Len(read) .. n :
       /\ read' = Prefix(k)
       /\ eof' \in {FALSE, k = n}
  /\ UNCHANGED n

Spec == Init /\ [][Deliver]_vars
=============================================================================
