------------------------------- MODULE RxFifo -------------------------------
(***************************************************************************)
(* What the receive path promises its caller, with no ring, no pointers    *)
(* and no registers: a queue of the frames the controller has accepted,    *)
(* handed over one by one, oldest first, each exactly once, and cut to the *)
(* caller's buffer.  A frame the controller refuses never enters the       *)
(* queue.  The promise lasts until the queue is spoiled; from then on the  *)
(* number of hand-overs is still right but their contents are not.         *)
(***************************************************************************)
EXTENDS Naturals, Sequences

CONSTANTS
  Frame,        \* the frames that can arrive
  Result,       \* what one call can return to its caller
  Deliver(_)    \* the result a call returns for an undamaged frame

VARIABLES
  queue,        \* accepted frames the caller has not been given yet
  results,      \* what the calls have returned so far
  spoiled       \* the contents of the queue can no longer be trusted

vars == <<queue, results, spoiled>>

Init ==
  /\ queue = <<>>
  /\ results = <<>>
  /\ spoiled = FALSE

Accept(f) ==
  /\ queue' = Append(queue, f)
  /\ UNCHANGED <<results, spoiled>>

Take ==
  /\ queue # <<>>
  /\ queue' = Tail(queue)
  /\ \/ results' = Append(results, Deliver(Head(queue)))
     \/ /\ spoiled
        /\ \E r \in Result : results' = Append(results, r)
  /\ UNCHANGED spoiled

Spoil ==
  /\ ~spoiled
  /\ spoiled' = TRUE
  /\ UNCHANGED <<queue, results>>

Next == (\E f \in Frame : Accept(f)) \/ Take \/ Spoil

Spec == Init /\ [][Next]_vars
=============================================================================
