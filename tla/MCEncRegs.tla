------------------------------ MODULE MCEncRegs ------------------------------
(***************************************************************************)
(* All orders of calls, each wait cut short or timed out after one tick    *)
(* past Patience, and two restarts anywhere: one that hits a running       *)
(* receiver and one that hits the Init this has led to.                    *)
(***************************************************************************)
EXTENDS EncRegs
=============================================================================
