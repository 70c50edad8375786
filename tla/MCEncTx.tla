------------------------------- MODULE MCEncTx -------------------------------
(***************************************************************************)
(* Frames of one and of three bytes, so that a short frame leaves bytes of *)
(* a long one behind it in the TX memory; a timeout of two ticks on a      *)
(* counter of five values, started anywhere, so that it wraps before and   *)
(* during the wait.                                                        *)
(***************************************************************************)
EXTENDS EncTx
=============================================================================
