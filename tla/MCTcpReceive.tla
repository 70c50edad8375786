---------------------------- MODULE MCTcpReceive ----------------------------
(***************************************************************************)
(* A window of six bytes, streams that overrun it by two, sequence        *)
(* numbers that wrap and window sizes that wrap below zero, with three     *)
(* segments in the pool: one more than the firmware has, so that a segment *)
(* can also arrive between two that wait.                                  *)
(***************************************************************************)
EXTENDS TcpReceive
=============================================================================
