----------------------------- MODULE MCHttpConn -----------------------------
(***************************************************************************)
(* Three clients for two control blocks and two segments, a window of      *)
(* three pieces of data, and one retransmission.                           *)
(***************************************************************************)
EXTENDS HttpConn
=============================================================================
