------------------------------- MODULE MCRxPath -------------------------------
(***************************************************************************)
(* RxPath.cfg has the sizes of the firmware: a pool of four buffers, two   *)
(* connections, two ARP entries, and more buffers and entries for          *)
(* reassembly than the pool can fill; two datagrams of three buffers can   *)
(* be cut in every way.  Ages are scaled down.                             *)
(***************************************************************************)
EXTENDS RxPath
=============================================================================
