------------------------------ MODULE MCEtharp ------------------------------
(***************************************************************************)
(* The firmware's table of two entries and three neighbours; times are     *)
(* scaled down and keep their order.  A neighbour's second hardware        *)
(* address tells an address that is current from one that is not.          *)
(***************************************************************************)
EXTENDS Etharp
=============================================================================
