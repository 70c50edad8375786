----------------------------- MODULE MCTimeouts -----------------------------
(***************************************************************************)
(* The three timers of the firmware with intervals in the ratio 1 : 2 : 2  *)
(* for 250, 1000 and 1000 ms: the last two are due at the same time, the   *)
(* first runs more often.  The clock has 16 values and wraps all the time; *)
(* the main loop can be as late as the longest interval.                   *)
(***************************************************************************)
EXTENDS Timeouts

MCCyclic   == <<"ip_reass", "etharp">>
MCInterval == [h \in {"tcp", "ip_reass", "etharp"} |-> IF h = "tcp" THEN 1 ELSE 2]
=============================================================================
