---------------------------- MODULE MCTimeoutList ----------------------------
(* Two cyclic timers and SNTP.                                               *)
EXTENDS TimeoutList, TLC

CONSTANTS arp, dns, sntp

MCPeriod == arp :> 1 @@ dns :> 2 @@ sntp :> 1
=============================================================================
