---------------------------- MODULE MCChainTrader ----------------------------
(* ChainTrader on a small instance: cron and one request.                  *)
EXTENDS ChainTrader

CONSTANTS cron, http, none

TwoJobs == {cron, http}
CronJob == {cron}
(* Each price lies on an end of the window about the other.                *)
TwoPrices == {100, 103}
(* In halves of a coin; fund 3 holds nothing while the swaps are followed. *)
Holdings == {0, 3, 15, 18}
(* The roots of the powers 1, 2, 4 of a base of 1.1025, in 2^14ths; a      *)
(* price is kept in 2^9ths.                                                *)
ThreeBits == <<15603, 14860, 13479>>
(* One asked for and refused, one exact and one rounded.                   *)
SomeWidths == {1, 2, 5}
Percent == {1}
(* About the middle of the ticks, and beside it.                           *)
SomeWindows == {[low |-> -4, high |-> 2], [low |-> 2, high |-> 4]}
EndOrMiddle == {0, 50}
OneWallet == {[t0 |-> 60, t1 |-> 50]}
=============================================================================
