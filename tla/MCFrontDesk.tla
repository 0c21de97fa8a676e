---------------------------- MODULE MCFrontDesk ----------------------------
(* FrontDesk on a small instance: cash, and a stock in won and a share in  *)
(* dollars; or a stock bought without cash.                                *)
EXTENDS FrontDesk

CONSTANTS won, stock, share, cron, http

SomeHoldings == {won, stock, share}
SomeSums == {[a \in SomeHoldings |-> IF a = won THEN 380 ELSE 20],
             [a \in SomeHoldings |-> CASE a = won -> -20 [] a = stock -> 20 [] a = share -> 0]}
(* The least integer, on a smaller machine.                               *)
LeastInteger == -1000000
OnlyWon == {won}
OnlyShare == {share}
TwoReports == {cron, http}
CronOnly == {cron}
(* The lowest and the highest.                                             *)
TwoLevels == {1, 5}
TwoRates == {1, 2}
AllRoles == {"won", "dollar", "gold", "avax"}
Dollars == {"dollar", "avax"}
=============================================================================
