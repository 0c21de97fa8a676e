------------------------------ MODULE MCPremium ------------------------------
(* Premium on a small instance.                                            *)
EXTENDS Premium, TLC

CONSTANTS cron, manual, coin, gold, none

TwoPasses == {cron, manual}
OneManual == {manual}
OneCoin == {coin}
OneGold == {gold}
(* Premiums of 4 and 0 percent at a rate of 1300, of 8 and 4 at 1250.      *)
InWon == coin :> 1352 @@ gold :> 13000
InDollars == coin :> 1 @@ gold :> 10
TwoRates == {1250, 1300}
=============================================================================
