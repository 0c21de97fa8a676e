--------------------------- MODULE MCInvestLedger ---------------------------
(* InvestLedger on small instances.                                        *)
EXTENDS InvestLedger, TLC

CONSTANTS order, http,   \* the order consumer, a request to POST /invest
          cron,          \* a repricing pass
          f1,            \* a fund
          won, dollar, share   \* assets: the two currencies, a dollar share

TwoWriters == {order, http}
OnePass == {cron}
OneFund == {f1}
Three == {won, dollar, share}
InDollars == {dollar, share}
PriceSet == {3}
RateSet == {0, 5}
OneSize == {2}
OneRate == {5}
Market == [a \in Three |-> IF a = won THEN 1 ELSE 4]
Cash == {won, dollar}
CashMarket == [a \in Cash |-> IF a = won THEN 1 ELSE 4]
DollarOnly == {dollar}
Symmetry == Permutations(TwoWriters)
=============================================================================
