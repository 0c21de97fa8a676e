----------------------------- MODULE MCDailyJob -----------------------------
(* DailyJob on a small instance: from a Friday to the Monday after it.   *)
EXTENDS DailyJob

CONSTANTS a1, old, c1, c2, none

OneAsset == {a1}
ThreeCompanies == {old, c1, c2}
OneCompany == {old}
(* Neither is a whole number of cents, of four units each *)
TwoPrices == {401, 1206}
Avg(x, days) == [ema |-> x, n |-> days]
(* One whose average becomes exponential, one the broker knew no average of *)
SomeEmas == {Avg(602, 199), Avg(0, 0)}
YoungEma == {Avg(602, 5)}
=============================================================================
