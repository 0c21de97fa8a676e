--------------------------- MODULE MCAssetMonitor ---------------------------
(* AssetMonitor on small instances.                                        *)
EXTENDS AssetMonitor

CONSTANTS a1, a2, cron, manual, none

OneAsset == {a1}
TwoAssets == {a1, a2}
OnePass == {cron}
TwoPasses == {cron, manual}
BothBy == [x \in OnePass |-> TwoAssets]
AllByTwo == [x \in TwoPasses |-> OneAsset]
TwoLevels == {1, 3}

Row(buy, sell, top, bottom) == [buy |-> buy, sell |-> sell, top |-> top, bottom |-> bottom]
(* Registered at the highest price; one request puts the buy target up,    *)
(* takes the sell target away and the highest price down.                  *)
OneRow == {Row(1, 3, 3, 3)}
OneRequest == {Row(3, 0, 1, 1)}
=============================================================================
