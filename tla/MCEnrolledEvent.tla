--------------------------- MODULE MCEnrolledEvent ---------------------------
(* EnrolledEvent on a small instance.                                      *)
EXTENDS EnrolledEvent

CONSTANTS airdrop, r1, r2, cron, manual, u1, none, noRow

OneEvent == {airdrop}
TwoRequests == {r1, r2}
OneRequest == {r1}
TwoRuns == {cron, manual}
OneUrl == {u1}
=============================================================================
