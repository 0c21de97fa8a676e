--------------------------- MODULE MCOrderIntake ----------------------------
(* OrderIntake on a small instance.                                       *)
EXTENDS OrderIntake, TLC

CONSTANTS coin, stock, c1, c2, s1, one, two, notOurs, none

ThreeOrders == {c1, c2, s1}
TwoOrders == {c1, c2}
ThreeSources == [o \in ThreeOrders |-> IF o \in {c1, c2} THEN coin ELSE stock]
TwoFunds == {one, two}
=============================================================================
