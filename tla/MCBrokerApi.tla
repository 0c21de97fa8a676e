---------------------------- MODULE MCBrokerApi ----------------------------
(* BrokerApi on a small instance; a day of the stream has two minutes, a   *)
(* token lives for two hours.                                              *)
EXTENDS BrokerApi

CONSTANTS domestic, overseas, d1, d2, o1, none, cron, http

ThreeOrders == {d1, d2, o1}
Reported == [o \in ThreeOrders |-> IF o = o1 THEN overseas ELSE domestic]
OneSale == {d1}
ShortOrLong == {0, 3}
TwoCallers == {cron, http}
(* A page exactly, a page and a part of one, more than two pages.          *)
SomeListings == {2, 3, 5}
=============================================================================
