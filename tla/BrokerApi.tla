------------------------------ MODULE BrokerApi ------------------------------
(***************************************************************************)
(* What the program does with the broker: the requests of BrokerToken and  *)
(* the order notifications of StockStream.                                 *)
(*                                                                         *)
(* The stream is opened with an approval key of its own and never reads    *)
(* the access token.  Neither reads what the other writes, so a behaviour  *)
(* of both is one of each, in any order; TLC follows one at a time.        *)
(***************************************************************************)
EXTENDS StockStream, BrokerToken

api == <<vars, tokenVars>>

InitApi == Init /\ TokenInit

Quiet == at = "start" /\ bounds = <<0, 0>> /\ \A o \in Orders : fate[o] = "new"
Unused == accessToken = NoToken /\ refusals = 0 /\ \A c \in Callers : doing[c] = "idle"

OfStream(A) == Unused /\ A /\ UNCHANGED tokenVars
OfToken(A) == Quiet /\ A /\ UNCHANGED vars

NextApi == OfStream(Next) \/ OfToken(TokenNext)

SpecApi == InitApi /\ [][NextApi]_api

(* Cron queries again and again, the goroutine of the stream runs on, the  *)
(* broker answers, and time passes.                                        *)
FairApi ==
  /\ SpecApi
  /\ WF_api(OfStream(Client \/ Answer(TRUE)))
  /\ WF_api(OfToken(Hour)) /\ \A c \in Callers : WF_api(OfToken(Proceed(c)))

(* Both are well typed.                                                    *)
TypesOK == TypeOK /\ TokenTypeOK
=============================================================================
