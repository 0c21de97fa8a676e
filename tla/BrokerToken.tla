---------------------------- MODULE BrokerToken ----------------------------
(***************************************************************************)
(* The access token of the broker.  Every request to the broker's API      *)
(* (prices, indices, past prices, purchases) carries a token, which the    *)
(* client keeps in a field beside a second one with its time of expiry.    *)
(* Goroutines share the fields without a lock: who finds no token, or one  *)
(* that looks expired, asks for a new one and writes both, one after the   *)
(* other.  A refusal to issue one is an answer without a token, and it is  *)
(* written like any other.                                                 *)
(*                                                                         *)
(* Time is counted in hours, and a token is known by the hours the broker  *)
(* will still accept it for.                                               *)
(***************************************************************************)
EXTENDS Integers, FiniteSets

CONSTANTS
  Callers,    \* goroutines: cron jobs and requests
  NoToken,    \* an empty field
  NoHistory,  \* of a request that is not for past prices
  Life,       \* hours the broker accepts a new token for
  Skew,       \* hours the server's clock is ahead of the time the expiry is given in
  Page,       \* days of past prices that come with one answer
  Listings,   \* days a share may have been listed for
  MaxRefusals \* bound: failures, refused and late tokens, restarts

Floor == IF Skew < 0 THEN Skew ELSE 0
Hours == Floor .. Life
Tokens == Hours \cup {NoToken}

ASSUME TokenAssumption ==
  /\ Life \in Nat \ {0} /\ Skew \in Int /\ Skew < Life
  /\ NoToken \notin Int
  /\ Page \in Nat \ {0} /\ Listings \subseteq Nat /\ NoHistory \notin Nat
  /\ MaxRefusals \in Nat

VARIABLES
  accessToken, tokenExpired,  \* the two fields
  doing,      \* per caller: its step
  grant,      \* per caller: the answer to its request for a token
  carried,    \* per caller: the token in the header of its request
  listing,    \* per caller: the days the share it asks for was listed, or NoHistory
  days,       \* per caller: the days it has added up
  refusals,
  (* History variables: no code reads them. *)
  slow,       \* callers with a token under way for which an hour has passed
  overlapped, \* two callers have asked for a token at once
  spoilt,     \* a token still in use was replaced by none
  outcome     \* per caller: how its last request ended

fields    == <<accessToken, tokenExpired>>
request   == <<grant, carried, listing, days>>
tokenVars == <<fields, doing, request, refusals, slow, overlapped, spoilt, outcome>>

TokenInit ==
  /\ accessToken = NoToken /\ tokenExpired = NoToken
  /\ doing = [c \in Callers |-> "idle"]
  /\ grant = [c \in Callers |-> NoToken] /\ carried = [c \in Callers |-> NoToken]
  /\ listing = [c \in Callers |-> NoHistory] /\ days = [c \in Callers |-> 0]
  /\ refusals = 0
  /\ slow = {} /\ overlapped = FALSE /\ spoilt = FALSE
  /\ outcome = [c \in Callers |-> "none"]

Step(c, next) == doing' = [doing EXCEPT ![c] = next]
Mishap == refusals < MaxRefusals /\ refusals' = refusals + 1

(* A request ends with an outcome and leaves nothing behind.               *)
Return(c, result) ==
  /\ Step(c, "idle")
  /\ outcome' = [outcome EXCEPT ![c] = result]
  /\ grant' = [grant EXCEPT ![c] = NoToken] /\ carried' = [carried EXCEPT ![c] = NoToken]
  /\ slow' = slow \ {c}

-----------------------------------------------------------------------------
(* KisToken *)

(* A query: for NoHistory one that a single answer ends, else the average  *)
(* of past prices of a share listed for k days.                            *)
Query(c, k) ==
  /\ doing[c] = "idle"
  /\ Step(c, "check")
  /\ listing' = [listing EXCEPT ![c] = k] /\ days' = [days EXCEPT ![c] = 0]
  /\ outcome' = [outcome EXCEPT ![c] = "none"]
  /\ UNCHANGED <<fields, grant, carried, refusals, slow, overlapped, spoilt>>

DomesticStockPrice(c) == Query(c, NoHistory)
DomesticEtfPrice(c)   == Query(c, NoHistory)
ForeignPrice(c)       == Query(c, NoHistory)
Index(c)              == Query(c, NoHistory)
ForeignBuy(c)         == Query(c, NoHistory)
ForeignAvg(c)         == \E k \in Listings : Query(c, k)

(* The scraper asks the broker by the category of an asset; it has no      *)
(* average of a fund and no extremes of what is traded abroad.  Categories *)
(* that other sites price need no token.                                   *)
PresentPrice(c) == DomesticStockPrice(c) \/ DomesticEtfPrice(c) \/ ForeignPrice(c)
ClosingPrice(c) == DomesticStockPrice(c) \/ DomesticEtfPrice(c) \/ ForeignPrice(c)
TopBottomPrice(c) == DomesticStockPrice(c) \/ DomesticEtfPrice(c)
AvgPrice(c) == DomesticStockPrice(c) \/ ForeignAvg(c)
Buy(c) == ForeignBuy(c)

Call(c) ==
  PresentPrice(c) \/ ClosingPrice(c) \/ TopBottomPrice(c) \/ AvgPrice(c) \/ Buy(c) \/ Index(c)

(* Faulty variant: any token kept is used.                                 *)
LooksFresh_NoExpiry == accessToken # NoToken

(* The expiry, a string, is compared with the server's clock; "" is less   *)
(* than any time.                                                          *)
LooksFresh == accessToken # NoToken /\ tokenExpired # NoToken /\ tokenExpired > Skew

Issuing(c) == doing[c] \in {"ask", "keep", "stamp"}

(* Faulty variant: a token is asked for with every request.                *)
Check_Always(c) ==
  /\ doing[c] = "check"
  /\ Step(c, "ask")
  /\ overlapped' = (overlapped \/ \E d \in Callers : Issuing(d))
  /\ UNCHANGED <<fields, request, refusals, slow, spoilt, outcome>>

Check(c) ==
  /\ doing[c] = "check"
  /\ IF LooksFresh
     THEN Step(c, "take") /\ UNCHANGED overlapped
     ELSE /\ Step(c, "ask")
          /\ overlapped' = (overlapped \/ \E d \in Callers : Issuing(d))
  /\ UNCHANGED <<fields, request, refusals, slow, spoilt, outcome>>

(* The field is read once more to be returned.                             *)
UseToken(c) ==
  /\ doing[c] = "take"
  /\ Step(c, "send")
  /\ carried' = [carried EXCEPT ![c] = accessToken]
  /\ UNCHANGED <<fields, grant, listing, days, refusals, slow, overlapped, spoilt, outcome>>

(* sendRequest decodes whatever comes, also a refusal, which has none of   *)
(* the members: it does not look at the status of the answer.              *)
Granted(c) ==
  /\ doing[c] = "ask"
  /\ Step(c, "keep")
  /\ grant' = [grant EXCEPT ![c] = Life]
  /\ UNCHANGED <<fields, carried, listing, days, refusals, slow, overlapped, spoilt, outcome>>

Refused(c) ==
  /\ doing[c] = "ask"
  /\ Mishap
  /\ Step(c, "keep")
  /\ UNCHANGED <<fields, request, slow, overlapped, spoilt, outcome>>

(* No answer, or one that is not JSON: the query fails.                    *)
AskFails(c) ==
  /\ doing[c] = "ask"
  /\ Mishap
  /\ Return(c, "failed")
  /\ UNCHANGED <<fields, listing, days, overlapped, spoilt>>

(* Both fields are written, one after the other.                           *)
Keep(c) ==
  /\ doing[c] = "keep"
  /\ Step(c, "stamp")
  /\ accessToken' = grant[c]
  /\ spoilt' = (spoilt \/ (LooksFresh /\ grant[c] = NoToken))
  /\ UNCHANGED <<tokenExpired, request, refusals, slow, overlapped, outcome>>

(* Faulty variant: the expiry is computed from the time it is stored at.   *)
Stamp_OwnClock(c) ==
  /\ doing[c] = "stamp"
  /\ Step(c, "send")
  /\ tokenExpired' = IF grant[c] = NoToken THEN NoToken ELSE Life
  /\ carried' = [carried EXCEPT ![c] = grant[c]] /\ grant' = [grant EXCEPT ![c] = NoToken]
  /\ UNCHANGED <<accessToken, listing, days, refusals, slow, overlapped, spoilt, outcome>>

Stamp(c) ==
  /\ doing[c] = "stamp"
  /\ Step(c, "send")
  /\ tokenExpired' = grant[c]
  /\ carried' = [carried EXCEPT ![c] = grant[c]] /\ grant' = [grant EXCEPT ![c] = NoToken]
  /\ UNCHANGED <<accessToken, listing, days, refusals, slow, overlapped, spoilt, outcome>>

-----------------------------------------------------------------------------
(* Requests *)

Valid(t) == t # NoToken /\ t > 0

(* An answer has the days before those that came already, a page at most.  *)
DaysOf(c) ==
  LET left == listing[c] - days[c] IN IF left < Page THEN left ELSE Page

(* Without past prices the answer is the result.  ForeignAvg adds the days *)
(* up and asks again when it has a page of them; an answer without days is *)
(* an error.                                                               *)
AnswerQuery(c) ==
  /\ doing[c] = "send" /\ Valid(carried[c])
  /\ IF listing[c] = NoHistory
     THEN Return(c, "answered") /\ UNCHANGED days
     ELSE LET n == DaysOf(c)
          IN  /\ days' = [days EXCEPT ![c] = @ + n]
              /\ IF n = 0 THEN Return(c, "empty")
                 ELSE IF days[c] + n # Page THEN Return(c, "answered")
                 ELSE /\ Step(c, "check")
                      /\ carried' = [carried EXCEPT ![c] = NoToken]
                      /\ UNCHANGED <<grant, slow, outcome>>
  /\ UNCHANGED <<fields, listing, refusals, overlapped, spoilt>>

(* The broker accepts no other token: a status other than 200, or a code   *)
(* other than "0".                                                         *)
Denied(c) ==
  /\ doing[c] = "send" /\ ~Valid(carried[c])
  /\ Return(c, IF carried[c] = NoToken THEN "tokenless"
               ELSE IF c \in slow THEN "late" ELSE "denied")
  /\ UNCHANGED <<fields, listing, days, refusals, overlapped, spoilt>>

RequestFails(c) ==
  /\ doing[c] = "send"
  /\ Mishap
  /\ Return(c, "failed")
  /\ UNCHANGED <<fields, listing, days, overlapped, spoilt>>

-----------------------------------------------------------------------------
(* The clock and the server *)

Older(t) == IF t = NoToken THEN t ELSE IF t > Floor THEN t - 1 ELSE Floor

TokenOf(c) ==
  CASE doing[c] = "take" -> accessToken
    [] doing[c] \in {"keep", "stamp"} -> grant[c]
    [] doing[c] = "send" -> carried[c]
    [] OTHER -> NoToken
Underway == {c \in Callers : doing[c] \in {"take", "keep", "stamp", "send"}}

(* An hour passes, at most once while a token is under way; that one       *)
(* expires on the way, or ages before it is stored, is a mishap.           *)
Hour ==
  /\ slow = {}
  /\ slow' = Underway
  /\ IF \E c \in Underway : doing[c] \in {"keep", "stamp"} \/ TokenOf(c) = 1
     THEN Mishap ELSE UNCHANGED refusals
  /\ accessToken' = Older(accessToken) /\ tokenExpired' = Older(tokenExpired)
  /\ grant' = [c \in Callers |-> Older(grant[c])]
  /\ carried' = [c \in Callers |-> Older(carried[c])]
  /\ UNCHANGED <<doing, listing, days, overlapped, spoilt, outcome>>

(* The fields are lost with the process.                                   *)
Restart ==
  /\ Mishap
  /\ accessToken' = NoToken /\ tokenExpired' = NoToken
  /\ doing' = [c \in Callers |-> "idle"]
  /\ grant' = [c \in Callers |-> NoToken] /\ carried' = [c \in Callers |-> NoToken]
  /\ slow' = {} /\ overlapped' = FALSE /\ spoilt' = FALSE
  /\ outcome' = [c \in Callers |-> "none"]
  /\ UNCHANGED <<listing, days>>

Proceed(c) ==
  \/ Call(c) \/ Check(c) \/ UseToken(c) \/ Granted(c) \/ Keep(c) \/ Stamp(c) \/ AnswerQuery(c) \/ Denied(c)

TokenNext ==
  \/ \E c \in Callers : Proceed(c) \/ Refused(c) \/ AskFails(c) \/ RequestFails(c)
  \/ Hour \/ Restart

TokenSpec == TokenInit /\ [][TokenNext]_tokenVars

-----------------------------------------------------------------------------
(* Properties *)

Outcomes == {"none", "answered", "empty", "failed", "denied", "late", "tokenless"}

(* Types; an answer is held while it is stored, a header while it is sent. *)
TokenTypeOK ==
  /\ accessToken \in Tokens /\ tokenExpired \in Tokens
  /\ doing \in [Callers -> {"idle", "check", "take", "ask", "keep", "stamp", "send"}]
  /\ grant \in [Callers -> Tokens] /\ carried \in [Callers -> Tokens]
  /\ listing \in [Callers -> Listings \cup {NoHistory}] /\ days \in [Callers -> Nat]
  /\ refusals \in 0..MaxRefusals
  /\ slow \in SUBSET Callers /\ overlapped \in BOOLEAN /\ spoilt \in BOOLEAN
  /\ outcome \in [Callers -> Outcomes]
  /\ \A c \in Callers :
       /\ grant[c] # NoToken => doing[c] \in {"keep", "stamp"}
       /\ carried[c] # NoToken => doing[c] = "send"
       /\ c \in slow => c \in Underway \cup {d \in Callers : doing[d] \in {"check", "ask"}}

(* A token still in use gets lost, and the two fields belong to different  *)
(* tokens, only where two callers have asked for one at once: each found   *)
(* none, and the later answer, or half of it, is written over the earlier. *)
OnlyOverlapsSpoil ==
  spoilt \/ (accessToken # tokenExpired /\ \A c \in Callers : ~Issuing(c))
    => overlapped

(* A request goes out without a token only after the broker has refused    *)
(* one, and with a token that it does not accept only if the server's      *)
(* clock is behind, an hour passed meanwhile, or two have asked at once.   *)
(* An average is one over all the days a share was listed for, two pages   *)
(* at most; there is none of a share without days, or with a page exactly. *)
OutcomesAreExplained ==
  \A c \in Callers :
    /\ outcome[c] = "tokenless" => refusals > 0
    /\ outcome[c] = "denied" => Skew < 0 \/ overlapped
    /\ listing[c] # NoHistory =>
         /\ outcome[c] = "answered" =>
              days[c] = IF listing[c] < 2 * Page THEN listing[c] ELSE 2 * Page
         /\ outcome[c] = "empty" => listing[c] \in {0, Page}

(* Whatever was refused, lost or mixed up: who keeps asking gets an answer *)
(* again.                                                                  *)
QuotesComeBack ==
  \A c \in Callers : doing[c] = "check" ~> outcome[c] \in {"answered", "empty"}
=============================================================================
