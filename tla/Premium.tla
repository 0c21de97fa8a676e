------------------------------- MODULE Premium -------------------------------
(***************************************************************************)
(* The premium of a price in Korea over the price abroad.  A run takes the *)
(* coins, or the gold, of the registered assets, fetches both prices of    *)
(* each and the rate of the dollar, and advises to sell, to watch or to    *)
(* buy.  The rate is kept by the scraper for three hours; where it cannot  *)
(* be read the rate is 0.                                                  *)
(***************************************************************************)
EXTENDS Integers

CONSTANTS
  Passes,     \* goroutines: the cron jobs and launches by the user
  Manual,     \* those of them that the user launched
  Coins, Golds,  \* registered assets of either category
  Home, Abroad,  \* the price of each in won and in dollars
  Rates,      \* rates of the dollar
  NoAsset,    \* no asset: of a pass, or the gold not looked up yet
  MaxDrifts,  \* bound: changes of the rate
  MaxLapses,  \* bound: times the rate becomes three hours old
  MaxFaults   \* bound: failed calls

Assets == Coins \cup Golds

VARIABLES
  dollar,    \* the rate of the dollar
  rate, fresh,  \* Scraper.exchange: the rate kept, and younger than three hours
  goldId,    \* package variable: the gold's id, once looked up
  live,      \* assets that are not soft-deleted
  at, todo,  \* per pass: its step, and the assets it has still to look at
  cur, kp, dp,  \* per pass: the asset, its price in won and in dollars
  said,      \* messages: the pass, the asset and the advice
  drifts, lapses, faults,
  past       \* history: every rate the dollar has had

kept   == <<rate, fresh, goldId>>
pass   == <<at, todo, cur, kp, dp>>
bounds == <<drifts, lapses, faults>>
vars   == <<dollar, kept, live, pass, said, bounds, past>>

Init ==
  /\ dollar \in Rates /\ rate = 0 /\ fresh = FALSE
  /\ goldId = NoAsset /\ live = Assets
  /\ at = [x \in Passes |-> "idle"] /\ todo = [x \in Passes |-> {}]
  /\ cur = [x \in Passes |-> NoAsset]
  /\ kp = [x \in Passes |-> 0] /\ dp = [x \in Passes |-> 0]
  /\ said = {}
  /\ drifts = 0 /\ lapses = 0 /\ faults = 0
  /\ past = {dollar}

Goto(x, step) == at' = [at EXCEPT ![x] = step]
Fault == faults < MaxFaults /\ faults' = faults + 1 /\ UNCHANGED <<drifts, lapses>>

-----------------------------------------------------------------------------
(* A pass *)

(* runCoinKimchiPremiumEvent: RetrieveTotalAssets.                         *)
StartCoins(x) ==
  /\ at[x] = "idle" /\ live \cap Coins # {}
  /\ Goto(x, "home")
  /\ todo' = [todo EXCEPT ![x] = live \cap Coins]
  /\ cur' = [cur EXCEPT ![x] = NoAsset]
  /\ UNCHANGED <<dollar, kept, live, kp, dp, said, bounds, past>>

(* runGoldKimchiPremium: the gold is looked up once and kept.  Without a   *)
(* gold, or when the one kept was deleted, RetrieveAsset returns nil and   *)
(* the run panics.                                                         *)
StartGold(x) ==
  LET ids == IF goldId = NoAsset THEN live \cap Golds ELSE {goldId}
  IN  /\ at[x] = "idle"
      /\ \E g \in ids :
           /\ goldId' = g
           /\ g \in live
           /\ todo' = [todo EXCEPT ![x] = {g}]
      /\ Goto(x, "home")
      /\ cur' = [cur EXCEPT ![x] = NoAsset]
      /\ UNCHANGED <<dollar, rate, fresh, live, kp, dp, said, bounds, past>>

(* PresentPrice in won, then the price in dollars.                         *)
FetchHome(x, a) ==
  /\ at[x] = "home" /\ a \in todo[x]
  /\ Goto(x, "abroad")
  /\ cur' = [cur EXCEPT ![x] = a] /\ kp' = [kp EXCEPT ![x] = Home[a]]
  /\ UNCHANGED <<dollar, kept, live, todo, dp, said, bounds, past>>

FetchAbroad(x) ==
  /\ at[x] = "abroad"
  /\ Goto(x, "rate")
  /\ dp' = [dp EXCEPT ![x] = Abroad[cur[x]]]
  /\ UNCHANGED <<dollar, kept, live, todo, cur, kp, said, bounds, past>>

(* Either price cannot be fetched: the run ends.                           *)
FetchFails(x) ==
  /\ at[x] \in {"home", "abroad"}
  /\ Fault
  /\ Goto(x, "idle")
  /\ UNCHANGED <<dollar, kept, live, todo, cur, kp, dp, said, past>>

(* 100 * (kp - cp) / cp >= k, or > k; for cp = 0 the quotient is +Inf.     *)
AtLeast(p, cp, k) == 100 * (p - cp) >= k * cp
Over(p, cp, k)    == 100 * (p - cp) > k * cp

Advice(a, p, cp) ==
  LET reached(k) == IF a \in Coins THEN AtLeast(p, cp, k) ELSE Over(p, cp, k)
  IN  IF reached(10) THEN {"sell"}
      ELSE IF reached(5) THEN {"watch"}
      ELSE IF ~AtLeast(p, cp, -2) THEN {"buy"} ELSE {}

(* The user who launched a run is told the premium in any case.            *)
Conclude(x, ex) ==
  LET a == cur[x]
      advice == Advice(a, kp[x], dp[x] * ex)
      plain == IF x \in Manual /\ (a \in Golds \/ advice = {}) THEN {"now"} ELSE {}
  IN  /\ said' = said \cup {<<x, a, word>> : word \in advice \cup plain}
      /\ todo' = [todo EXCEPT ![x] = @ \ {a}]
      /\ Goto(x, IF todo[x] = {a} THEN "idle" ELSE "home")

(* ExchageRate: the rate kept, or a new one which is kept from now on.     *)
Known == rate # 0 /\ fresh
Judge(x) ==
  /\ at[x] = "rate"
  /\ IF Known THEN Conclude(x, rate) /\ UNCHANGED <<rate, fresh>>
     ELSE Conclude(x, dollar) /\ rate' = dollar /\ fresh' = TRUE
  /\ UNCHANGED <<dollar, goldId, live, cur, kp, dp, bounds, past>>

(* The page with the rate cannot be read: ExchageRate returns 0.           *)
JudgeBlind(x) ==
  /\ at[x] = "rate" /\ ~Known
  /\ Fault
  /\ Conclude(x, 0)
  /\ UNCHANGED <<dollar, kept, live, cur, kp, dp, past>>

-----------------------------------------------------------------------------
(* The market, the clock, the user *)

Drift(r) ==
  /\ drifts < MaxDrifts /\ drifts' = drifts + 1
  /\ dollar' = r /\ past' = past \cup {r}
  /\ UNCHANGED <<kept, live, pass, said, lapses, faults>>

Delete(a) ==
  /\ live' = live \ {a} /\ live' # live
  /\ UNCHANGED <<dollar, kept, pass, said, bounds, past>>

Lapse ==
  /\ lapses < MaxLapses /\ lapses' = lapses + 1
  /\ fresh /\ fresh' = FALSE
  /\ UNCHANGED <<dollar, rate, goldId, live, pass, said, drifts, faults, past>>

Next ==
  \/ \E x \in Passes :
       \/ StartCoins(x) \/ StartGold(x) \/ FetchAbroad(x) \/ FetchFails(x)
       \/ Judge(x) \/ JudgeBlind(x)
       \/ \E a \in Assets : FetchHome(x, a)
  \/ \E r \in Rates : Drift(r)
  \/ \E a \in Assets : Delete(a)
  \/ Lapse

Spec == Init /\ [][Next]_vars

-----------------------------------------------------------------------------
(* Advice to sell is given only for an asset whose premium reached ten     *)
(* percent at a rate which the dollar has had.                             *)
SalesAreFounded ==
  \A a \in Assets :
    (\E x \in Passes : <<x, a, "sell">> \in said)
      => \E r \in past : AtLeast(Home[a], Abroad[a] * r, 10)
=============================================================================
