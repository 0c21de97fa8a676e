------------------------------ MODULE Portfolio ------------------------------
(***************************************************************************)
(* What the program says of a fund: its total, the part of it in volatile  *)
(* assets, the amount that may still be invested in those at the level of  *)
(* the market, and the message to buy or sell that is told at most once in *)
(* two hours.  Every report reads the holdings once, and after that the    *)
(* rate of the dollar, once for each row or once for all, and the level.   *)
(* Meanwhile trades are recorded, holdings repriced, levels set.           *)
(*                                                                         *)
(* Sums are in won, or dollars, as their asset; a row of count 0 keeps the *)
(* difference of what was paid and received until it is repriced.  A row   *)
(* of a deleted asset is read without its currency and category: two of    *)
(* the reports then take its sum for won, the other two for dollars.       *)
(* Sums, rates and quotients are exact, those of the code are floats.      *)
(***************************************************************************)
EXTENDS Integers, FiniteSets, FiniteSetsExt

CONSTANTS
  Reports,     \* goroutines
  Cron,        \* those of the asset event, which make the message only
  Holdings,    \* assets of the fund
  Won,         \* its cash
  Stable,      \* assets of a stable category
  InDollars,   \* assets whose currency is USD
  FirstSums,   \* sums of the holdings at the beginning, one of which is theirs
  Levels,      \* levels of the market
  DollarRates, \* rates of the dollar
  Gain,        \* what a holding that is sold out has earned
  Infinite,    \* what the machine makes of an infinite number as an integer
  MaxChanges,  \* bound: trades, repricings and changes of the level or the dollar
  MaxFailures  \* bound: failed calls

MaxVolatileAssetRate == <<15, 20, 25, 30, 40>>  \* percent, per level
MinVolatileAssetRate == <<10, 15, 20, 25, 30>>

ASSUME PortfolioAssumption ==
  /\ Cron \subseteq Reports
  /\ IsFiniteSet(Holdings)
  /\ Won \in Stable \ InDollars /\ Stable \subseteq Holdings /\ InDollars \subseteq Holdings
  /\ FirstSums \subseteq [Holdings -> Int] /\ Infinite \in Int
  /\ Levels \subseteq 1..5 /\ DollarRates \subseteq Nat \ {0} /\ Gain \in Nat
  /\ MaxChanges \in Nat /\ MaxFailures \in Nat

VARIABLES
  rows,        \* invest_summary: per asset, whether the count is not 0, whether the
               \* asset is not deleted, and the sum
  level,       \* the last row of the table of market levels
  usd,         \* the rate of the dollar
  known,       \* Scraper.exchange: the rate kept, 0 if there is none or it is old
  portCache,   \* a message was sent in the last two hours
  step, kind,  \* per report: where it is, and what it reports
  seen,        \* per report: the rows it has read
  conv,        \* per report: the rate each row was converted with, or Unread
  lvl,         \* per report: the level it has read
  changes, failures,
  (* History variables: no code reads them. *)
  moments,     \* per report: rows and levels since it began
  rates,       \* rates the dollar has had
  goal,        \* the rows after an available amount was spent, and the part meant
  tellings, hushed, crossed  \* of the period: messages, one given up, two runs at once

market  == <<rows, level, usd>>
report  == <<step, kind, seen, conv, lvl>>
ofCache == <<portCache, tellings, hushed, crossed>>
limits  == <<changes, failures>>
deskVars == <<market, known, report, ofCache, limits, moments, rates, goal>>

Unread == -1
NoConversion == [a \in Holdings |-> Unread]
NoGoal == [rows |-> <<>>, rates |-> {}, percent |-> 0, residue |-> FALSE]
Kinds == {"total", "portion", "available", "message"}

(* Cash may be overdrawn, by a purchase of more than there was.            *)
DeskInit ==
  /\ \E sum \in FirstSums :
       rows = [a \in Holdings |-> [held |-> a = Won \/ sum[a] # 0, live |-> TRUE, sum |-> sum[a]]]
  /\ level \in Levels /\ usd \in DollarRates /\ known = 0 /\ portCache = FALSE
  /\ step = [x \in Reports |-> "idle"] /\ kind = [x \in Reports |-> "none"]
  /\ seen = [x \in Reports |-> <<>>] /\ conv = [x \in Reports |-> NoConversion]
  /\ lvl = [x \in Reports |-> 0]
  /\ changes = 0 /\ failures = 0
  /\ moments = [x \in Reports |-> {}] /\ rates = {usd} /\ goal = NoGoal
  /\ tellings = 0 /\ hushed = FALSE /\ crossed = FALSE

To(x, next) == step' = [step EXCEPT ![x] = next]

(* A report ends and leaves nothing behind.                                *)
Leave(x) ==
  /\ To(x, "idle")
  /\ kind' = [kind EXCEPT ![x] = "none"] /\ seen' = [seen EXCEPT ![x] = <<>>]
  /\ conv' = [conv EXCEPT ![x] = NoConversion] /\ lvl' = [lvl EXCEPT ![x] = 0]
  /\ moments' = [moments EXCEPT ![x] = {}]
GoOn(x, next) == To(x, next) /\ UNCHANGED <<kind, seen, conv, lvl, moments>>

Failure == failures < MaxFailures /\ failures' = failures + 1 /\ UNCHANGED changes

-----------------------------------------------------------------------------
(* What is computed from rows, a rate for each row in dollars and a level  *)

(* InvestAvailableAmount and FundPortion multiply what is not in won, the  *)
(* others what is in dollars.                                              *)
Converting(k, rs) ==
  IF k \in {"available", "portion"} THEN InDollars \cup {a \in Holdings : ~rs[a].live}
  ELSE {a \in InDollars : rs[a].live}

(* Faulty variant: every sum is taken for won.                             *)
Worth_Won(k, a, rs, cs) == rs[a].sum

Worth(k, a, rs, cs) ==
  IF a \in Converting(k, rs) THEN rs[a].sum * cs[a] ELSE rs[a].sum

Sold(rs) == {a \in Holdings : ~rs[a].held}
IsStable(rs) == {a \in Stable : rs[a].live}
Amount(k, S, rs, cs) == MapThenSumSet(LAMBDA a : Worth(k, a, rs, cs), S)

(* TotalStatus and the message add every row, the others leave out those   *)
(* sold.                                                                   *)
Counted(k, rs) == IF k \in {"available", "portion"} THEN Holdings \ Sold(rs) ELSE Holdings
Total(k, rs, cs) == Amount(k, Counted(k, rs), rs, cs)
Volatile(k, rs, cs) == Amount(k, Counted(k, rs) \ IsStable(rs), rs, cs)

(* int of a quotient leaves out what is after the point.                   *)
Size(n) == IF n < 0 THEN -n ELSE n
Cut(n, d) == IF (n < 0) = (d < 0) THEN Size(n) \div Size(d) ELSE -(Size(n) \div Size(d))

(* What is volatile and what is not are compared with 0, not their sum.    *)
FundPortion(all, part) ==
  CASE all # 0 -> Cut(100 * part, all)
    [] all = 0 /\ part = 0 -> 0
    [] all = 0 /\ part # 0 -> Infinite

(* Faulty variant: the least part is aimed at.                             *)
InvestAvailableAmount_Least(all, part, l) == (MinVolatileAssetRate[l] * all) \div 100 - part

InvestAvailableAmount(all, part, l) == (MaxVolatileAssetRate[l] * all) \div 100 - part

Answer(k, all, part, l) ==
  CASE k = "total" -> all
    [] k = "portion" -> FundPortion(all, part)
    [] k = "available" -> InvestAvailableAmount(all, part, l)

-----------------------------------------------------------------------------
(* A report *)

(* TotalStatus takes the rate before the rows; the message is made from    *)
(* rows a pass has listed.                                                 *)
Begin(x, k) ==
  /\ step[x] = "idle" /\ (x \in Cron => k = "message")
  /\ kind' = [kind EXCEPT ![x] = k]
  /\ To(x, CASE k = "total" -> "rate" [] k = "message" -> "level" [] OTHER -> "convert")
  /\ seen' = [seen EXCEPT ![x] = IF k = "total" THEN <<>> ELSE rows]
  /\ moments' = [moments EXCEPT ![x] = IF k = "message" THEN {}
                                       ELSE {[rows |-> rows, level |-> level]}]
  /\ UNCHANGED <<market, known, conv, lvl, ofCache, limits, rates, goal>>

(* ExchageRate: the rate kept, or a new one that is kept from now on, or 0 *)
(* when the page with it cannot be read.                                   *)
ExchageRate(r) ==
  \/ known # 0 /\ r = known /\ UNCHANGED <<known, limits>>
  \/ known = 0 /\ r = usd /\ known' = usd /\ UNCHANGED limits
  \/ known = 0 /\ r = 0 /\ Failure /\ UNCHANGED known

ToConvert(x) ==
  {a \in Converting(kind[x], seen[x]) : seen[x][a].held /\ conv[x][a] = Unread}

(* InvestAvailableAmount, FundPortion: row by row.                         *)
Convert(x) ==
  /\ step[x] = "convert"
  /\ \E a \in ToConvert(x), r \in DollarRates \cup {0} :
       ExchageRate(r) /\ conv' = [conv EXCEPT ![x][a] = r]
  /\ UNCHANGED <<market, step, kind, seen, lvl, ofCache, moments, rates, goal>>

Converted(x) ==
  /\ step[x] = "convert" /\ ToConvert(x) = {}
  /\ To(x, IF kind[x] = "available" THEN "level" ELSE "answered")
  /\ UNCHANGED <<market, known, kind, seen, conv, lvl, ofCache, limits, moments, rates, goal>>

(* Without a rate there is no message.  Faulty variant: there is.          *)
NoMessage_Never(x, r) == FALSE

NoMessage(x, r) == kind[x] = "message" /\ r = 0

(* TotalStatus and the message: once for all rows.                         *)
ReadRate(x) ==
  /\ step[x] = "rate"
  /\ \E r \in DollarRates \cup {0} :
       /\ ExchageRate(r)
       /\ IF NoMessage(x, r) THEN Leave(x)
          ELSE /\ To(x, IF kind[x] = "total" THEN "list" ELSE "judge")
               /\ conv' = [conv EXCEPT ![x] = [a \in Holdings |-> r]]
               /\ UNCHANGED <<kind, seen, lvl, moments>>
  /\ UNCHANGED <<market, ofCache, rates, goal>>

ListRows(x) ==
  /\ step[x] = "list"
  /\ To(x, "answered")
  /\ seen' = [seen EXCEPT ![x] = rows]
  /\ UNCHANGED <<market, known, kind, conv, lvl, ofCache, limits, moments, rates, goal>>

(* RetrieveMarketStatus: the last row.                                     *)
ReadLevel(x) ==
  /\ step[x] = "level"
  /\ lvl' = [lvl EXCEPT ![x] = level]
  /\ To(x, IF kind[x] = "available" THEN "answered" ELSE "rate")
  /\ UNCHANGED <<market, known, kind, seen, conv, ofCache, limits, moments, rates, goal>>

(* The rows or the level cannot be read: an error is returned.             *)
ReadFails(x) ==
  /\ step[x] \in {"list", "level"}
  /\ Failure
  /\ Leave(x)
  /\ UNCHANGED <<market, known, ofCache, rates, goal>>

TotalSum(x) == Total(kind[x], seen[x], conv[x])
VolatileSum(x) == Volatile(kind[x], seen[x], conv[x])
Result(x) == Answer(kind[x], TotalSum(x), VolatileSum(x), lvl[x])

Finish(x) ==
  /\ step[x] = "answered"
  /\ Leave(x)
  /\ UNCHANGED <<market, known, ofCache, limits, rates, goal>>

-----------------------------------------------------------------------------
(* genPortfolioMsg, as it runs when the asset event calls it; the call is  *)
(* commented out in the source at this commit.                             *)

Inside(x) ==
  /\ 100 * VolatileSum(x) > MinVolatileAssetRate[lvl[x]] * TotalSum(x)
  /\ 100 * VolatileSum(x) < MaxVolatileAssetRate[lvl[x]] * TotalSum(x)

(* HasPortCache: within the bounds, or told before, nothing is said.       *)
Judge(x) ==
  /\ step[x] = "judge"
  /\ LET quiet == TotalSum(x) = 0 \/ portCache \/ Inside(x)
     IN  /\ IF quiet THEN Leave(x) ELSE GoOn(x, "mark")
         /\ crossed' = (crossed \/ (~quiet /\ \E y \in Reports \ {x} : step[y] = "mark"))
  /\ UNCHANGED <<market, known, portCache, tellings, hushed, limits, rates, goal>>

(* Faulty variant: it is not noted that a message is sent.                 *)
SetPortCache_Not(x) ==
  /\ step[x] = "mark"
  /\ GoOn(x, "order")
  /\ UNCHANGED <<market, known, ofCache, limits, rates, goal>>

SetPortCache(x) ==
  /\ step[x] = "mark"
  /\ GoOn(x, "order")
  /\ portCache' = TRUE
  /\ UNCHANGED <<market, known, tellings, hushed, crossed, limits, rates, goal>>

(* loadOrderSlice, and the message; when it fails there is none.           *)
Tell(x) ==
  /\ step[x] = "order"
  /\ Leave(x)
  /\ tellings' = tellings + 1
  /\ UNCHANGED <<market, known, portCache, hushed, crossed, limits, rates, goal>>

OrderFails(x) ==
  /\ step[x] = "order"
  /\ Failure
  /\ Leave(x)
  /\ hushed' = TRUE
  /\ UNCHANGED <<market, known, portCache, tellings, crossed, rates, goal>>

-----------------------------------------------------------------------------
(* Everything else *)

Notice(rs, l) ==
  moments' = [x \in Reports |->
                IF moments[x] # {} THEN moments[x] \cup {[rows |-> rs, level |-> l]} ELSE moments[x]]

Change == changes < MaxChanges /\ changes' = changes + 1 /\ UNCHANGED failures
Book(rs) ==
  /\ rows' = rs /\ rs # rows
  /\ Notice(rs, level)
  /\ UNCHANGED <<level, usd, known, report, ofCache>>

Used(x) == {conv[x][a] : a \in Converting(kind[x], seen[x]) \ Sold(seen[x])} \ {Unread}

(* What is available is spent: cash becomes a volatile asset.              *)
Spend(x, a) ==
  LET n == Result(x)
  IN  /\ step[x] = "answered" /\ kind[x] = "available"
      /\ seen[x] = rows /\ n > 0 /\ 0 \notin Used(x) /\ Cardinality(Used(x)) <= 1
      /\ a \notin Stable \cup InDollars /\ rows[a].live /\ rows[Won].live
      /\ Change
      /\ Book([rows EXCEPT ![a].held = TRUE, ![a].sum = @ + n, ![Won].sum = @ - n])
      /\ goal' = [rows |-> rows', rates |-> Used(x), percent |-> MaxVolatileAssetRate[lvl[x]],
                    residue |-> ~rows[a].held /\ rows[a].sum # 0]
      /\ UNCHANGED rates

(* All of a holding in won is sold for more than its sum.                  *)
SellOut(a) ==
  /\ a \notin InDollars \cup {Won} /\ rows[a].held
  /\ Change
  /\ Book([rows EXCEPT ![a].held = FALSE, ![a].sum = -Gain,
                       ![Won].sum = @ + rows[a].sum + Gain])
  /\ UNCHANGED <<rates, goal>>

(* updateAsset: count times price; what was deleted has none.              *)
Reprice ==
  /\ Change
  /\ Book([a \in Holdings |-> IF rows[a].held /\ rows[a].live THEN rows[a]
                              ELSE [rows[a] EXCEPT !.sum = 0]])
  /\ UNCHANGED <<rates, goal>>

(* DELETE /assets/:id, whether held or not.                                *)
DeleteAsset(a) ==
  /\ rows[a].live
  /\ Change
  /\ Book([rows EXCEPT ![a].live = FALSE])
  /\ UNCHANGED <<rates, goal>>

(* ChangeMarketStatus adds a row.                                          *)
ChangeMarketStatus(l) ==
  /\ l # level
  /\ Change
  /\ level' = l
  /\ Notice(rows, l)
  /\ UNCHANGED <<rows, usd, known, report, ofCache, rates, goal>>

MoveDollar(r) ==
  /\ r # usd
  /\ Change
  /\ usd' = r /\ rates' = rates \cup {r}
  /\ UNCHANGED <<rows, level, known, report, ofCache, moments, goal>>

(* Three hours pass: the rate kept is too old.                             *)
RateAges ==
  /\ known # 0 /\ known' = 0
  /\ UNCHANGED <<market, report, ofCache, limits, moments, rates, goal>>

(* Two hours pass, not while a message is made.                            *)
CacheAges ==
  /\ portCache /\ \A x \in Reports : step[x] \notin {"mark", "order"}
  /\ portCache' = FALSE /\ tellings' = 0 /\ hushed' = FALSE /\ crossed' = FALSE
  /\ UNCHANGED <<market, known, report, limits, moments, rates, goal>>

DeskNext ==
  \/ \E x \in Reports :
       \/ \E k \in Kinds : Begin(x, k)
       \/ Convert(x) \/ Converted(x) \/ ReadRate(x) \/ ListRows(x) \/ ReadLevel(x)
       \/ ReadFails(x) \/ Finish(x) \/ Judge(x) \/ SetPortCache(x) \/ Tell(x) \/ OrderFails(x)
       \/ \E a \in Holdings : Spend(x, a)
  \/ \E a \in Holdings : SellOut(a) \/ DeleteAsset(a)
  \/ Reprice \/ RateAges \/ CacheAges
  \/ \E l \in Levels : ChangeMarketStatus(l)
  \/ \E r \in DollarRates : MoveDollar(r)

DeskSpec == DeskInit /\ [][DeskNext]_deskVars

-----------------------------------------------------------------------------
(* Properties *)

Books == [Holdings -> [held : BOOLEAN, live : BOOLEAN, sum : Int]]

(* Types; a message is made with a rate.                                   *)
DeskTypeOK ==
  /\ rows \in Books
  /\ level \in Levels /\ usd \in DollarRates /\ known \in DollarRates \cup {0}
  /\ step \in [Reports -> {"idle", "convert", "rate", "list", "level", "answered", "judge",
                            "mark", "order"}]
  /\ kind \in [Reports -> Kinds \cup {"none"}]
  /\ seen \in [Reports -> Books \cup {<<>>}]
  /\ conv \in [Reports -> [Holdings -> DollarRates \cup {0, Unread}]]
  /\ lvl \in [Reports -> Levels \cup {0}]
  /\ portCache \in BOOLEAN /\ tellings \in Nat /\ hushed \in BOOLEAN /\ crossed \in BOOLEAN
  /\ \A x \in Reports : step[x] \in {"judge", "mark", "order"} => 0 \notin Used(x)

(* What a report of kind k should say at moment m, at rate r.              *)
WorthAt(a, m, r) == m.rows[a].sum * (IF a \in InDollars THEN r ELSE 1)
SumAt(S, m, r) == MapThenSumSet(LAMBDA a : WorthAt(a, m, r), S)
AnswerAt(k, m, r) ==
  LET held == {a \in Holdings : m.rows[a].held}
      all  == SumAt(held, m, r)
      part == SumAt(held \ Stable, m, r)
  IN  CASE k = "total" -> all
        [] k = "portion" -> IF all = 0 THEN 0 ELSE Cut(100 * part, all)
        [] OTHER -> (MaxVolatileAssetRate[m.level] * all) \div 100 - part

(* An answer is what holdings, level and one rate of the dollar gave at a  *)
(* moment of its making, except where the rate could not be read or was    *)
(* replaced between two rows, where both the holdings and the level have   *)
(* changed, where a row is of a deleted asset, where a total counts what a *)
(* holding sold out has left, or where what is volatile is all overdrawn   *)
(* cash, and its part in a fund of nothing is shown.                       *)
AnswersAreOfOneMoment ==
  \A x \in Reports : (step[x] = "answered" /\ kind[x] # "message") =>
    \/ \E m \in moments[x], r \in rates : Result(x) = AnswerAt(kind[x], m, r)
    \/ 0 \in Used(x) \/ Cardinality(Used(x)) > 1
    \/ /\ Cardinality({m.rows : m \in moments[x]}) > 1
       /\ Cardinality({m.level : m \in moments[x]}) > 1
    \/ \E a \in Holdings : ~seen[x][a].live /\ seen[x][a].sum # 0
    \/ kind[x] = "total" /\ \E a \in Sold(seen[x]) : seen[x][a].sum # 0
    \/ kind[x] = "portion" /\ TotalSum(x) = 0 /\ VolatileSum(x) # 0

(* Two handlers agree: when the available amount is spent on a volatile    *)
(* asset, what is volatile after that is all the level allows, to the      *)
(* unit, and the portion shown says so or, being cut, one percent less;    *)
(* except on top of what a holding sold out has left.                      *)
SpendingFillsPortion ==
  \A x \in Reports :
    (/\ step[x] = "answered" /\ kind[x] = "portion" /\ ~goal.residue
     /\ seen[x] = goal.rows /\ Used(x) = goal.rates)
      => /\ VolatileSum(x) = (goal.percent * TotalSum(x)) \div 100
         /\ TotalSum(x) >= 100 => Result(x) \in {goal.percent - 1, goal.percent}

(* While a fund is kept silent it was told once, is about to be, or the    *)
(* message was given up after the note of it; it is told twice only when   *)
(* two runs had both found it untold.                                      *)
ToldOnceAPeriod ==
  /\ portCache => tellings > 0 \/ hushed \/ \E x \in Reports : step[x] = "order"
  /\ tellings > 1 => crossed
=============================================================================
