---------------------------- MODULE InvestLedger ----------------------------
(***************************************************************************)
(* The investment ledger: the tables invests (history) and invest_summary  *)
(* (current holdings), and everything that writes them.                    *)
(*                                                                         *)
(* RecordInvest writes the history row, then books two legs with           *)
(* UpdateInvestSummary: the asset bought or sold, and the cash that paid   *)
(* for it.  Each leg reads a holdings row and writes it back, outside any  *)
(* transaction.  The writers are the order consumer goroutine and the      *)
(* goroutines that serve POST /invest.  Beside them run passes of          *)
(* updateAsset (the asset event, the asset recommendation), which reprice  *)
(* every holdings row from a snapshot they listed earlier.                 *)
(*                                                                         *)
(* One action per database call that matters to an interleaving.           *)
(***************************************************************************)
EXTENDS Integers, Sequences, FiniteSets

CONSTANTS
  Writers,       \* goroutines that run RecordInvest
  Passes,        \* goroutines that run updateAsset
  Funds,         \* fund ids
  Assets,        \* asset ids
  Krw, Usd,      \* the assets of category Won and Dollar, the cash of a fund
  DollarAssets,  \* the assets whose Currency is USD
  Counts,        \* quantities an order can have; a sale is negative
  Prices,        \* unit prices an order can have
  Rates,         \* what ExchageRate may return, 0 when it could not be fetched
  Quote,         \* the market price of each asset while the model runs
  MaxRecords,    \* bound: number of history rows
  MaxFaults      \* bound: failed database or cache calls, crashes, deletions

ASSUME LedgerAssumption ==
  /\ Krw \in Assets /\ Usd \in Assets /\ Krw # Usd
  /\ DollarAssets \subseteq Assets \ {Krw}
  /\ Counts \subseteq Int \ {0}
  /\ Prices \subseteq Nat /\ Rates \subseteq Nat
  /\ Quote \in [Assets -> Nat]
  /\ MaxRecords \in Nat /\ MaxFaults \in Nat

VARIABLES
  hist,     \* invests: the history rows in the order they were created
  rows,     \* the (fund, asset) pairs that have a holdings row
  count,    \* Count of the row with the lowest id of a pair, 0 without a row
  sum,      \* Sum of that row
  later,    \* Counts of further rows created for the same pair
  live,     \* assets that are not soft-deleted
  pc, rec, rate, snap,   \* per writer: step, history row, rate, row it read
  stage,    \* per pass: where it is, "idle", "list" or "write"
  priced,   \* per pass: assets it has a price for
  todo,     \* per pass: rows it listed and has still to reprice
  faults,   \* faults so far
  (* History variables: no code reads them. *)
  posted,   \* the legs booked for each history row, in order
  applied,  \* for each pair, the sum of the changes booked to it
  split,    \* for each pair, the part of applied that created a further row
  raced,    \* pairs written while another writer held an older copy
  broken    \* history rows whose RecordInvest did not get to its end

ledger == <<hist, rows, count, sum, later>>
ghosts == <<posted, applied, split, raced, broken>>
event  == <<stage, priced, todo>>
vars   == <<ledger, live, pc, rec, rate, snap, event, faults, ghosts>>

-----------------------------------------------------------------------------
(* What an investment books. *)

Pairs == Funds \X Assets
Invests == [fund: Funds, asset: Assets, price: Prices, count: Counts]

FirstLeg(inv) == [pair |-> <<inv.fund, inv.asset>>, change |-> inv.count]

(* The cash account RecordInvest charges.  Buying the dollar itself is    *)
(* paid in won.                                                            *)
CashOf(asset) == IF asset \in DollarAssets /\ asset # Usd THEN Usd ELSE Krw

CashLeg(inv) == [pair   |-> <<inv.fund, CashOf(inv.asset)>>,
                 change |-> -(inv.price * inv.count)]

-----------------------------------------------------------------------------
Finding  == {"find1", "find2"}
Updating == {"upd1", "upd2"}
Steps    == {"idle", "lookup"} \cup Finding \cup Updating

Active(w) == pc[w] # "idle"
Inv(w)    == hist[rec[w]]
Leg(w)    == IF pc[w] \in {"find1", "upd1"} THEN FirstLeg(Inv(w)) ELSE CashLeg(Inv(w))
LegPrice(w) == IF pc[w] \in {"find1", "upd1"} THEN Inv(w).price
               ELSE IF CashOf(Inv(w).asset) = Usd THEN rate[w] ELSE 1

NoRow == [found |-> FALSE, count |-> 0, sum |-> 0]

Init ==
  /\ hist = <<>> /\ rows = {} /\ live = Assets
  /\ count = [p \in Pairs |-> 0] /\ sum = [p \in Pairs |-> 0]
  /\ later = [p \in Pairs |-> <<>>]
  /\ pc = [w \in Writers |-> "idle"] /\ rec = [w \in Writers |-> 0]
  /\ rate = [w \in Writers |-> 0] /\ snap = [w \in Writers |-> NoRow]
  /\ stage = [x \in Passes |-> "idle"]
  /\ priced = [x \in Passes |-> {}] /\ todo = [x \in Passes |-> {}]
  /\ faults = 0
  /\ posted = <<>> /\ raced = {} /\ broken = {}
  /\ applied = [p \in Pairs |-> 0] /\ split = [p \in Pairs |-> 0]

Goto(w, step) == pc' = [pc EXCEPT ![w] = step]
Fault == faults < MaxFaults /\ faults' = faults + 1

-----------------------------------------------------------------------------
(* RecordInvest *)

(* SaveInvest: the history row is created.  (When that fails RecordInvest  *)
(* returns and nothing has changed: no step.)                              *)
SaveInvest(w, inv) ==
  /\ ~Active(w)
  /\ Len(hist) < MaxRecords
  /\ hist' = Append(hist, inv)
  /\ posted' = Append(posted, <<>>)
  /\ rec' = [rec EXCEPT ![w] = Len(hist) + 1]
  /\ Goto(w, "find1")
  /\ UNCHANGED <<rows, count, sum, later, live, rate, snap, event, faults,
                 applied, split, raced, broken>>

(* UpdateInvestSummary, first half: Find the row of the pair.              *)
Found(p) == IF p \in rows THEN [found |-> TRUE, count |-> count[p], sum |-> sum[p]]
            ELSE NoRow

FindRow(w) ==
  /\ pc[w] \in Finding
  /\ snap' = [snap EXCEPT ![w] = Found(Leg(w).pair)]
  /\ Goto(w, IF pc[w] = "find1" THEN "upd1" ELSE "upd2")
  /\ UNCHANGED <<ledger, live, rec, rate, event, faults, ghosts>>

(* The error of Find is not looked at: RowsAffected is 0, as if the pair   *)
(* had no row.                                                             *)
FindRowFails(w) ==
  /\ pc[w] \in Finding
  /\ Fault
  /\ snap' = [snap EXCEPT ![w] = NoRow]
  /\ Goto(w, IF pc[w] = "find1" THEN "upd1" ELSE "upd2")
  /\ UNCHANGED <<ledger, live, rec, rate, event, ghosts>>

(* Another writer is about to write back an older copy of p.               *)
Contended(w, p) ==
  \E v \in Writers \ {w} : pc[v] \in Updating /\ Leg(v).pair = p /\ snap[v].found

(* Faulty variant: an insert that replaces the row it collides with.       *)
CreateRow_Replaces(p, change, amount) ==
  /\ rows' = rows \cup {p}
  /\ count' = [count EXCEPT ![p] = change]
  /\ sum' = [sum EXCEPT ![p] = amount]
  /\ UNCHANGED <<later, split>>

(* UpdateInvestSummary, second half: write the copy back, or create a row. *)
CreateRow(p, change, amount) ==
  IF p \notin rows
  THEN /\ rows' = rows \cup {p}
       /\ count' = [count EXCEPT ![p] = change]
       /\ sum' = [sum EXCEPT ![p] = amount]
       /\ UNCHANGED <<later, split>>
  ELSE /\ later' = [later EXCEPT ![p] = Append(@, change)]
       /\ split' = [split EXCEPT ![p] = @ + change]
       /\ UNCHANGED <<rows, count, sum>>

WriteBack(p, old, change, amount) ==
  /\ count' = [count EXCEPT ![p] = old.count + change]
  /\ sum' = [sum EXCEPT ![p] = old.sum + amount]
  /\ UNCHANGED <<rows, later, split>>

UpdateRow(w) ==
  LET leg == Leg(w)
      amount == leg.change * LegPrice(w)
  IN  /\ pc[w] \in Updating
      /\ IF snap[w].found THEN WriteBack(leg.pair, snap[w], leg.change, amount)
                          ELSE CreateRow(leg.pair, leg.change, amount)
      /\ posted' = [posted EXCEPT ![rec[w]] = Append(@, leg)]
      /\ applied' = [applied EXCEPT ![leg.pair] = @ + leg.change]
      /\ raced' = IF snap[w].found /\ Contended(w, leg.pair)
                  THEN raced \cup {leg.pair} ELSE raced
      /\ Goto(w, IF pc[w] = "upd1" THEN "lookup" ELSE "idle")
      /\ UNCHANGED <<hist, live, rec, rate, snap, event, faults, broken>>

(* Faulty variant: no cash leg for either currency.                        *)
LookUpCash_NoDollarCharge(w) ==
  /\ pc[w] = "lookup"
  /\ Inv(w).asset \in live
  /\ IF Inv(w).asset \in {Krw, Usd}
     THEN Goto(w, "idle") /\ UNCHANGED rate
     ELSE /\ Goto(w, "find2")
          /\ \E r \in Rates : rate' = [rate EXCEPT ![w] = r]
  /\ UNCHANGED <<ledger, live, rec, snap, event, faults, posted, applied, split,
                 raced, broken>>

(* Faulty variant: a rate that could not be fetched is -1, not 0.          *)
LookUpCash_NegativeRate(w) ==
  /\ pc[w] = "lookup"
  /\ Inv(w).asset \in live
  /\ IF Inv(w).asset = Krw
     THEN Goto(w, "idle") /\ UNCHANGED rate
     ELSE /\ Goto(w, "find2")
          /\ \E r \in Rates : rate' = [rate EXCEPT ![w] = IF r = 0 THEN -1 ELSE r]
  /\ UNCHANGED <<ledger, live, rec, snap, event, faults, posted, applied, split,
                 raced, broken>>

(* RetrieveAsset (an error for a soft-deleted asset), the two currency ids *)
(* from the cache, and which cash account is charged; the exchange rate is *)
(* fetched before the dollar row is read.                                  *)
LookUpCash(w) ==
  /\ pc[w] = "lookup"
  /\ Inv(w).asset \in live
  /\ IF Inv(w).asset = Krw
     THEN Goto(w, "idle") /\ UNCHANGED rate
     ELSE /\ Goto(w, "find2")
          /\ \E r \in Rates : rate' = [rate EXCEPT ![w] = r]
  /\ UNCHANGED <<ledger, live, rec, snap, event, faults, posted, applied, split,
                 raced, broken>>

(* RecordInvest ends early: what is not booked yet never will be.          *)
GiveUp(w) ==
  /\ broken' = broken \cup {rec[w]}
  /\ UNCHANGED <<ledger, live, rec, rate, snap, event, posted, applied, split, raced>>

LookUpFails(w) ==
  /\ pc[w] = "lookup"
  /\ IF Inv(w).asset \in live THEN Fault ELSE UNCHANGED faults
  /\ GiveUp(w)
  /\ Goto(w, "idle")

(* The error of the first leg is returned, that of the cash leg is not.    *)
UpdateRowFails(w) ==
  /\ pc[w] \in Updating
  /\ Fault
  /\ GiveUp(w)
  /\ Goto(w, "idle")

-----------------------------------------------------------------------------
(* A pass of updateAsset.  The cron job starts one every quarter of an hour *)
(* in a goroutine of its own, the daily job and a manual launch start more. *)

Value(x, asset, n) == IF asset \in priced[x] THEN Quote[asset] * n ELSE 0

Rest(x, t) ==
  /\ todo' = [todo EXCEPT ![x] = @ \ {t}]
  /\ stage' = [stage EXCEPT ![x] = IF todo[x] = {t} THEN "idle" ELSE @]

(* It prices every asset that is not soft-deleted...                       *)
PriceAssets(x) ==
  /\ stage[x] = "idle"
  /\ stage' = [stage EXCEPT ![x] = "list"]
  /\ priced' = [priced EXCEPT ![x] = live]
  /\ UNCHANGED <<ledger, live, pc, rec, rate, snap, todo, faults, ghosts>>

(* ...then lists the holdings rows.  Without rows the pass is over.        *)
Listed(held) ==
  {<<p, count[p]>> : p \in held}
  \cup UNION {{<<p, later[p][i]>> : i \in DOMAIN later[p]} : p \in held}

(* Faulty variant: only rows that hold something are listed.               *)
ListRows_OnlyHeld(x) ==
  LET held == {p \in rows : count[p] > 0}
  IN  /\ stage[x] = "list"
      /\ stage' = [stage EXCEPT ![x] = IF held = {} THEN "idle" ELSE "write"]
      /\ todo' = [todo EXCEPT ![x] = Listed(held)]
      /\ UNCHANGED <<ledger, live, pc, rec, rate, snap, priced, faults, ghosts>>

ListRows(x) ==
  /\ stage[x] = "list"
  /\ stage' = [stage EXCEPT ![x] = IF rows = {} THEN "idle" ELSE "write"]
  /\ todo' = [todo EXCEPT ![x] = Listed(rows)]
  /\ UNCHANGED <<ledger, live, pc, rec, rate, snap, priced, faults, ghosts>>

(* Faulty variant: the whole row listed is written back.                   *)
Reprice_WholeRow(x, t) ==
  /\ t \in todo[x]
  /\ sum' = [sum EXCEPT ![t[1]] = Value(x, t[1][2], t[2])]
  /\ count' = [count EXCEPT ![t[1]] = t[2]]
  /\ Rest(x, t)
  /\ UNCHANGED <<hist, rows, later, live, pc, rec, rate, snap, priced, faults, ghosts>>

(* updateFundSummarys: UpdateInvestSummarySum writes the Sum, and only the *)
(* Sum, of the first row of the pair, computed from the Count listed.      *)
Reprice(x, t) ==
  /\ t \in todo[x]
  /\ sum' = [sum EXCEPT ![t[1]] = Value(x, t[1][2], t[2])]
  /\ Rest(x, t)
  /\ UNCHANGED <<hist, rows, count, later, live, pc, rec, rate, snap, priced,
                 faults, ghosts>>

(* The error of that write is not looked at: the pass goes on without it.  *)
SumNotWritten(x, t) ==
  /\ t \in todo[x]
  /\ Fault
  /\ Rest(x, t)
  /\ UNCHANGED <<ledger, live, pc, rec, rate, snap, priced, ghosts>>

(* An error (a price that cannot be fetched, an asset deleted meanwhile, a *)
(* failed query) ends the pass; the rows left keep their Sum.              *)
PassFails(x) ==
  /\ stage[x] # "idle"
  /\ Fault
  /\ stage' = [stage EXCEPT ![x] = "idle"] /\ todo' = [todo EXCEPT ![x] = {}]
  /\ UNCHANGED <<ledger, live, pc, rec, rate, snap, priced, ghosts>>

-----------------------------------------------------------------------------
(* The server *)

(* DELETE /assets/:id soft-deletes the asset, held or not.                 *)
DeleteAsset(a) ==
  /\ a \in live
  /\ Fault
  /\ live' = live \ {a}
  /\ UNCHANGED <<ledger, pc, rec, rate, snap, event, ghosts>>

(* The process stops: every goroutine is gone, the tables stay.            *)
Crash ==
  /\ Fault
  /\ broken' = broken \cup {rec[w] : w \in {v \in Writers : Active(v)}}
  /\ pc' = [w \in Writers |-> "idle"]
  /\ stage' = [x \in Passes |-> "idle"] /\ todo' = [x \in Passes |-> {}]
  /\ UNCHANGED <<ledger, live, rec, rate, snap, priced, posted, applied, split, raced>>

-----------------------------------------------------------------------------
Record(w) == FindRow(w) \/ UpdateRow(w) \/ LookUpCash(w)
Fail(w)   == FindRowFails(w) \/ UpdateRowFails(w) \/ LookUpFails(w)

Write(x) == \E t \in todo[x] : Reprice(x, t)
Pass(x)  == PriceAssets(x) \/ ListRows(x) \/ Write(x)

Next ==
  \/ \E w \in Writers : Record(w) \/ Fail(w) \/ \E inv \in Invests : SaveInvest(w, inv)
  \/ \E x \in Passes : Pass(x) \/ PassFails(x) \/ \E t \in todo[x] : SumNotWritten(x, t)
  \/ \E a \in Assets : DeleteAsset(a)
  \/ Crash

(* A goroutine that has begun runs on; passes are started again and again. *)
Fairness ==
  /\ \A w \in Writers : WF_vars(Record(w) \/ LookUpFails(w))
  /\ \A x \in Passes : WF_vars(Pass(x))

Spec == Init /\ [][Next]_vars
FairSpec == Spec /\ Fairness

-----------------------------------------------------------------------------
(* Properties *)

Ids == 1..Len(hist)
Legs == [pair: Pairs, change: Int]
Rows == [found: BOOLEAN, count: Int, sum: Int]

(* Every variable has its type, a writer that is active is working on a    *)
(* row of the history, and no dollar is booked at a negative rate: a rate  *)
(* that could not be fetched counts as 0 (ExchageRate).                    *)
TypeOK ==
  /\ hist \in Seq(Invests)
  /\ rows \in SUBSET Pairs
  /\ count \in [Pairs -> Int] /\ sum \in [Pairs -> Int]
  /\ later \in [Pairs -> Seq(Int)]
  /\ live \in SUBSET Assets
  /\ pc \in [Writers -> Steps] /\ rec \in [Writers -> Nat]
  /\ rate \in [Writers -> Nat] /\ snap \in [Writers -> Rows]
  /\ \A w \in Writers : Active(w) => rec[w] \in Ids
  /\ stage \in [Passes -> {"idle", "list", "write"}]
  /\ priced \in [Passes -> SUBSET Assets] /\ todo \in [Passes -> SUBSET (Pairs \X Int)]
  /\ faults \in Nat
  /\ posted \in Seq(Seq(Legs)) /\ Len(posted) = Len(hist)
  /\ applied \in [Pairs -> Int] /\ split \in [Pairs -> Int]
  /\ raced \in SUBSET Pairs /\ broken \in SUBSET Nat

(* A holdings row can lose a change only through one interleaving: a       *)
(* second writer that had read it before the first wrote it back           *)
(* (UpdateInvestSummary holds no lock and no transaction).  The Counts of  *)
(* every other pair add up to the changes booked to it, whatever fails,    *)
(* crashes, creates a second row or reprices meanwhile.                    *)
OnlyRacesLoseChanges ==
  \A p \in Pairs \ raced : count[p] + split[p] = applied[p]

(* The same of every pair; with a single writer there is nothing to race.  *)
NoChangeIsLost ==
  \A p \in Pairs : count[p] + split[p] = applied[p]

(* RecordInvest books a history row in order, once per leg: the asset, and *)
(* then, unless the asset is the won itself, the cash that paid for it.    *)
(* What is not booked in full either is still being booked or has failed.  *)
FullLegs(inv) == IF inv.asset = Krw THEN <<FirstLeg(inv)>>
                 ELSE <<FirstLeg(inv), CashLeg(inv)>>

Unfinished(id) == id \in broken \/ \E w \in Writers : Active(w) /\ rec[w] = id

DoubleEntry ==
  \A id \in Ids :
    \/ posted[id] = FullLegs(hist[id])
    \/ Unfinished(id) /\ posted[id] \in {<<>>, <<FirstLeg(hist[id])>>}

(* The change the whole history makes to a pair, and the one its rows hold.*)
Total(numbers) ==
  LET upTo[n \in 0 .. Len(numbers)] == IF n = 0 THEN 0 ELSE upTo[n - 1] + numbers[n]
  IN  upTo[Len(numbers)]

Change(legs, p) ==
  Total([i \in DOMAIN legs |-> IF legs[i].pair = p THEN legs[i].change ELSE 0])

Owed(p) == Total([id \in DOMAIN hist |-> Change(FullLegs(hist[id]), p)])
Held(p) == count[p] + Total(later[p])

AllBooked == broken = {} /\ \A w \in Writers : ~Active(w)

(* invest_summary holds the current holdings by fund and asset: whenever   *)
(* nothing is being recorded and nothing has failed, the rows of a pair    *)
(* add up to what the history rows say was bought, sold and paid.          *)
SummaryIsHoldings == AllBooked => \A p \in Pairs : Held(p) = Owed(p)

(* They do for every pair that no two writers held copies of at once.      *)
OnlyRacesUnbalance == AllBooked => \A p \in Pairs \ raced : Held(p) = Owed(p)

(* When the writers have come to rest and no longer fail, the passes       *)
(* bring the Sum of every row of an asset it can price to price * Count.  *)
(* Pairs with a second row are excepted: both write the first row's Sum.   *)
SumsConverge ==
  <>[](\A p \in rows : p[2] \in live /\ later[p] = <<>>
                       => sum[p] = Quote[p[2]] * count[p])
=============================================================================
