------------------------------ MODULE DailyJob ------------------------------
(***************************************************************************)
(* The morning job.  At seven on every weekday one goroutine runs five     *)
(* steps in a row: the market indices, the averages (EMA) of the assets,   *)
(* the high yield spread, the asset recommendation and the companies that  *)
(* are new in the S&P 500.  Each works on a table of its own, keyed or     *)
(* ordered by date; a step that fails reports it and the next one runs,    *)
(* but one that panics ends the day's job (the scheduler recovers).        *)
(*                                                                         *)
(* Dates are day numbers, day 1 being a Monday.  Prices and averages are   *)
(* floats with more decimals than the cent an average is rounded to: whole *)
(* numbers of a unit of which Cent make a cent.                            *)
(***************************************************************************)
EXTENDS Integers, Sequences, FiniteSets

CONSTANTS
  Assets,      \* asset ids other than the won and the dollar
  Prices,      \* closing prices
  Cent,        \* units of a price that make a cent
  FirstEmas,   \* averages an asset may be registered with
  Companies,   \* companies that may be listed in the index
  Veteran,     \* the company the table may have been filled with by hand
  None,        \* no row, no date, no request
  FirstDay, MaxDay,  \* bound: the days of the model
  MaxFaults    \* bound: failed calls, restarts and mornings without a server

LongAgo == FirstDay - 2
Days == LongAgo .. MaxDay
Averages == [ema: Nat, n: Nat]
Rows == [ema: Nat, n: Nat, date: Days]

ASSUME DailyAssumption ==
  /\ Prices \subseteq Nat /\ Cent \in Nat \ {0}
  /\ FirstEmas \subseteq Averages
  /\ Veteran \in Companies
  /\ None \notin Days \cup Rows \cup Assets \cup Companies
  /\ FirstDay \in Nat \ {0, 1} /\ MaxDay \in Nat /\ FirstDay <= MaxDay
  /\ MaxFaults \in Nat

VARIABLES
  today, ran,  \* the day, and whether its job was started
  at, todo,    \* the step of the job, and assets or companies left to it
  indices,     \* daily_indices: days that have a row
  asset,       \* assets: "new" (not registered yet), "live" or "deleted"
  adding,      \* the asset a POST /assets has saved without its average, or None
  ema,         \* ema_hist: the latest row of each asset, or None
  published,   \* the newest date the source of the spread shows
  spreads,     \* high_yield_spreads: its dates
  listed,      \* the date a company is listed with on the web page, or None
  companies,   \* sp500_companies, in the order of insertion
  faults,
  (* History variables: no code reads them. *)
  compared,    \* the day the message on the indices compared today with, or None
  close,       \* the closing price that went into the latest average
  excused,     \* something failed or panicked today
  announced,   \* how often the user was told of a company
  unsaved,     \* companies that were not saved when it was their turn
  late         \* companies listed with a date that was not new any more

clock  == <<today, ran>>
job    == <<at, todo>>
assets == <<asset, adding, ema>>
spread == <<published, spreads>>
sp500  == <<listed, companies>>
ghosts == <<compared, close, excused, announced, unsaved, late>>
vars   == <<clock, job, indices, assets, spread, sp500, faults, ghosts>>

Live == {a \in Assets : asset[a] = "live"}
Workday(d) == d % 7 \in 1..5
Newest(S) == CHOOSE d \in S : \A e \in S : e <= d

Init ==
  /\ today = FirstDay /\ ran = FALSE
  /\ at = "idle" /\ todo = {}
  /\ indices \in SUBSET {d \in {FirstDay - 1} : Workday(d)}
  /\ asset \in [Assets -> {"new", "live"}] /\ adding = None
  /\ ema \in [Assets -> {None} \cup
                        {[ema |-> r.ema, n |-> r.n, date |-> FirstDay - 1] : r \in FirstEmas}]
  /\ \A a \in Assets : asset[a] = "new" => ema[a] = None
  /\ published = FirstDay - 1 /\ spreads \in SUBSET {FirstDay - 1}
  /\ listed = [c \in Companies |-> IF c = Veteran THEN LongAgo ELSE None]
  /\ companies \in {<<>>, <<Veteran>>}
  /\ faults = 0
  /\ compared = None /\ close = [a \in Assets |-> 0] /\ excused = FALSE
  /\ announced = [c \in Companies |-> 0] /\ unsaved = {} /\ late = {}

Fault == faults < MaxFaults /\ faults' = faults + 1
Goto(step) == at' = step

Start ==
  /\ at = "idle" /\ Workday(today) /\ ~ran
  /\ Goto("index") /\ ran' = TRUE
  /\ UNCHANGED <<today, todo, indices, assets, spread, sp500, faults, ghosts>>

-----------------------------------------------------------------------------
(* The market indices *)

(* Faulty variant: Monday is compared with Sunday.                         *)
Former_Yesterday == today - 1

(* The weekday before.                                                     *)
Former == IF today % 7 = 1 THEN today - 3 ELSE today - 1

Compare == compared' = IF Former \in indices THEN Former ELSE None

(* runIndexEvent: three fetches, today's row, and the row of the weekday   *)
(* before for the message.                                                 *)
Index ==
  /\ at = "index"
  /\ Goto("list")
  /\ indices' = indices \cup {today}
  /\ Compare
  /\ UNCHANGED <<clock, todo, assets, spread, sp500, faults, close, excused, announced,
                 unsaved, late>>

(* A fetch fails and the step ends, or the row cannot be saved or read.    *)
IndexFails ==
  /\ at = "index"
  /\ Fault
  /\ Goto("list")
  /\ UNCHANGED indices
  /\ compared' = None \/ Compare
  /\ excused' = TRUE
  /\ UNCHANGED <<clock, todo, assets, spread, sp500, close, announced, unsaved, late>>

-----------------------------------------------------------------------------
(* The averages *)

ListAssets ==
  /\ at = "list"
  /\ Goto("ema") /\ todo' = Live
  /\ UNCHANGED <<clock, indices, assets, spread, sp500, faults, ghosts>>

ListAssetsFails ==
  /\ at = "list"
  /\ Fault
  /\ Goto("spread") /\ excused' = TRUE
  /\ UNCHANGED <<clock, todo, indices, assets, spread, sp500, compared, close, announced,
                 unsaved, late>>

(* Faulty variant: the old average is subtracted.                          *)
NewEma_Subtracts(old, cp) ==
  IF old.n < 200 THEN [ema |-> cp, n |-> old.n + 1]
  ELSE [ema |-> Cent * ((2 * cp - 199 * old.ema) \div (201 * Cent)), n |-> 200]

(* Faulty variant: the weight of the price with the local nDays, still 0.  *)
NewEma_ZeroDays(old, cp) ==
  IF old.n < 200 THEN [ema |-> cp, n |-> old.n + 1]
  ELSE LET new == 2 * cp - old.ema IN [ema |-> IF new < 0 THEN 0 ELSE new, n |-> 200]

(* calculateEma.  Up to 200 days it means the average of the prices, but   *)
(* its local nDays is 0 where it is used; nothing is rounded.  From then   *)
(* on the price counts 2/201 and the result is rounded to cents.           *)
Rounded(a, b) == (2 * a + b) \div (2 * b)

NewEma(old, cp) ==
  IF old.n < 200
  THEN LET nDays == 0
       IN  [ema |-> (cp + old.ema * nDays) \div (nDays + 1), n |-> old.n + 1]
  ELSE [ema |-> Cent * Rounded(2 * cp + 199 * old.ema, 201 * Cent), n |-> 200]

Usable(r) == r # None /\ r.n # 0 /\ r.ema # 0

(* One asset: its closing price, its latest row, a new row.  An asset      *)
(* without a row, or with an average or a number of days of 0, is skipped. *)
UpdateEma(a, cp) ==
  /\ at = "ema" /\ a \in todo \cap Live
  /\ todo' = todo \ {a}
  /\ IF Usable(ema[a])
     THEN LET new == NewEma(ema[a], cp)
          IN  /\ ema' = [ema EXCEPT ![a] = [ema |-> new.ema, n |-> new.n, date |-> today]]
              /\ close' = [close EXCEPT ![a] = cp]
     ELSE UNCHANGED <<ema, close>>
  /\ UNCHANGED <<clock, at, indices, asset, adding, spread, sp500, faults, compared,
                 excused, announced, unsaved, late>>

(* No price, no row read or none saved: on to the next asset.              *)
UpdateEmaFails(a) ==
  /\ at = "ema" /\ a \in todo \cap Live
  /\ Fault
  /\ todo' = todo \ {a} /\ excused' = TRUE
  /\ UNCHANGED <<clock, at, indices, assets, spread, sp500, compared, close, announced,
                 unsaved, late>>

(* RetrieveAsset fails, always if the asset was deleted: the step ends,    *)
(* and the assets after it get no row today.                               *)
AssetGone(a) ==
  /\ at = "ema" /\ a \in todo
  /\ IF a \in Live THEN Fault ELSE UNCHANGED faults
  /\ Goto("spread") /\ todo' = {} /\ excused' = TRUE
  /\ UNCHANGED <<clock, indices, assets, spread, sp500, compared, close, announced,
                 unsaved, late>>

EmaDone ==
  /\ at = "ema" /\ todo = {}
  /\ Goto("spread")
  /\ UNCHANGED <<clock, todo, indices, assets, spread, sp500, faults, ghosts>>

-----------------------------------------------------------------------------
(* The high yield spread *)

(* runHighYieldSpreadEvent: a date that is not the latest one is saved.    *)
Spread ==
  /\ at = "spread" /\ spreads # {}
  /\ Goto("recommend")
  /\ spreads' = IF published = Newest(spreads) THEN spreads ELSE spreads \cup {published}
  /\ UNCHANGED <<clock, todo, indices, assets, published, sp500, faults, ghosts>>

(* No value can be read for the date, which is then empty and cannot be    *)
(* parsed; or the row cannot be saved.                                     *)
SpreadFails ==
  /\ at = "spread" /\ spreads # {}
  /\ Fault
  /\ Goto("recommend") /\ excused' = TRUE
  /\ UNCHANGED <<clock, todo, indices, assets, spread, sp500, compared, close, announced,
                 unsaved, late>>

(* The error of the query for the latest row is reported, then the row     *)
(* that was not found is used; an empty table is such an error.  The       *)
(* download panics as well when it fails.                                  *)
SpreadPanics ==
  /\ at = "spread"
  /\ IF spreads = {} THEN UNCHANGED faults ELSE Fault
  /\ Goto("idle") /\ excused' = TRUE
  /\ UNCHANGED <<clock, todo, indices, assets, spread, sp500, compared, close, announced,
                 unsaved, late>>

(* runAssetRecommendEvent: a pass of AssetMonitor and a message.           *)
Recommend ==
  /\ at = "recommend"
  /\ Goto("entries")
  /\ UNCHANGED <<clock, todo, indices, assets, spread, sp500, faults, ghosts>>

-----------------------------------------------------------------------------
(* The companies *)

Dates == {listed[companies[i]] : i \in DOMAIN companies}

LatestEntry == Newest(Dates)

(* Faulty variant: the companies of today.                                 *)
RecentEntries_Today == {c \in Companies : listed[c] = today}

(* RecentSP500Entries: companies listed after the latest date stored.      *)
RecentEntries == {c \in Companies : listed[c] # None /\ listed[c] > LatestEntry}

FindEntries ==
  /\ at = "entries" /\ companies # <<>>
  /\ Goto("announce") /\ todo' = RecentEntries
  /\ UNCHANGED <<clock, indices, assets, spread, sp500, faults, ghosts>>

FindEntriesFails ==
  /\ at = "entries" /\ companies # <<>>
  /\ Fault
  /\ Goto("announce") /\ excused' = TRUE
  /\ UNCHANGED <<clock, todo, indices, assets, spread, sp500, compared, close, announced,
                 unsaved, late>>

(* As with the spread: the latest entry is used although there is none.    *)
FindEntriesPanics ==
  /\ at = "entries"
  /\ IF companies = <<>> THEN UNCHANGED faults ELSE Fault
  /\ Goto("idle") /\ excused' = TRUE
  /\ UNCHANGED <<clock, todo, indices, assets, spread, sp500, compared, close, announced,
                 unsaved, late>>

(* The user is told of a company, then it is saved.                        *)
Announce(c) ==
  /\ at = "announce" /\ c \in todo
  /\ todo' = todo \ {c}
  /\ announced' = [announced EXCEPT ![c] = @ + 1]
  /\ companies' = Append(companies, c)
  /\ UNCHANGED <<clock, at, indices, assets, spread, listed, faults, compared, close,
                 excused, unsaved, late>>

(* It cannot be saved: the next one is announced.                          *)
AnnounceFails(c) ==
  /\ at = "announce" /\ c \in todo
  /\ Fault
  /\ todo' = todo \ {c}
  /\ announced' = [announced EXCEPT ![c] = @ + 1]
  /\ unsaved' = unsaved \cup {c} /\ excused' = TRUE
  /\ UNCHANGED <<clock, at, indices, assets, spread, sp500, compared, close, late>>

Finish ==
  /\ at = "announce" /\ todo = {}
  /\ Goto("done")
  /\ UNCHANGED <<clock, todo, indices, assets, spread, sp500, faults, ghosts>>

-----------------------------------------------------------------------------
(* Requests, the outside world, the server *)

(* POST /assets saves the asset...                                         *)
AddAsset(a) ==
  /\ adding = None /\ asset[a] = "new"
  /\ asset' = [asset EXCEPT ![a] = "live"] /\ adding' = a
  /\ UNCHANGED <<clock, job, indices, ema, spread, sp500, faults, ghosts>>

(* ...and then its first average: the one given, or the one the broker     *)
(* computes, or 0 over 0 days when the broker gives none.                  *)
SaveFirstEma(r) ==
  /\ adding # None
  /\ ema' = [ema EXCEPT ![adding] = [ema |-> r.ema, n |-> r.n, date |-> today]]
  /\ adding' = None
  /\ UNCHANGED <<clock, job, indices, asset, spread, sp500, faults, ghosts>>

SaveFirstEmaFails ==
  /\ adding # None
  /\ Fault
  /\ adding' = None
  /\ UNCHANGED <<clock, job, indices, asset, ema, spread, sp500, ghosts>>

DeleteAsset(a) ==
  /\ a \in Live \ {adding}
  /\ asset' = [asset EXCEPT ![a] = "deleted"]
  /\ UNCHANGED <<clock, job, indices, adding, ema, spread, sp500, faults, ghosts>>

(* A company appears on the page, which is read at once: what appears      *)
(* during the job is as good as listed before or after it.                 *)
List(c, d) ==
  /\ at \in {"idle", "done"}
  /\ listed[c] = None /\ d <= today
  /\ listed' = [listed EXCEPT ![c] = d]
  /\ late' = IF companies # <<>> /\ d <= LatestEntry THEN late \cup {c} ELSE late
  /\ UNCHANGED <<clock, job, indices, assets, spread, companies, faults, compared, close,
                 excused, announced, unsaved>>

(* The next day; the source of the spread may show a newer date.  On a     *)
(* weekday the job was run, unless there was no server.                    *)
NextDay(p) ==
  /\ at \in {"idle", "done"} /\ today < MaxDay
  /\ IF Workday(today) /\ ~ran THEN Fault ELSE UNCHANGED faults
  /\ today' = today + 1 /\ ran' = FALSE
  /\ Goto("idle")
  /\ p \in published..today /\ published' = p
  /\ excused' = FALSE /\ compared' = None
  /\ UNCHANGED <<todo, indices, assets, spreads, sp500, close, announced, unsaved, late>>

(* The server restarts after seven: the rest of the job is not made up     *)
(* for.  A company may have been announced and not saved.                  *)
Restart ==
  /\ Fault
  /\ Goto("idle") /\ todo' = {} /\ adding' = None
  /\ excused' = TRUE
  /\ IF at = "announce"
     THEN /\ unsaved' = unsaved \cup todo
          /\ \/ UNCHANGED announced
             \/ \E c \in todo : announced' = [announced EXCEPT ![c] = @ + 1]
     ELSE UNCHANGED <<unsaved, announced>>
  /\ UNCHANGED <<clock, indices, asset, ema, spread, sp500, compared, close, late>>

-----------------------------------------------------------------------------
Job ==
  \/ Start \/ Index \/ ListAssets \/ EmaDone \/ Spread \/ Recommend \/ FindEntries \/ Finish
  \/ \E a \in Assets, cp \in Prices : UpdateEma(a, cp)
  \/ \E c \in Companies : Announce(c)

JobFails ==
  \/ IndexFails \/ ListAssetsFails \/ SpreadFails \/ SpreadPanics
  \/ FindEntriesFails \/ FindEntriesPanics
  \/ \E a \in Assets : UpdateEmaFails(a) \/ AssetGone(a)
  \/ \E c \in Companies : AnnounceFails(c)

Outside ==
  \/ \E a \in Assets : AddAsset(a) \/ DeleteAsset(a)
  \/ \E r \in FirstEmas : SaveFirstEma(r)
  \/ SaveFirstEmaFails
  \/ \E c \in Companies, d \in Days : List(c, d)
  \/ \E p \in Days : NextDay(p)
  \/ Restart

Next == Job \/ JobFails \/ Outside

Spec == Init /\ [][Next]_vars

-----------------------------------------------------------------------------
(* Properties *)

Steps == {"idle", "index", "list", "ema", "spread", "recommend", "entries", "announce",
          "done"}

(* Types; no average is below 0, and only the averages and the companies   *)
(* have something left to do.                                              *)
TypeOK ==
  /\ today \in Days /\ ran \in BOOLEAN
  /\ at \in Steps
  /\ todo \subseteq (IF at = "ema" THEN Assets ELSE IF at = "announce" THEN Companies ELSE {})
  /\ indices \in SUBSET Days
  /\ asset \in [Assets -> {"new", "live", "deleted"}] /\ adding \in Assets \cup {None}
  /\ ema \in [Assets -> Rows \cup {None}]
  /\ published \in Days /\ spreads \in SUBSET Days
  /\ listed \in [Companies -> Days \cup {None}] /\ companies \in Seq(Companies)
  /\ faults \in Nat
  /\ compared \in Days \cup {None} /\ close \in [Assets -> Nat] /\ excused \in BOOLEAN
  /\ announced \in [Companies -> Nat]
  /\ unsaved \in SUBSET Companies /\ late \in SUBSET Companies

(* A new average lies between the one before and the closing price, and    *)
(* from 200 days on between the two as rounded to cents: it passes neither *)
(* by more than half a cent, and a rounded one, fed back every day, never  *)
(* drifts away from the price, however often it is rounded.                *)
Between(x, a, b) == (a <= x /\ x <= b) \/ (b <= x /\ x <= a)

ToCents(x) == Cent * Rounded(x, Cent)
Follows(new, old, cp) ==
  IF old.n < 200 THEN Between(new.ema, old.ema, cp)
                 ELSE Between(new.ema, ToCents(old.ema), ToCents(cp))

EmaFollowsPrice ==
  [][\A a \in Assets :
       ema[a] # None /\ ema'[a] # ema[a] => Follows(ema'[a], ema[a], close'[a])]_vars

(* Below 200 days the average is that of the prices so far, to the cent:   *)
(* SMA = (PRICE - SMA) / (N + 1) + SMA.                                    *)
EmaIsAverage ==
  [][\A a \in Assets :
       ema[a] # None /\ ema'[a] # ema[a] /\ ema[a].n < 200 =>
         LET n == ema[a].n
             exact == close'[a] + n * ema[a].ema
         IN  Between((n + 1) * ema'[a].ema, exact - (n + 1) * Cent, exact + (n + 1) * Cent)]_vars

(* A job that got to its end, on a day on which nothing failed and no      *)
(* asset was deleted under it, has brought every table up to date: no      *)
(* failure of an earlier day leaves one behind.  Its message compared the  *)
(* indices with the last weekday before, also over a weekend, whenever     *)
(* that day has a row.                                                     *)
DayIsDone ==
  at = "done" /\ ~excused =>
    /\ today \in indices /\ published \in spreads
    /\ \A a \in Live : Usable(ema[a]) => ema[a].date = today
    /\ \A d \in indices :
         d < today /\ (\A e \in d + 1 .. today - 1 : ~Workday(e)) => compared = d

(* No company is stored twice, and the user is told of it once, unless it  *)
(* could not be saved when it was announced.  A listed company that is not *)
(* stored is still to be found, being newer than every one stored, or its  *)
(* turn is to come in the job under way, or it was listed with an old      *)
(* date, or it could not be saved at its turn.                             *)
Copies(c) == Cardinality({i \in DOMAIN companies : companies[i] = c})
NewcomersAreToldOnce ==
  \A c \in Companies :
    /\ Copies(c) <= 1 /\ (announced[c] > 1 => c \in unsaved)
    /\ listed[c] # None /\ companies # <<>> /\ Copies(c) = 0 =>
         \/ listed[c] > LatestEntry
         \/ at = "announce" /\ c \in todo
         \/ c \in late \cup unsaved
=============================================================================
