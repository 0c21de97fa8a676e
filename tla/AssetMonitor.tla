---------------------------- MODULE AssetMonitor ----------------------------
(***************************************************************************)
(* Price alerts: passes over the registered assets compare each market     *)
(* price with the targets stored for the asset, tell the user once per     *)
(* target and six hours (the message cache), and write the asset's row     *)
(* back when its highest or lowest price has moved.  The asset event, the  *)
(* coin event, the daily recommendation and manual launches all run such   *)
(* passes, each in a goroutine of its own, while the user changes and      *)
(* deletes assets over PUT and DELETE /assets.                             *)
(*                                                                         *)
(* The cache is a plain map, and the whole row a pass has read is written. *)
(***************************************************************************)
EXTENDS Naturals, FiniteSets

CONSTANTS
  Assets,      \* asset ids
  Priced,      \* those of a category that PresentPrice has a source for
  Passes,      \* goroutines that run updateAsset or runCoinEvent
  Watched,     \* the assets each of them looks at: all, or the domestic coins
  Levels,      \* market prices
  InitRows,    \* rows that assets are registered with
  Edits,       \* rows that PUT /assets may write
  None,        \* no row, no side, no target
  MaxEdits,    \* bound: requests that change or delete assets
  MaxMoves,    \* bound: changes of a market price or of the holdings
  MaxLapses,   \* bound: times six hours pass for a message
  MaxFaults    \* bound: failed calls and restarts

Buy == "buy"
Sell == "sell"
Sides == {Buy, Sell}
Targets == Levels \cup {0}
Rows == [buy: Targets, sell: Targets, top: Targets, bottom: Targets]

ASSUME MonitorAssumption ==
  /\ Levels \subseteq Nat \ {0}
  /\ Watched \in [Passes -> SUBSET Assets] /\ Priced \subseteq Assets
  /\ InitRows \subseteq Rows /\ Edits \subseteq Rows
  /\ None \notin Assets \cup Passes \cup Rows \cup Sides \cup Targets
  /\ {MaxEdits, MaxMoves, MaxLapses, MaxFaults} \subseteq Nat

VARIABLES
  table,     \* assets: the row of each asset
  live,      \* assets that are not soft-deleted
  market,    \* the market price of each asset
  owned,     \* assets whose holdings add up to more than zero
  cache,     \* per asset and side: the target of a message of the last six hours
  at, todo,  \* per pass: its step, and the assets it has still to look at
  cur, row, seen,  \* per pass: the asset, the row it read, the price it fetched
  msg,       \* per pass: the side of the message it will send, or None
  edits, moves, lapses, faults,
  (* History variables: no code reads them. *)
  wish,      \* the targets the user asked for last
  peak,      \* the highest price an asset's row was brought up to
  overlapped,\* assets of which a copy was held while their row was written
  clashed,   \* assets judged by one pass while another had a message to send
  told,      \* per asset and side: the user was told of the target in the cache
  repeated,  \* assets for which the user was told the same again
  unsent     \* assets of which a message could not be sent

table_ == <<table, live>>
world  == <<market, owned>>
pass   == <<at, todo, cur, row, seen, msg>>
bounds == <<edits, moves, lapses, faults>>
sent   == <<told, repeated, unsent>>
ghosts == <<wish, peak, overlapped, clashed, sent>>
vars   == <<table_, world, cache, pass, bounds, ghosts>>

TargetsOf(r) == [buy |-> r.buy, sell |-> r.sell]
Higher(a, b) == IF a < b THEN b ELSE a

Init ==
  /\ table \in [Assets -> InitRows] /\ live = Assets
  /\ market \in [Assets -> Levels] /\ owned \in SUBSET Assets
  /\ cache = [a \in Assets |-> [s \in Sides |-> None]]
  /\ at = [x \in Passes |-> "idle"] /\ todo = [x \in Passes |-> {}]
  /\ cur = [x \in Passes |-> None] /\ row = [x \in Passes |-> None]
  /\ seen = [x \in Passes |-> 0] /\ msg = [x \in Passes |-> None]
  /\ edits = 0 /\ moves = 0 /\ lapses = 0 /\ faults = 0
  /\ wish = [a \in Assets |-> TargetsOf(table[a])]
  /\ peak = [a \in Assets |-> table[a].top]
  /\ overlapped = {} /\ clashed = {} /\ repeated = {} /\ unsent = {}
  /\ told = [a \in Assets |-> [s \in Sides |-> FALSE]]

Goto(x, step) == at' = [at EXCEPT ![x] = step]
Fault == faults < MaxFaults /\ faults' = faults + 1
OtherBounds == UNCHANGED <<edits, moves, lapses>>

-----------------------------------------------------------------------------
(* A pass *)

(* RetrieveAssetList: the assets that are not soft-deleted.                *)
Start(x) ==
  /\ at[x] = "idle"
  /\ live \cap Watched[x] # {}
  /\ Goto(x, "next")
  /\ todo' = [todo EXCEPT ![x] = live \cap Watched[x]]
  /\ UNCHANGED <<table_, world, cache, cur, row, seen, msg, bounds, ghosts>>

(* buySellMsg begins: RetrieveAsset and PresentPrice.                      *)
Fetch(x, a) ==
  /\ at[x] = "next" /\ a \in todo[x] /\ a \in live \cap Priced
  /\ Goto(x, "judge")
  /\ cur' = [cur EXCEPT ![x] = a]
  /\ row' = [row EXCEPT ![x] = table[a]]
  /\ seen' = [seen EXCEPT ![x] = market[a]]
  /\ UNCHANGED <<table_, world, cache, todo, msg, bounds, ghosts>>

(* The asset is gone, it is of a category without a source of prices       *)
(* (Leverage), or a call fails: the pass ends.                             *)
FetchFails(x, a) ==
  /\ at[x] = "next" /\ a \in todo[x]
  /\ IF a \in live \cap Priced THEN Fault ELSE UNCHANGED faults
  /\ Goto(x, "idle")
  /\ todo' = [todo EXCEPT ![x] = {}]
  /\ OtherBounds
  /\ UNCHANGED <<table_, world, cache, cur, row, seen, msg, ghosts>>

(* Faulty variant: any message of the last six hours is in the way.        *)
HasMsgCache_AnyTarget(a, side, target) == cache[a][side] # None

(* HasMsgCache: a message with the same target in the last six hours.      *)
HasMsgCache(a, side, target) == cache[a][side] = target

Wanted(x, holds) ==
  LET a == cur[x]
      r == row[x]
  IN  IF r.buy >= seen[x] /\ ~HasMsgCache(a, Buy, r.buy) THEN Buy
      ELSE IF r.sell # 0 /\ r.sell <= seen[x] /\ holds /\ ~HasMsgCache(a, Sell, r.sell)
      THEN Sell ELSE None

Decide(x, side) ==
  /\ msg' = [msg EXCEPT ![x] = side]
  /\ Goto(x, IF side = None THEN "range" ELSE "mark")
  /\ clashed' = IF \E y \in Passes \ {x} : msg[y] # None /\ cur[y] = cur[x]
                THEN clashed \cup {cur[x]} ELSE clashed

(* Faulty variant: the message cache is not asked.                         *)
Judge_NoCache(x) ==
  /\ at[x] = "judge"
  /\ Decide(x, IF row[x].buy >= seen[x] THEN Buy ELSE None)
  /\ UNCHANGED <<table_, world, cache, todo, cur, row, seen, bounds, wish, peak,
                 overlapped, sent>>

Judge(x) ==
  /\ at[x] = "judge"
  /\ Decide(x, Wanted(x, cur[x] \in owned))
  /\ UNCHANGED <<table_, world, cache, todo, cur, row, seen, bounds, wish, peak,
                 overlapped, sent>>

(* isOwnedAsset answers yes when its query fails.                          *)
JudgeUnsure(x) ==
  /\ at[x] = "judge"
  /\ Fault
  /\ Decide(x, Wanted(x, TRUE))
  /\ OtherBounds
  /\ UNCHANGED <<table_, world, cache, todo, cur, row, seen, wish, peak, overlapped, sent>>

Target(x) == row[x][msg[x]]

(* SetMsgCache: the message counts as sent from here on.                   *)
Mark(x) ==
  /\ at[x] = "mark"
  /\ Goto(x, "range")
  /\ cache' = [cache EXCEPT ![cur[x]][msg[x]] = Target(x)]
  /\ told' = [told EXCEPT ![cur[x]][msg[x]] = @ /\ HasMsgCache(cur[x], msg[x], Target(x))]
  /\ UNCHANGED <<table_, world, todo, cur, row, seen, msg, bounds, wish, peak,
                 overlapped, clashed, repeated, unsent>>

NewRange(x) ==
  IF row[x].top < seen[x] THEN [row[x] EXCEPT !.top = seen[x]]
  ELSE IF row[x].bottom > seen[x] THEN [row[x] EXCEPT !.bottom = seen[x]]
  ELSE row[x]

(* Passes but x that hold a copy of a's row which they may write.          *)
Holders(x, a) ==
  {y \in Passes \ {x} : at[y] \in {"judge", "mark", "range"} /\ cur[y] = a}

Overlap(x, a) ==
  overlapped' = IF Holders(x, a) = {} THEN overlapped ELSE overlapped \cup {a}

(* Faulty variant: a column left out of the row is written as zero.        *)
UpdateRange_DropsTarget(x) ==
  LET a == cur[x]
      new == [NewRange(x) EXCEPT !.sell = 0]
  IN  /\ at[x] = "range"
      /\ Goto(x, "send")
      /\ IF NewRange(x) # row[x] /\ a \in live
         THEN table' = [table EXCEPT ![a] = new] /\ Overlap(x, a)
         ELSE UNCHANGED <<table, overlapped>>
      /\ peak' = IF a \in live THEN [peak EXCEPT ![a] = Higher(@, seen[x])] ELSE peak
      /\ UNCHANGED <<live, world, cache, todo, cur, row, seen, msg, bounds, wish,
                     clashed, sent>>

(* Highest or lowest price: UpdateAssetInfo writes every column of the row *)
(* as it was read; a soft-deleted row is not written.                      *)
UpdateRange(x) ==
  LET a == cur[x]
  IN  /\ at[x] = "range"
      /\ Goto(x, "send")
      /\ IF NewRange(x) # row[x] /\ a \in live
         THEN table' = [table EXCEPT ![a] = NewRange(x)] /\ Overlap(x, a)
         ELSE UNCHANGED <<table, overlapped>>
      /\ peak' = IF a \in live THEN [peak EXCEPT ![a] = Higher(@, seen[x])] ELSE peak
      /\ UNCHANGED <<live, world, cache, todo, cur, row, seen, msg, bounds, wish,
                     clashed, sent>>

(* The error of UpdateAssetInfo is not looked at.                          *)
UpdateRangeFails(x) ==
  /\ at[x] = "range" /\ NewRange(x) # row[x]
  /\ Fault
  /\ Goto(x, "send")
  /\ OtherBounds
  /\ UNCHANGED <<table_, world, cache, todo, cur, row, seen, msg, ghosts>>

(* Faulty variant: the message is not reset for the next asset.            *)
Leave_KeepsMessage(x) ==
  /\ at[x] = "send"
  /\ todo' = [todo EXCEPT ![x] = @ \ {cur[x]}]
  /\ Goto(x, IF todo[x] = {cur[x]} THEN "idle" ELSE "next")
  /\ cur' = [cur EXCEPT ![x] = None] /\ row' = [row EXCEPT ![x] = None]
  /\ seen' = [seen EXCEPT ![x] = 0] /\ UNCHANGED msg

(* The pass is done with the asset and goes on to the next one.            *)
Leave(x) ==
  /\ at[x] = "send"
  /\ todo' = [todo EXCEPT ![x] = @ \ {cur[x]}]
  /\ Goto(x, IF todo[x] = {cur[x]} THEN "idle" ELSE "next")
  /\ cur' = [cur EXCEPT ![x] = None] /\ row' = [row EXCEPT ![x] = None]
  /\ seen' = [seen EXCEPT ![x] = 0] /\ msg' = [msg EXCEPT ![x] = None]

(* SendMessage, if there is one to send.                                   *)
Send(x) ==
  LET a == cur[x]
  IN  /\ Leave(x)
      /\ IF \/ msg[x] = None
            \/ ~HasMsgCache(a, msg[x], Target(x))
         THEN UNCHANGED <<told, repeated>>
         ELSE /\ told' = [told EXCEPT ![a][msg[x]] = TRUE]
              /\ repeated' = IF told[a][msg[x]] THEN repeated \cup {a} ELSE repeated
      /\ UNCHANGED <<table_, world, cache, bounds, wish, peak, overlapped,
                     clashed, unsent>>

(* The error of SendMessage is not looked at.                              *)
SendFails(x) ==
  /\ msg[x] # None
  /\ Leave(x)
  /\ Fault
  /\ unsent' = unsent \cup {cur[x]}
  /\ OtherBounds
  /\ UNCHANGED <<table_, world, cache, wish, peak, overlapped, clashed, told,
                 repeated>>

-----------------------------------------------------------------------------
(* The user, the market, the clock, the server *)

(* PUT /assets writes every column.  A soft-deleted asset stays as it is.  *)
UpdateAsset(a, r) ==
  /\ edits < MaxEdits /\ edits' = edits + 1
  /\ a \in live
  /\ table' = [table EXCEPT ![a] = r]
  /\ wish' = [wish EXCEPT ![a] = TargetsOf(r)]
  /\ peak' = [peak EXCEPT ![a] = r.top]
  /\ Overlap(None, a)
  /\ UNCHANGED <<live, world, cache, pass, moves, lapses, faults, clashed, sent>>

DeleteAsset(a) ==
  /\ edits < MaxEdits /\ edits' = edits + 1
  /\ a \in live
  /\ live' = live \ {a}
  /\ UNCHANGED <<table, world, cache, pass, moves, lapses, faults, ghosts>>

Move(a, p) ==
  /\ moves < MaxMoves /\ moves' = moves + 1
  /\ p # market[a]
  /\ market' = [market EXCEPT ![a] = p]
  /\ UNCHANGED <<table_, owned, cache, pass, edits, lapses, faults, ghosts>>

Trade(a) ==
  /\ moves < MaxMoves /\ moves' = moves + 1
  /\ owned' = IF a \in owned THEN owned \ {a} ELSE owned \cup {a}
  /\ UNCHANGED <<table_, market, cache, pass, edits, lapses, faults, ghosts>>

(* Six hours after a message was marked it is no longer in the way.  A     *)
(* message is sent or given up long before.                                *)
Lapse(a, side) ==
  /\ lapses < MaxLapses /\ lapses' = lapses + 1
  /\ cache[a][side] # None
  /\ \A x \in Passes : cur[x] = a => msg[x] # side
  /\ cache' = [cache EXCEPT ![a][side] = None]
  /\ told' = [told EXCEPT ![a][side] = FALSE]
  /\ UNCHANGED <<table_, world, pass, edits, moves, faults, wish, peak, overlapped,
                 clashed, repeated, unsent>>

(* Passes and the cache are gone, the table stays.                         *)
Restart ==
  /\ Fault
  /\ cache' = [a \in Assets |-> [s \in Sides |-> None]]
  /\ told' = [a \in Assets |-> [s \in Sides |-> FALSE]]
  /\ at' = [x \in Passes |-> "idle"] /\ todo' = [x \in Passes |-> {}]
  /\ cur' = [x \in Passes |-> None] /\ row' = [x \in Passes |-> None]
  /\ seen' = [x \in Passes |-> 0] /\ msg' = [x \in Passes |-> None]
  /\ OtherBounds
  /\ UNCHANGED <<table_, world, wish, peak, overlapped, clashed, repeated,
                 unsent>>

-----------------------------------------------------------------------------
Step(x) ==
  \/ Start(x) \/ Judge(x) \/ Mark(x) \/ UpdateRange(x) \/ Send(x)
  \/ \E a \in Assets : Fetch(x, a)

Fail(x) ==
  \/ JudgeUnsure(x) \/ UpdateRangeFails(x) \/ SendFails(x)
  \/ \E a \in Assets : FetchFails(x, a)

Next ==
  \/ \E x \in Passes : Step(x) \/ Fail(x)
  \/ \E a \in Assets :
       \/ \E r \in Edits : UpdateAsset(a, r)
       \/ DeleteAsset(a) \/ Trade(a)
       \/ \E p \in Levels : Move(a, p)
       \/ \E s \in Sides : Lapse(a, s)
  \/ Restart

(* Passes are started again and again and run on; no other step must come. *)
Fairness ==
  \A x \in Passes : WF_vars(Step(x) \/ \E a \in Assets : FetchFails(x, a))

Spec == Init /\ [][Next]_vars
FairSpec == Spec /\ Fairness

-----------------------------------------------------------------------------
(* Properties *)

Holding == {"judge", "mark", "range", "send"}

TablesOK ==
  /\ table \in [Assets -> Rows] /\ live \in SUBSET Assets
  /\ market \in [Assets -> Levels] /\ owned \in SUBSET Assets
  /\ wish \in [Assets -> [buy: Targets, sell: Targets]] /\ peak \in [Assets -> Targets]

CacheOK ==
  /\ cache \in [Assets -> [Sides -> Targets \cup {None}]]
  /\ told \in [Assets -> [Sides -> BOOLEAN]]
  /\ {overlapped, clashed, repeated, unsent} \subseteq SUBSET Assets

PassesOK ==
  /\ at \in [Passes -> {"idle", "next"} \cup Holding]
  /\ todo \in [Passes -> SUBSET Assets]
  /\ cur \in [Passes -> Assets \cup {None}] /\ row \in [Passes -> Rows \cup {None}]
  /\ seen \in [Passes -> Targets] /\ msg \in [Passes -> Sides \cup {None}]

InStep(x) ==
  /\ at[x] = "idle" <=> todo[x] = {}
  /\ IF at[x] \in Holding
     THEN cur[x] \in todo[x] /\ row[x] \in Rows /\ seen[x] \in Levels
     ELSE cur[x] = None /\ row[x] = None /\ seen[x] = 0
  /\ msg[x] # None => at[x] \in {"mark", "range", "send"}
  /\ at[x] = "mark" => msg[x] # None

(* Types, and what a pass holds at each of its steps.                      *)
TypeOK == TablesOK /\ CacheOK /\ PassesOK /\ \A x \in Passes : InStep(x)

(* The targets stored for an asset are those the user asked for last, and  *)
(* its highest price is as high as every price a pass has brought its row  *)
(* up to, unless the row was written while a pass held an older copy.      *)
OnlyOverlapsRevert ==
  \A a \in Assets \ overlapped :
    TargetsOf(table[a]) = wish[a] /\ table[a].top >= peak[a]

(* The user is told once per target while the message is cached, unless    *)
(* a pass judged the asset while another had a message about it to send.   *)
OnlyClashesRepeat == repeated \subseteq clashed

(* A price that stays at or below the target to buy at, of an asset that   *)
(* stays registered and has a source of prices, becomes known to the user, *)
(* also after the target was changed, the server restarted or another call *)
(* failed.  Only a message that could not be sent is lost: it is not tried *)
(* again for six hours.                                                    *)
Low(a) ==
  a \in live \cap Priced /\ market[a] <= table[a].buy /\ \E x \in Passes : a \in Watched[x]
Told(a) == cache[a][Buy] = table[a].buy /\ told[a][Buy]
BuyersAreTold ==
  \A a \in Assets : <>[]Low(a) => []<>(Told(a) \/ a \in unsent)
=============================================================================
