------------------------------ MODULE DexAdvice ------------------------------
(***************************************************************************)
(* The AVAX DEX event: it watches the price of AVAX and, when that leaves  *)
(* the window of the last advice, tells the user which amount to put into  *)
(* which window next.                                                      *)
(*                                                                         *)
(* The window, the phase and the amount put in are variables of the        *)
(* package that every run reads and writes without a lock, between calls   *)
(* to the database and the messenger: cron starts a run each minute, and   *)
(* the user one at any time.  Every access is a step of its own here.      *)
(*                                                                         *)
(* Prices are in cents, as newRange rounds them; amounts of AVAX are in    *)
(* Unit-ths of a coin.                                                     *)
(***************************************************************************)
EXTENDS Integers

CONSTANTS
  Runs,        \* runs of the event that can overlap
  Prices,      \* what PresentPrice can return, in cents
  Amounts,     \* counts of AVAX fund 3 can hold
  Unit,        \* parts of a coin a count is given in
  MaxStarts,   \* bound: runs in all
  MaxTrades,   \* bound: changes of the holding
  MaxFailures  \* bound: failed calls

(* From 17 cents on a window is wider than its rounding.                   *)
ASSUME AdviceAssumption ==
  /\ Prices \subseteq {p \in Nat : p >= 17}
  /\ Amounts \subseteq Nat
  /\ Unit \in Nat \ {0}
  /\ MaxStarts \in Nat /\ MaxTrades \in Nat /\ MaxFailures \in Nat

VARIABLES
  at,        \* step of each run
  cp,        \* the price it works with
  amount,    \* the count it has read
  branch,    \* the phase it has switched on
  low,       \* the lower end of the window it has told
  (* The variables of the package. *)
  dexRange,  \* the window, from low to high
  phase,     \* empty, twoThird, full
  inputed,   \* AVAX the advice so far puts into the pool
  held,      \* AVAX of fund 3 in the database
  started, trades, failures,
  (* History variables: no code reads them. *)
  moves,     \* windows set
  advised,   \* advices told to the end
  crossed,   \* two runs were between the window and the phase at once
  misled,    \* an advice gave a window without the price it was about
  shrunk,    \* the holding was cut after it was put in
  overdrawn  \* an advice was to put less than nothing, of two coins or more

run     == <<at, cp, amount, branch, low>>
globals == <<dexRange, phase, inputed>>
history == <<moves, advised, crossed, misled, shrunk, overdrawn>>
adviceVars == <<run, globals, held, started, trades, failures, history>>

AdviceInit ==
  /\ at = [r \in Runs |-> "idle"] /\ cp = [r \in Runs |-> 0]
  /\ amount = [r \in Runs |-> 0] /\ branch = [r \in Runs |-> "empty"]
  /\ low = [r \in Runs |-> 0]
  /\ dexRange = [low |-> 0, high |-> 0]
  /\ phase = "empty" /\ inputed = 0
  /\ held \in Amounts
  /\ started = 0 /\ trades = 0 /\ failures = 0
  /\ moves = 0 /\ advised = 0 /\ crossed = FALSE
  /\ misled = FALSE /\ shrunk = FALSE /\ overdrawn = FALSE

Failure == failures < MaxFailures /\ failures' = failures + 1
Goto(r, l) == at' = [at EXCEPT ![r] = l]

-----------------------------------------------------------------------------
(* Arithmetic *)

Gap == 3   \* per cent

(* Faulty variant: the gap is taken off both ends.                         *)
NewRange_OneSided(p) ==
  [low  |-> ((100 - Gap) * p + 50) \div 100,
   high |-> ((100 - Gap) * p + 50) \div 100]

(* newRange: three per cent on either side, rounded to cents.              *)
NewRange(p) ==
  [low  |-> ((100 - Gap) * p + 50) \div 100,
   high |-> ((100 + Gap) * p + 50) \div 100]

(* 2 * math.Round(amount / 3), in whole coins.                             *)
TwoThirds(a) == 2 * Unit * ((2 * a + 3 * Unit) \div (6 * Unit))

-----------------------------------------------------------------------------
(* runAvaxDexEvent *)

Start(r) ==
  /\ at[r] = "idle" /\ started < MaxStarts
  /\ Goto(r, "look")
  /\ started' = started + 1
  /\ UNCHANGED <<cp, amount, branch, low, globals, held, trades, failures, history>>

(* RetrieveAssetList, RetrieveAsset, PresentPrice.                         *)
Look(r) ==
  /\ at[r] = "look"
  /\ \E p \in Prices : cp' = [cp EXCEPT ![r] = p]
  /\ Goto(r, "below")
  /\ UNCHANGED <<amount, branch, low, globals, held, started, trades, failures, history>>

Return(r) ==
  /\ Goto(r, "idle")
  /\ cp' = [cp EXCEPT ![r] = 0] /\ amount' = [amount EXCEPT ![r] = 0]
  /\ branch' = [branch EXCEPT ![r] = "empty"]
  /\ low' = [low EXCEPT ![r] = 0]

(* One of these fails, or the summary of the fund: a message, and no more. *)
LookFails(r) ==
  /\ at[r] \in {"look", "amount"}
  /\ Failure
  /\ Return(r)
  /\ UNCHANGED <<globals, held, started, trades, history>>

Crossing(r) == crossed' = (crossed \/ \E s \in Runs \ {r} : at[s] \notin {"idle", "look"})

(* cp <= dexRange[0]                                                       *)
Below(r) ==
  /\ at[r] = "below"
  /\ Goto(r, IF cp[r] <= dexRange.low THEN "setlow" ELSE "above")
  /\ Crossing(r)
  /\ UNCHANGED <<cp, amount, branch, low, globals, held, started, trades, failures,
                 moves, advised, misled, shrunk, overdrawn>>

(* || cp >= dexRange[1]                                                    *)
Above(r) ==
  /\ at[r] = "above"
  /\ IF cp[r] >= dexRange.high
     THEN Goto(r, "setlow") /\ UNCHANGED <<cp, amount, branch, low>>
     ELSE Return(r)
  /\ UNCHANGED <<globals, held, started, trades, failures, history>>

(* dexRange = newRange(cp): two words.                                     *)
SetLow(r) ==
  /\ at[r] = "setlow"
  /\ dexRange' = [dexRange EXCEPT !.low = NewRange(cp[r]).low]
  /\ Goto(r, "sethigh")
  /\ UNCHANGED <<cp, amount, branch, low, phase, inputed, held, started, trades,
                 failures, history>>

SetHigh(r) ==
  /\ at[r] = "sethigh"
  /\ dexRange' = [dexRange EXCEPT !.high = NewRange(cp[r]).high]
  /\ moves' = moves + 1
  /\ Goto(r, "amount")
  /\ UNCHANGED <<cp, amount, branch, low, phase, inputed, held, started, trades,
                 failures, advised, crossed, misled, shrunk, overdrawn>>

(* RetreiveFundSummaryByAssetId.                                           *)
ReadAmount(r) ==
  /\ at[r] = "amount"
  /\ amount' = [amount EXCEPT ![r] = held]
  /\ Goto(r, "switch")
  /\ UNCHANGED <<cp, branch, low, globals, held, started, trades, failures, history>>

(* switch currentPhase: the first line of the advice.                      *)
Switch(r) ==
  /\ at[r] = "switch"
  /\ branch' = [branch EXCEPT ![r] = phase]
  /\ Goto(r, "put")
  /\ UNCHANGED <<cp, amount, low, globals, held, started, trades, failures, history>>

(* The amount to put: a third, or what is not in the pool.                 *)
TellPut(r) ==
  /\ at[r] = "put"
  /\ overdrawn' = \/ overdrawn
                  \/ /\ branch[r] = "twoThird"
                     /\ amount[r] >= 2 * Unit /\ amount[r] < inputed
  /\ Goto(r, "low")
  /\ UNCHANGED <<cp, amount, branch, low, globals, held, started, trades, failures,
                 moves, advised, crossed, misled, shrunk>>

TellLow(r) ==
  /\ at[r] = "low"
  /\ low' = [low EXCEPT ![r] = dexRange.low]
  /\ Goto(r, "high")
  /\ UNCHANGED <<cp, amount, branch, globals, held, started, trades, failures, history>>

TellHigh(r) ==
  /\ at[r] = "high"
  /\ misled' = (misled \/ ~(low[r] < cp[r] /\ cp[r] < dexRange.high))
  /\ Goto(r, "first")
  /\ UNCHANGED <<cp, amount, branch, low, globals, held, started, trades, failures,
                 moves, advised, crossed, shrunk, overdrawn>>

(* The two assignments at the end of a case, in its order.                 *)
SetFirst(r) ==
  /\ at[r] = "first"
  /\ IF branch[r] = "twoThird"
     THEN phase' = "full" /\ UNCHANGED inputed
     ELSE inputed' = TwoThirds(amount[r]) /\ UNCHANGED phase
  /\ Goto(r, "second")
  /\ UNCHANGED <<cp, amount, branch, low, dexRange, held, started, trades, failures, history>>

SetSecond(r) ==
  /\ at[r] = "second"
  /\ IF branch[r] = "twoThird"
     THEN inputed' = amount[r] /\ UNCHANGED phase
     ELSE phase' = "twoThird" /\ UNCHANGED inputed
  /\ advised' = advised + 1
  /\ Return(r)
  /\ UNCHANGED <<dexRange, held, started, trades, failures, moves, crossed, misled,
                 shrunk, overdrawn>>

(* RecordInvest for fund 3, from elsewhere in the program.                 *)
Trade ==
  /\ trades < MaxTrades /\ trades' = trades + 1
  /\ \E a \in Amounts : held' = a /\ shrunk' = (shrunk \/ a < held)
  /\ UNCHANGED <<run, globals, started, failures, moves, advised, crossed, misled, overdrawn>>

-----------------------------------------------------------------------------
AtRest ==
  /\ started = MaxStarts /\ \A r \in Runs : at[r] = "idle"
  /\ UNCHANGED adviceVars

AdviceNext ==
  \/ \E r \in Runs :
       \/ Start(r) \/ Look(r) \/ LookFails(r) \/ Below(r) \/ Above(r)
       \/ SetLow(r) \/ SetHigh(r) \/ ReadAmount(r) \/ Switch(r)
       \/ TellPut(r) \/ TellLow(r) \/ TellHigh(r) \/ SetFirst(r) \/ SetSecond(r)
  \/ Trade
  \/ AtRest

AdviceSpec == AdviceInit /\ [][AdviceNext]_adviceVars

-----------------------------------------------------------------------------
(* Properties *)

(* Types; a run holds a price from Look until it returns.                  *)
AdviceTypeOK ==
  /\ at \in [Runs -> {"idle", "look", "below", "above", "setlow", "sethigh", "amount",
                      "switch", "put", "low", "high", "first", "second"}]
  /\ cp \in [Runs -> Prices \cup {0}] /\ amount \in [Runs -> Nat]
  /\ branch \in [Runs -> {"empty", "twoThird", "full"}]
  /\ low \in [Runs -> Nat]
  /\ dexRange \in [low : Nat, high : Nat]
  /\ phase \in {"empty", "twoThird", "full"} /\ inputed \in Nat
  /\ held \in Amounts
  /\ \A r \in Runs : at[r] \in {"idle", "look"} \/ cp[r] \in Prices

(* An advice is lost, wrong or impossible for these causes only.  As many  *)
(* are told as windows are set, but for those that a failed call has       *)
(* swallowed; the window told holds the price that gave rise to it, unless *)
(* another run was at it meanwhile; and the user is told to put a negative *)
(* amount into the pool only after the holding was cut or when runs        *)
(* overlapped (from two coins on: below, the thirds round up to more than  *)
(* there is).                                                              *)
AdviceIsExplained ==
  /\ (\A r \in Runs : at[r] = "idle") => moves - advised \in 0..failures
  /\ misled => crossed
  /\ overdrawn => shrunk \/ crossed
=============================================================================
