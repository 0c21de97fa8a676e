---------------------------- MODULE PoolPosition ----------------------------
(***************************************************************************)
(* The arithmetic of a liquidity position, and a position that is kept     *)
(* with it: blockchain/pkg/util.  A caller halves its two tokens by value, *)
(* computes a window about the price and what to put into it, and takes    *)
(* the position out again when the price has moved.  The caller is not in  *)
(* this repository; the functions are.                                     *)
(*                                                                         *)
(* A price is kept as its square root in Q-ths, and ticks are its powers.  *)
(* The code computes amounts with floating-point numbers of at least 64    *)
(* bits and cuts the fraction off at the end; here they are exact.         *)
(***************************************************************************)
EXTENDS Integers, Sequences

CONSTANTS
  One,          \* 1 in TickToSqrtPriceX96: 2^128
  Fine,         \* what its last step cuts off: 2^32
  Multipliers,  \* for each bit of a tick, the root of its power of the base
  MaxTick,      \* the largest tick
  Spacing,      \* between ticks that may bound a window
  Widths,       \* widths a caller asks for
  Slippages,    \* percentages it tolerates
  Fixed,        \* windows it asks for without CalculateTickBounds
  Between,      \* where a price can lie in its tick: a set of percentages
  Wallets,      \* what it can begin with
  MaxMoves,     \* bound: changes of the price
  MaxStakes     \* bound: positions opened

ASSUME PoolAssumption ==
  /\ One \in Nat \ {0} /\ Fine \in Nat \ {0} /\ One % Fine = 0
  /\ Multipliers \in Seq(1 .. One - 1)
  /\ MaxTick \in Nat \ {0} /\ MaxTick < 2 ^ Len(Multipliers)
  /\ Spacing \in 1 .. MaxTick
  /\ Widths \subseteq Nat /\ Slippages \subseteq Nat
  /\ Fixed \subseteq [low: -MaxTick .. MaxTick, high: -MaxTick .. MaxTick]
  /\ \A w \in Fixed : w.low < w.high
  /\ Between \subseteq 0 .. 99 /\ 0 \in Between
  /\ Wallets \subseteq [t0: Nat, t1: Nat]
  /\ MaxMoves \in Nat /\ MaxStakes \in Nat

Q == One \div Fine
Ticks == -MaxTick .. MaxTick
Abs(t) == IF t < 0 THEN -t ELSE t
Least(a, b) == IF a < b THEN a ELSE b

-----------------------------------------------------------------------------
(* The functions *)

(* TickToSqrtPriceX96: the product over the bits of the tick, inverted for *)
(* a positive one and rounded up to Q-ths.  Other ticks panic.             *)
RootAt(tick) ==
  LET n == Abs(tick)
      ratio[i \in 0 .. Len(Multipliers)] ==
        IF i = 0 THEN One
        ELSE IF (n \div 2 ^ (i - 1)) % 2 = 1
        THEN (ratio[i - 1] * Multipliers[i]) \div One ELSE ratio[i - 1]
      last == ratio[Len(Multipliers)]
  IN  ((IF tick > 0 THEN (One * One - 1) \div last ELSE last) + Fine - 1) \div Fine

Root == [t \in Ticks |-> RootAt(t)]

(* The constants of the code keep every price above zero, and apart.       *)
ASSUME RootsAscend ==
  /\ \A t \in Ticks : Root[t] \in Nat \ {0}
  /\ \A t, u \in Ticks : t < u => Root[t] < Root[u]

(* What liquidity l is worth in either token between two roots.            *)
Amount0(l, low, high) == (l * (high - low) * Q) \div (low * high)
Amount1(l, low, high) == (l * (high - low)) \div Q
(* The liquidity that an amount of either token makes between two roots.   *)
Liquidity0(a, low, high) == (a * low * high) \div (Q * (high - low))
Liquidity1(a, low, high) == (a * Q) \div (high - low)

(* Faulty variant: the more generous of the two budgets decides.           *)
ComputeAmounts_Larger(price, tick, w, max) ==
  LET low == Root[w.low]
      high == Root[w.high]
      l0 == Liquidity0(max.t0, price, high)
      l1 == Liquidity1(max.t1, low, price)
      l == IF l0 < l1 THEN l1 ELSE l0
  IN  IF tick <= w.low
      THEN [l |-> Liquidity0(max.t0, low, high), t0 |-> max.t0, t1 |-> 0]
      ELSE IF tick >= w.high
      THEN [l |-> Liquidity1(max.t1, low, high), t0 |-> 0, t1 |-> max.t1]
      ELSE [l |-> l, t0 |-> Amount0(l, price, high), t1 |-> Amount1(l, low, price)]

(* ComputeAmounts: the liquidity that the budgets allow and what it takes  *)
(* of them.  Which tokens it takes is decided by the tick.                 *)
ComputeAmounts(price, tick, w, max) ==
  LET low == Root[w.low]
      high == Root[w.high]
  IN  IF tick <= w.low
      THEN [l |-> Liquidity0(max.t0, low, high), t0 |-> max.t0, t1 |-> 0]
      ELSE IF tick >= w.high
      THEN [l |-> Liquidity1(max.t1, low, high), t0 |-> 0, t1 |-> max.t1]
      ELSE LET l == Least(Liquidity0(max.t0, price, high), Liquidity1(max.t1, low, price))
           IN  [l |-> l, t0 |-> Amount0(l, price, high), t1 |-> Amount1(l, low, price)]

(* CalculateTokenAmountsFromLiquidity: which tokens there are is decided   *)
(* by the price itself.                                                    *)
AmountsFromLiquidity(l, price, w) ==
  LET low == Root[w.low]
      high == Root[w.high]
  IN  IF l = 0 THEN [t0 |-> 0, t1 |-> 0]
      ELSE IF price <= low THEN [t0 |-> Amount0(l, low, high), t1 |-> 0]
      ELSE IF price >= high THEN [t0 |-> 0, t1 |-> Amount1(l, low, high)]
      ELSE [t0 |-> Amount0(l, price, high), t1 |-> Amount1(l, low, price)]

MinAmount(a, slippage) == (a * (100 - slippage)) \div 100

ValidStake(max, width, slippage) ==
  width \in 1 .. 20 /\ slippage \in 1 .. 50 /\ max.t0 > 0 /\ max.t1 > 0

(* math.Round: half of the spacing is rounded away from zero.              *)
TickIndex(tick) ==
  LET n == (2 * Abs(tick) + Spacing) \div (2 * Spacing) IN IF tick < 0 THEN -n ELSE n

Clamp(t) == IF t < -MaxTick THEN -MaxTick ELSE Least(t, MaxTick)

(* CalculateTickBounds: an error where the window would be empty.          *)
TickBounds(tick, width) ==
  [low  |-> Clamp((TickIndex(tick) - width \div 2) * Spacing),
   high |-> Clamp((TickIndex(tick) + width \div 2) * Spacing)]

(* CalculateRebalanceAmounts: how much of which token to swap, for halves  *)
(* of the same value at a price of (price / Q)^2.                          *)
RebalanceAmounts(w, price) ==
  LET excess == w.t1 * Q * Q - w.t0 * price * price
  IN  IF excess > 0 THEN [token |-> 1, amount |-> excess \div (2 * Q * Q)]
      ELSE [token |-> 0, amount |-> (-excess) \div (2 * price * price)]

-----------------------------------------------------------------------------
(* A position that is kept with them *)

VARIABLES
  stage,    \* "none", "out", "halved" (the wallet is halved by value), "in"
  market,   \* the pool: its tick and the root of its price
  wallet,   \* what the caller has of either token
  position, \* window, liquidity, what was asked for it, at which market
  halvedAt, \* the price at which the wallet was halved
  priceMoves, stakes

poolVars == <<stage, market, wallet, position, halvedAt, priceMoves, stakes>>

NoPosition ==
  [window |-> [low |-> 0, high |-> 0], l |-> 0, t0 |-> 0, t1 |-> 0, slippage |-> 0,
   budget |-> [t0 |-> 0, t1 |-> 0], at |-> [tick |-> 0, price |-> 0], chosen |-> FALSE]

(* A price in tick t.                                                      *)
PriceIn(t, percent) ==
  IF t = MaxTick THEN Root[t] ELSE Root[t] + ((Root[t + 1] - Root[t]) * percent) \div 100

Markets == {[tick |-> t, price |-> PriceIn(t, p)] : t \in Ticks, p \in Between}

PoolInit ==
  /\ stage = "none" /\ position = NoPosition /\ halvedAt = 0
  /\ market = [tick |-> 0, price |-> Root[0]] /\ wallet = [t0 |-> 0, t1 |-> 0]
  /\ priceMoves = 0 /\ stakes = 0

(* The caller comes to a pool with some of either token.                   *)
Come(m, w) ==
  /\ stage = "none" /\ stage' = "out"
  /\ market' = m /\ wallet' = w
  /\ UNCHANGED <<position, halvedAt, priceMoves, stakes>>

(* The pool swaps at its price and rounds in its own favour.               *)
AfterSwap(w, swap, price) ==
  IF swap.token = 1
  THEN [t0 |-> w.t0 + (swap.amount * Q * Q) \div (price * price), t1 |-> w.t1 - swap.amount]
  ELSE [t0 |-> w.t0 - swap.amount, t1 |-> w.t1 + (swap.amount * price * price) \div (Q * Q)]

Rebalance ==
  /\ stage = "out" /\ stage' = "halved"
  /\ wallet' = AfterSwap(wallet, RebalanceAmounts(wallet, market.price), market.price)
  /\ halvedAt' = market.price
  /\ UNCHANGED <<market, position, priceMoves, stakes>>

OpenPosition(window, slippage, chosen) ==
  LET c == ComputeAmounts(market.price, market.tick, window, wallet)
  IN  /\ stakes < MaxStakes /\ stakes' = stakes + 1
      /\ stage' = "in"
      /\ position' = [window |-> window, l |-> c.l, t0 |-> c.t0, t1 |-> c.t1,
                      slippage |-> slippage, budget |-> wallet, at |-> market,
                      chosen |-> chosen]
      /\ wallet' = [t0 |-> wallet.t0 - c.t0, t1 |-> wallet.t1 - c.t1]
      /\ UNCHANGED <<market, halvedAt, priceMoves>>

(* A window about the price: ValidateStakingRequest, CalculateTickBounds,  *)
(* ComputeAmounts.                                                         *)
Stake(width, slippage) ==
  LET window == TickBounds(market.tick, width)
  IN  /\ stage = "halved"
      /\ ValidStake(wallet, width, slippage)
      /\ window.low < window.high
      /\ OpenPosition(window, slippage, FALSE)

(* A window the caller has chosen, wherever the price is.                  *)
StakeFixed(window, slippage) ==
  stage = "halved" /\ OpenPosition(window, slippage, TRUE)

Unstake ==
  LET back == AmountsFromLiquidity(position.l, market.price, position.window)
  IN  /\ stage = "in" /\ stage' = "out"
      /\ wallet' = [t0 |-> wallet.t0 + back.t0, t1 |-> wallet.t1 + back.t1]
      /\ position' = NoPosition
      /\ UNCHANGED <<market, halvedAt, priceMoves, stakes>>

MovePrice(m) ==
  /\ stage # "none"
  /\ priceMoves < MaxMoves /\ priceMoves' = priceMoves + 1
  /\ m # market /\ market' = m
  /\ UNCHANGED <<stage, wallet, position, halvedAt, stakes>>

PoolAtRest == stage = "halved" /\ UNCHANGED poolVars

PoolNext ==
  \/ Rebalance \/ Unstake \/ PoolAtRest
  \/ \E s \in Slippages :
       \/ \E width \in Widths : Stake(width, s)
       \/ \E window \in Fixed : StakeFixed(window, s)
  \/ \E m \in Markets : MovePrice(m) \/ \E w \in Wallets : Come(m, w)

PoolSpec == PoolInit /\ [][PoolNext]_poolVars

-----------------------------------------------------------------------------
(* Properties *)

PoolTypeOK ==
  /\ stage \in {"none", "out", "halved", "in"}
  /\ market \in [tick: Ticks, price: Nat \ {0}]
  /\ wallet \in [t0: Nat, t1: Nat]
  /\ stage = "in" <=> position # NoPosition
  /\ stage = "halved" => halvedAt > 0
  /\ priceMoves \in Nat /\ stakes \in Nat

(* The price is in the tick that is the window's lower bound, and above    *)
(* the price of that tick.                                                 *)
AboveItsTick ==
  /\ position.at.tick = position.window.low
  /\ position.at.price > Root[position.window.low]

(* What was asked for a position is within the budgets, and the position   *)
(* is worth it at the price it was computed for, up to what one unit of    *)
(* liquidity more would be worth, and no more: ComputeAmounts and its      *)
(* inverse agree.                                                          *)
WorthWhatWasAsked ==
  LET low == Root[position.window.low]
      high == Root[position.window.high]
      back == AmountsFromLiquidity(position.l, position.at.price, position.window)
      agree(asked, worth, budget, unit) ==
        asked <= budget /\ worth <= asked /\ asked <= worth + unit + 1
  IN  /\ agree(position.t0, back.t0, position.budget.t0, Amount0(1, low, high))
      /\ agree(position.t1, back.t1, position.budget.t1, Amount1(1, low, high))

(* The position is worth what the slippage tolerated makes the least.      *)
WithinSlippage ==
  LET back == AmountsFromLiquidity(position.l, position.at.price, position.window)
  IN  /\ back.t0 >= MinAmount(position.t0, position.slippage)
      /\ back.t1 >= MinAmount(position.t1, position.slippage)

(* The price a position was computed for is in its window and at no end.   *)
PriceInside ==
  position.window.low < position.at.tick /\ position.at.tick < position.window.high

(* What is tolerated of either token is more than what one unit of         *)
(* liquidity and the cutting off of fractions make.                        *)
SlippageCoversRounding ==
  LET low == Root[position.window.low]
      high == Root[position.window.high]
      covers(asked, unit) ==
        asked = 0 \/ MinAmount(asked, position.slippage) + unit + 1 <= asked
  IN  /\ covers(position.t0, Amount0(1, low, high))
      /\ covers(position.t1, Amount1(1, low, high))

(* A window computed about a price has it inside, and its bounds are ones  *)
(* the pool allows, except at the ends of the ticks.                       *)
WindowIsAbout ==
  stage = "in" /\ ~position.chosen =>
    /\ position.at.tick \in position.window.low .. position.window.high
    /\ \A t \in {position.window.low, position.window.high} :
         t % Spacing = 0 \/ Abs(t) = MaxTick

(* After a rebalancing the two halves are worth the same, up to two units  *)
(* of either token.                                                        *)
HalvesAreEven ==
  stage = "halved" =>
    LET d == wallet.t0 * halvedAt * halvedAt - wallet.t1 * Q * Q
    IN  Abs(d) <= 2 * (halvedAt * halvedAt + Q * Q)

(* A position is within its budgets and worth what was asked for it, except *)
(* where the price is above the lower bound but in its tick; its window    *)
(* and the halves are as they should be.                                   *)
OnlyItsTickMisjudges ==
  /\ stage = "in" => AboveItsTick \/ (WorthWhatWasAsked /\ WithinSlippage)
  /\ WindowIsAbout
  /\ HalvesAreEven
=============================================================================
