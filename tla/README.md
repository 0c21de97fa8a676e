# invest_indicator in TLA+

A verification development for `invest_indicator`: TLA+ modules for the parts of
the program in which goroutines, external calls and restarts can meet in orders
nobody wrote a test for, the TLC configurations that check them on small
instances, and TLAPS proofs of the results that should hold for every size.

The program is a personal investment assistant in Go. It keeps a ledger of
investments in MySQL, watches prices, sends messages over a Telegram bot, reads
order notifications from two exchanges, offers an HTTP API, and can trade on
the Avalanche chain. Everything runs in one process; cron jobs, HTTP requests,
the bot and the order streams are goroutines of it, and share the database,
package variables, maps and unbuffered channels without locks.

## 1. The system

### Components

| Component | Code | State | Operations | Modelled by |
|---|---|---|---|---|
| Investment ledger | `investindicator.go` RecordInvest, updateAsset; `internal/db/mysql.go` SaveInvest, UpdateInvestSummary(Sum) | tables `invests`, `invest_summary` | record an investment (history row, asset leg, cash leg), reprice all holdings | `InvestLedger` |
| Order intake | `investindicator.go` runRecordMyOrdersEvent, AssetRecommend; `scrape/scrape.go` StreamCoinOrders; `scrape/upbit.go`; `bot/telebot.go` | channels `oc` and `ch`, the chat, a websocket | stream, hand over, prompt for the fund, record | `OrderIntake`, promise in `OrderFeed` |
| Broker order stream | `scrape/kis_ws.go`, `scrape/scrape.go` StreamStockOrders, loopWithInterval | websocket, per-topic keys, back-off | approve, connect, subscribe twice, receive, close, pause | `StockStream`, promise in `OrderFeed`, composed in `BrokerApi` |
| Broker API | `scrape/kis_api.go`; `scrape/scrape.go` PresentPrice, ClosingPrice, TopBottomPrice, AvgPrice, Buy | the access token and its expiry, two fields | find or ask for a token, send, add up pages of past prices | `BrokerToken`, composed in `BrokerApi` |
| Price alerts | `investindicator.go` buySellMsg, updateAsset, runCoinEvent; `internal/cache/cache.go`; `app/handler/asset.go` | tables `assets`, `invest_summary`, map `assetMsgCache` | judge a price, mark and send a message, write highest and lowest back, edit and delete assets | `AssetMonitor` |
| Event control | `enrolled.go`, `investindicator.go` SetEventStatus, LaunchEvent; `internal/db/mysql.go` events | status in memory, table `events` | register, switch, launch, cron | `EventSwitch`, composed in `EnrolledEvent` |
| Airdrop announcements | `investindicator.go` runNewlyOpenedAirdropEvent; `scrape/scrape.go` the two notice pages; `internal/db/redis.go` | addresses in Redis | read two pages, ask Redis, tell, store | `Notices`, composed in `EnrolledEvent` |
| Coin and gold premium | `investindicator.go`; `scrape/scrape.go` ExchageRate | the rate kept by the scraper, `goldId` | fetch both prices and the rate, advise | `Premium` |
| Daily jobs | `enrolled.go`, `investindicator.go` the five steps; `scrape/scrape.go` RecentSP500Entries; `internal/db/mysql.go` | tables `daily_indices`, `ema_hist`, `high_yield_spreads`, `sp500_companies` | compare indices, update EMAs, save the spread, recommend, announce newcomers | `DailyJob` |
| Chain trading | `blockchain/bctrader.go`, `blockchain/uniswap`, `blockchain/pkg/contractclient`; `investindicator.go` runSwapEvent and AVAX DEX event | the chain (nonces, permit allowances, receipts), package variables `dexRange`, `phase`, `inputed` | swap there and back, advise on liquidity windows | `TokenSwap`, `DexAdvice`, composed in `ChainTrader` |
| Pool mathematics | `blockchain/pkg/util` | none | ticks, amounts both ways, windows, slippage, halving | `PoolPosition`, composed in `ChainTrader` |
| Reports on a fund | `app/handler/fund.go`; `investindicator.go` InvestAvailableAmount, genPortfolioMsg; `internal/model/category.go`, `market.go`; `app/handler/market.go` | the market level, the rate kept by the scraper, the portfolio cache | total, portion, available amount, message to buy or sell; set the level | `Portfolio`, composed in `FrontDesk` |
| Asset registration | `app/handler/asset.go`; `internal/db/mysql.go` SaveAssetInfo, DeleteAssetInfo; `investindicator.go` redisCurrencyIdInit | table `assets`, ids of won and dollar in Redis, `goldId`, `avaxId` | register, delete, look ids up and keep them | `AssetIds`, composed in `FrontDesk` |
| HTTP API | `app/` | none | the reads of funds; writes go to the parts above | `Portfolio`, and the modules of what is written |
| Authentication | `app/handler/auth.go`, `app/middleware` | none | sign and check a token | not modelled: a library's work |
| Blackhole positions | `app/handler/blackhole.go`, `internal/db/blackhole_sql.go` | a table of snapshots another program writes | profit between two snapshots | not modelled: reads only |
| Market data scraping | `scrape/` | none besides the above | HTTP and page selectors | which source a category has, in `BrokerToken` and `AssetMonitor`; the rest is input |
| Telegram bot | `bot/` | `ch`, the chat | loop, prompt | loop and prompt in `OrderIntake` |
| Storage and program set-up | `internal/db/storage.go`, `cmd/`, `config/` | none | wiring | not modelled |

### How they interact

* **Through the ledger.** The order consumer and every goroutine that serves
  `POST /invest` run RecordInvest; cron, the user (`POST /events/launch`) and the
  daily job run updateAsset over the same rows.
* **Through channels.** Two producers send executions on `oc`; one consumer
  takes them, prompts over the bot and waits on `ch`; the bot's only loop sends
  on `ch` whatever button was pressed. All are unbuffered.
* **Through memory without locks.** `assetMsgCache`, the DEX advice's window,
  phase and amount, the event status, `wsConn` and the notification keys, the
  broker's token with its expiry, the rate of the dollar, the portfolio cache.
* **Through ids that are kept.** Purchases are charged to the assets whose ids are in
  Redis, premiums and advice look at those whose ids are in package variables, while
  the user registers and deletes assets.
* **Through the chain.** All swaps are signed by one account; its nonce and the
  router's permission are read in requests of their own.
* `cmd/main.go:81` passes `nil` for the blockchain trader: in this commit the
  swap event is written but not wired. It is modelled as its code, run by
  cron or by the user, would behave.

### What is hard, and what makes each part correct

The list of hazards, each with its line and the properties that answer it, is in
`PROJECT.json`. By component:

* **Ledger**: read-modify-write outside a transaction, by several goroutines;
  five calls of which any can fail. Correct when the holdings are what the
  history adds up to, no change disappears unless two writers raced, and the
  repricing passes never cost a change.
* **Order intake**: every party can block another; answers are not tied to
  prompts; restarts lose what is in goroutines but not what is in the chat.
  Correct when each execution is in one place, is recorded for the fund chosen
  for it unless the very press that answered it was a stray, and gets settled if the user answers.
* **Broker stream**: a message other than the answer may come while an answer is
  awaited; keys are got anew with each connection; a short approval key ends the process; failures
  at each step. Correct when a
  standing subscription neither skips nor repeats an execution and the stream
  comes back.
* **Broker API**: a token shared by all goroutines, written in two halves; an answer whose
  status is not looked at; pages. Correct when a token is spoilt by overlaps only, each
  refused request has one of few causes, an average is over the days it should be, and
  queries are answered again after whatever went wrong.
* **Reports**: rows, rate and level are read one after the other, the rate once per
  row; deleted assets lose currency and category; overdrawn cash counts below 0. Correct when an answer is that of one
  moment but for named causes, when two handlers agree on what may be bought, and when
  a message is told once a period.
* **Registration**: ids that outlive what they were looked up for, over restarts too; keys
  of Redis that are lost; a launch of the gold event without gold, which ends the process. Correct
  when an id misleads only where its asset has changed since, and a lost key never does.
* **Price alerts**: whole rows are written from old copies; the cache is asked and
  set separately and marked before the message is sent. Correct when targets
  the user set stay, the user is not told twice and does get told.
* **Event control**: two copies of a status, written one after the other. Correct
  when the status that was set last holds, over restarts too (a row that cannot be read at
  one may leave an event off, but none on), and an event that is off does not run.
* **Airdrops**: message first, address afterwards, both errors dropped; two runs at
  once. Correct when what was told twice can be traced to a fault or an overlap, and
  what stays on a page is told.
* **Premium**: a rate that may be missing, cached, or shared between runs. Correct
  when advice follows from prices and a rate that really were.
* **Daily jobs**: steps that skip or repeat days; a panic in one ends those after;
  an average fed back daily, rounded or not.
* **Chain trading**: nonces, permits and receipts under overlap, retry and loss;
  package variables shared by overlapping runs.
* **Pool mathematics**: roundings in both directions, ends of ranges, and decisions by
  the tick in one function and by the price in its inverse.

## 2. The modules

Every definition that models code is preceded by a comment naming what it stands for; `PROJECT.json`
maps it to lines. Definitions named `X_Something` and commented "Faulty
variant" are not part of any specification: each is a plausible bug put in the
place of `X` to see that the property it belongs to notices. Variables under
"History variables" are read by no code; they remember what properties speak of.

### InvestLedger

One action per database call that an interleaving can separate. RecordInvest is
`SaveInvest`, then for each leg `FindRow` and `UpdateRow` or `CreateRow`
(UpdateInvestSummary reads the row, then writes Count and Sum back or, if it
found none, creates one), with `LookUpCash` between the legs (the exchange rate).
`...Fails` actions follow the code's error paths, including those where an error
is not looked at: a failed Find counts as no row, and an error of the cash leg is
dropped. A pass (updateAsset) lists assets, then holdings, then writes one Sum
per row. `Crash` loses all goroutines. Deleting an asset makes the pass skip
it. `count`/`sum` are the row with the lowest id of a pair,
which Find returns; `later` holds the rows created beside it. Money is
integers: floating-point error is not modelled.

### OrderFeed, OrderIntake, StockStream, BrokerToken, BrokerApi

`OrderFeed` is what a stream of orders promises its consumer, whatever the
exchange: in order, at most once, nothing lost while it is open. `OrderIntake`
implements it twice, for the coin and the stock stream as the consumer sees
them (`CoinFeed`, `StockFeed`), and `StockStream` twice, for the two topics of the
broker's websocket in detail (`DomesticFeed`, `OverseasFeed`). The refinement
mappings take a feed as open while its exchange reports executions to a
connection the program will still read from.

`OrderIntake` has the goroutines as programs of a few steps: producers (`Read`,
`StreamFails`, `Reopen`, `PongTimeout`), the hand-over on `oc` (`Receive`,
`Unregistered`), the consumer (`Ask`, `AskFails`, `UseAnswer`), the user
(`Press`), the bot (`TakeUpdate`, `Deliver`). A send on an unbuffered channel is a
step of both parties. Each press carries whether it is a stray: whether its prompt did not wait
when it was pressed, or another press was under way. Recording may fail, before or after it has
written (`UseAnswer`), and the user is then told so. `StockStream` follows kis_ws.go step by step: the
connection, one request and one read for each topic, the receive loop with its
heartbeats and encrypted notices, the deferred close, and the pause; an approval key too short
to be logged panics and the process starts again (`KeyPanics`). Field
positions, decryption and the text of messages are left out.

`BrokerToken` is the client of the broker's other requests. A caller finds the token
fresh (`Check`, `UseToken`) or asks for one; the answer, which may be a refusal decoded
into nothing, is written in two steps (`Keep`, `Stamp`), and is the header of the caller's own
request whatever the fields hold by then. `ForeignAvg` adds up the days of an
answer and asks again when they are a page. A token is known by the hours the broker will still accept it
for; the fields and headers age alike (`Hour`), and `Skew` is the difference of the
server's clock from the time the expiry is given in. `BrokerApi` composes the two:
the stream is opened with an approval key of its own and never reads the token, so
TLC follows one at a time.

### AssetMonitor

A pass takes its assets one by one: read the row, fetch the price, judge it
against the targets and the cache, mark the cache, write the row back if the
highest or lowest price moved, send. The user's `UpdateAsset` and `DeleteAsset` come
between any two steps. Six hours are a step (`Lapse`). `Priced` are the assets
whose category PresentPrice has a source for; on any other a pass always ends. Which
asset of its list a pass takes next is a choice: it stands for the order of the ids.

### EventSwitch, Notices, EnrolledEvent

In `EventSwitch`, `Load` is registerEvents for one event, `Switch` and `Store` the two
halves of SetEventStatus, `Launch` and `Finish` a run by cron or by LaunchEvent, both of
which look at the status first. `LoadFails` is a row that can neither be read nor created at a start:
the event then is off, or on if there was no row, whatever it was before (`unread`). `Notices` is what one of the events does: a run
takes the page of one site, then that of the other, and of every notice on it asks
Redis, sends and stores. `EnrolledEvent` puts the two together: a run of `Notices`
begins with a `Launch` and returns with a `Finish`, a crash takes both down, and the
rest goes on side by side. `MaxMishaps` bounds everything that goes wrong or changes
outside, together.

### Portfolio, AssetIds, FrontDesk

`Portfolio` is one fund and the four reports made of its rows: TotalStatus takes the rate,
then the rows; FundPortion and InvestAvailableAmount take the rows, then the rate for each
that is not in won, the latter then the level; the message takes level, rate and cache. Each
read is a step, and trades, repricings, deletions, changes of the level and of the dollar come
between. A row remembers whether it is held (its count is not 0), whether its asset is deleted
(its currency and category are then empty, which two of the reports take for dollars and two for
won), and its sum, which of cash may be below 0: nothing keeps a purchase from overdrawing it. A portion
is cut towards 0, as `int()` does; a quotient by 0 is infinite, and what an infinite float becomes as an
integer is the constant `Infinite` (the least integer on amd64). `Spend` buys for what is available, in a volatile asset that is
paid in won.

`AssetIds` is the table of assets and the ids looked up in it: `RedisCurrencyIdInit` at
the start (only when the id of won is missing), `Look` for gold and for the coin of the advice (once found,
for as long as the process lives), and `Record`, which charges a purchase. `LookPanics` is gold that
is not registered: the error is logged, the missing asset used all the same, and a launch by the user ends
the process. `LoseKeys` takes any of the keys from Redis, which are looked up again at the next start
(`lost` until then). Deletion is soft; Redis survives
a restart, package variables do not.

`FrontDesk` composes both. The reports look up no kept id and neither part writes
what the other reads, so TLC follows one at a time.

### Premium

Both premium events: fetch the price here, the price abroad, the rate, conclude. The
rate is kept for three hours; when it cannot be read it is 0 and the quotient +Inf.

### DailyJob

Days are numbers and `NextDay` advances them. Each of the five steps is
one or more actions over its own table; failing calls and panics are the
`...Fails` actions and disjuncts (a panic ends the day's job, as the cron runner
recovers it). Prices and averages are whole numbers of a fraction of a cent (`Cent` of them make one): the
average is computed exactly, rounded to cents from 200 days on and not rounded below, as
`calculateEma` does. The page of S&P 500 newcomers is an environment that
lists companies with today's date or, late, with an older one.

### TokenSwap, DexAdvice, PoolPosition, ChainTrader

`TokenSwap` is runSwapEvent: `Legs` swaps, each of which reads the permission
at the latest block, signs a permit if that is used up, reads the nonce at the
pending block, sends, and polls for the receipt. The node takes a transaction
only under the next nonce; blocks take transactions in order. What may still spoil a swap is kept per
swap (`risks`, `carried` once it is sent), and what it failed for with it (`clash`). `DexAdvice` is the
AVAX DEX event, with an action for each access to a package variable.
`PoolPosition` holds the functions of `blockchain/pkg/util` and a caller (external: nothing
in this repository calls them yet) that halves its tokens, opens a position
about the price or in a window of its own, and takes it out when the price has
moved. The three share no state; `ChainTrader` composes them and follows them one at a
time so that one run covers all without multiplying their states.

## 3. What is checked

Run with `tlc -config <cfg> <module>`. Every property of a passing run has a
faulty variant that breaks it (`PROJECT.json`, "mutants").

| Run (cfg) | Shows | States |
|---|---|---|
| `ledger` (`MCInvestLedger_all`) | Two writers and a repricing pass, sales and purchases in won and dollars, one failure or crash: a change is lost only for a pair that two writers held copies of (`OnlyRacesLoseChanges`), and for every other pair the rows add up to the history whenever nothing is being recorded and nothing has failed (`OnlyRacesUnbalance`); every history row is booked once, in order, in full or known to be unfinished (`DoubleEntry`); Sums come to rest at price times Count (`SumsConverge`). | 468,377 |
| `ledger_lost_update` (`MCInvestLedger_lost`) | Expected violation of `SummaryIsHoldings`, see Findings. | |
| `intake` (`MCOrderIntake_all`) | Executions are in one place of the pipeline (`OnePlace`), are recorded once and for the right fund unless the very press that answered was a stray (`OnlyStrayPressesMisfile`), are settled if the user answers each prompt, whatever faults and strays there are, or forgotten by a restart; and a press that is no stray never blocks the bot (`OrdersSettle`); both streams implement `OrderFeed` (`StreamsAreFeeds`). | 147,816 |
| `broker` (`MCBrokerApi_all`) | The stream: it comes back (`StreamComesBack`), each topic implements `OrderFeed`, with the sign of a sale (`TopicsAreFeeds`), the pause is bounded (in `TypesOK`). The token: a good one is lost, or has the expiry of another, only where two were asked for at once (`OnlyOverlapsSpoil`); a request goes out without a token only after a refusal, with one that is not accepted only after an overlap, an hour on the way or with a clock behind, and an average is over all days but where their number is a page (`OutcomesAreExplained`); who asks gets an answer again (`QuotesComeBack`). | 403,020 |
| `monitor` (`MCAssetMonitor_all`) | Two passes and the user on one asset: targets and highest price go back only where an older copy of the row was held (`OnlyOverlapsRevert`), the user is told again only where two passes judged the asset at once (`OnlyClashesRepeat`), and a price that stays low becomes known unless a message could not be sent (`BuyersAreTold`). | 727,638 |
| `monitor_unpriced` (`MCAssetMonitor_unpriced`) | Expected violation of `BuyersAreTold` with an asset that has no source of prices, see Findings. | |
| `enrolled` (`MCEnrolledEvent_all`) | Two requests and two runs, notices of two sites: a status that was answered for is kept over crashes, restarts and failed starts unless its request failed, found no row or overlapped another; in memory too, but for a row that could not be read at the last start, which may leave the event off and never on (`StatusIsKept`); an event that is off does not run (`NotRunWhenOff`), a notice is told twice only after a fault or by two runs (`OnlyFaultsRepeat`), and while the event is on a notice that stays is told (`NoticesAreTold`). | 426,931 |
| `front` (`MCFrontDesk_all`) | A request and a portfolio message (which the asset event does not ask for at this commit, see section 6) on a fund of cash, a stock and a share in dollars, with two trades, repricings, deletions or other changes and one failed call, or on a stock bought without cash: an answer is what the fund was at one moment, but for six causes: a rate that was not there or was replaced between rows, holdings and level both changed, a deleted asset, the rest of a holding sold out, or a fund of nothing but overdrawn cash and what it paid for (`AnswersAreOfOneMoment`); spending what is available brings the portion to what the level allows, to the percent that units and fractions leave (`SpendingFillsPortion`); a period has one message (`ToldOnceAPeriod`). Three assets registered and deleted over two restarts, losses of keys or launches that end the process: an id misleads only where its asset has changed since it was looked up or is not registered, and a lost key leaves a purchase uncharged, never charged wrongly (`OnlyStaleIdsMislead`). | 2,014,184 |
| `premium_blind` (`MCPremium_blind`) | Expected violation of `SalesAreFounded`, see Findings. | |
| `daily` (`MCDailyJob_all`) | A job without failures compares today with the weekday before and brings every table up to date, whatever earlier days left (`DayIsDone`); nobody is announced twice or overlooked without one of the named causes (`NewcomersAreToldOnce`); a new average lies between the one before and the price, from 200 days on between the two as rounded to cents, so that its rounding, fed back every day, never carries it away (`EmaFollowsPrice`). | 4,146,162 |
| `daily_average` (`MCDailyJob_average`) | Expected violation of `EmaIsAverage`, see Findings. | |
| `chain` (`MCChainTrader_all`) | Of every swap that failed over its nonce, another was reading and sending beside it; of every one that failed over its permit or permission, another swap of the token was under way while it was prepared, beside it or given up, or the permission ended between its reading and its block (`ClashesAreExplained`); what moved between the tokens is accounted for by what was reported (`DriftIsReported`); runs end (`RunsEnd`). A window moves in silence only after a failure, lies beside the price only after an overlap, and amounts are negative only after a sale, an overlap, or below two coins (`AdviceIsExplained`). A position is within its budgets and worth what was asked for it, up to the slippage and never more, except in the tick of its lower bound; halves are worth the same and windows lie about the price on bounds the pool allows (`OnlyItsTickMisjudges`). | 573,473 |

The type invariants (`TypeOK`, `TypesOK`) also say where each goroutine holds what.

Properties named `Only...` say that a known weakness has no further causes: the
program does lose updates when two writers race, and the property is that
nothing else can.

### Bounds

Every bound is a constant of the module that declares it.

* **Actors.** Two writers, two requests, two passes, two jobs: all hazards listed
  are between two goroutines (one of them and an older copy); a third only
  repeats what the second does. Where one suffices, the run has one and more
  data (one event, one address per site, one watched asset). The consumer, the bot and each producer are single in the program.
* **Data.** One fund suffices: funds differ only in the pair of a row. Assets: won,
  dollar and a dollar share are the three cases of the cash leg. Three orders:
  two on one stream (order, stray presses) and one on the other. Two prices,
  each on an end of the window about the other. The EMA starts at 199 days, so
  that both of its branches are taken within two days; four units of price make a cent (`Cent`), and the prices
  lie a quarter and half of one above a cent.
* **Reports.** Sums are chosen so that every amount is a whole number at either rate and each
  level; a tenth of the fund is volatile, which is too little for every level at one rate of the dollar and
  within the bounds of the lowest level at the other. One holding of each kind
  (cash, stable or volatile in won, volatile in dollars) and two changes suffice for a row to
  be sold out and bought again, or deleted after it was read. The lowest and the highest of the five
  levels; a dollar is worth one or two won. A second book of the same fund has a stock paid with overdrawn cash
  and a share sold out, so that the whole can be nothing, or less than its volatile part.
* **Ids.** Four roles, three rows: an asset can be registered, deleted and registered
  again, which is the longest history an id can outlive, beside one more.
* **Token.** It lives for two hours, so that it can be fresh, aged and expired; a page has two days and
  shares were listed for a page, a page and a half and more than two pages.
* **Faults.** One failed call, crash or restart in most runs, at every point where
  it can happen; two where hazards pair them (an event's write fails and the
  server restarts; a permit expires and a request fails).
* **Time.** Friday to Monday for the daily job, the shortest span with a weekend;
  a stream's day has two minutes, so that back-offs reach it. 10 swaps, 10
  polls and 100 swaps a permit are 2 each.
* **Pool numbers.** 2^128, 2^32 and the base 1.0001 become 2^14, 2^5 and 1.1025, twenty bits
  of a tick three: the code uses these constants only through the algorithm. Every
  price is at the edge or in the middle of its tick, up to both ends of the range.
* `CHECK_DEADLOCK FALSE` where the system may come to rest: no order is left to
  be executed, the last day has been done, edits are used up. The ledger, the
  airdrop event with its switch and the chain are checked for deadlock.

### Fairness

Weak fairness of single goroutines that can take a step (Go's scheduler), never
of faults or of the user, with five exceptions stated where they are used:
`OrdersSettle` assumes that the user answers each prompt once; `StreamComesBack`
that the broker answers a subscription; `QuotesComeBack` that it answers
requests, that callers (cron) ask again and that time passes; `BuyersAreTold` that passes are
started again (cron); `NoticesAreTold` that the server is started, its event launched every
ten minutes (cron) and requests are served. Nothing is assumed of the chain: `RunsEnd` holds even if no
block ever comes. Faults are bounded, which is how "unless it fails for ever"
is said.

## 4. What is proved

Every safety property of a passing run, every type invariant and every refinement is a theorem
of its specification, for every value of the constants that satisfies the `ASSUME`s of its
module. A theorem about a property `P` has the shape `Spec => []P`, from an invariant
that is inductive and implies `P`; each list below names what that invariant adds and why `P`
is not inductive without it.

* **InvestLedgerProofs** (any number of writers, passes, records and faults)
  * `TypeCorrect`: `Spec => []TypeOK`.
  * `RacesOnly`: `OnlyRacesLoseChanges` says nothing of the copies that writers hold and will write
    back. `CopiesAreCurrent` adds that a copy held by a writer is that of the row as it is, unless
    the pair is in `raced`. A write through a current copy keeps the row equal to what was applied;
    a write to a pair of which somebody else holds a copy puts it into `raced`.
  * `SoleWriterLosesNothing`: with at most one writer, `[]NoChangeIsLost`, since `raced` stays empty.
  * `BookedOnce`: `DoubleEntry`, by `StepsMatchLegs`: where a writer stands determines which legs of
    its row are booked, and no two writers have the same row.
  * `RacesOnlyUnbalance`: the totals. `Totals` relates the counters kept beside the tables to what the
    tables add up to: what was applied to a pair is the sum of the legs booked for it, over the
    whole history (`TotalAppends`, `TotalChanges`). With `RacesOnly` the rows then are what the
    history adds up to. `SoleWriterBalances` draws the conclusion for one writer: at rest and without
    failures the summary is the holdings, which is what `ledger_lost_update` refutes for two.
* **OrderIntakeProofs** (any number of orders, funds, presses and faults)
  * `TypeCorrect`.
  * `StraysMisfile`: `ChatInv` adds that a press that is no stray is alone, the first under way, and meant
    for the prompt that waits; and that an answer in hand is the one chosen for its order, or came by a stray.
  * `OnePlaceOnly`: `Placed` says of every execution that its fate tells where it is, and the
    reverse: on a wire, in a hand, at the consumer, in the one place and nowhere twice.
  * `StreamsFeed`: each stream implements `OrderFeed`, action by action: an execution is `Execute`, the
    consumer's receiving `Give`, a failing stream `Close`, connecting again `Open`, a restart `Close` or,
    of a stream that was down, `Forget`; everything else stutters.
* **BrokerApiProofs** (any number of callers, orders, faults, hours and days)
  * `TokenTypesCorrect`, `StreamTypesCorrect`. The first needs that the days added up are never more
    than a share was listed for; the second shows that the pause stays below two days (`PauseIsBounded`).
  * `OverlapsSpoil`: `OneAsks` says, of a history without overlap, that one caller at most is asking;
    that until its answer is written the fields belong together and are not fresh, so that there is
    nothing to spoil; and that after the first field the two halves age alike until the second.
  * `OutcomesExplained`: who asks found the expiry passed (`AskedInTime`), so that a token is not written
    over a good one; a token under way for less than an hour is good (`GoodOnTheWay`); without a
    refusal there is one in every request (`Furnished`); no days or a page of them have come when more
    are asked for (`DaysExplained`).
  * `TopicsFeed`: each topic implements `OrderFeed`. What is pending are the executions among the
    messages on the wire, behind the one in hand; `FeedInv` says that each is there once and not handed over
    yet, and that the keys of a stream that has reached its receive loop are those of the connection.
  * `ApiIsBoth`: the composition implements both parts; `ApiTypesCorrect`, `ApiOverlapsSpoil`,
    `ApiOutcomesExplained` and `ApiTopicsFeed` follow from it.
* **AssetMonitorProofs** (any number of assets, passes, edits and faults)
  * `TypeCorrect`, with what a pass holds at each of its steps.
  * `OverlapsRevert`: a later write may come from any pass that holds a row, so `Copies` says that such a
    row is that of the table, unless the asset is in `overlapped`; a write to a row of which
    somebody holds a copy puts it there.
  * `ClashesRepeat`: `Messages` says, of an asset without a clash, that one pass at a time has a message
    about it (`Sole`), and that the message differs from the cache until it is marked and has not been
    sent since (`Fresh`).
* **EnrolledEventProofs** (any number of runs, addresses and faults)
  * `SwitchTypes`, `KeepsStatus` (`StatusIsKept`) and `OffMeansOff` (`NotRunWhenOff`): `Kept` relates the
    status in memory, the table and the requests between the two; an unread row is one of a server that
    has started and of an event not switched since (`UnreadOK`).
  * `RepeatsAreFaults`: what was told is stored, about to be stored by the run that told it, or shaky
    (`Accounted`); what is about to be told is new or shaky (`NewOrShaky`); a notice in two hands is shaky
    (`TwoHands`).
  * `SwitchOnlyRestricts` and `EventIsSwitched`: the composition implements both of its parts, so that
    `EventRepeatsAreFaults` and `EventHolds` inherit. `EventTypes` also needs that the switch counts
    as many runs as are at work (`Counted`).
* **FrontDeskProofs** (any holdings, levels, rates, trades and reports; any assets, restarts and lost keys)
  * `StaleIdsOnly`: `CashKnown` says that an id in Redis is right, or its asset changed since, or the key is lost
    and missing; `KeptKnown` says more of an id in memory, that only a deletion excuses it, since one
    that was not found is looked up again.
  * `ToldOnce`: the flag is up exactly while there is a reason (`Kept2Hours`, `Noted`), and where no two runs
    crossed one at most is about to tell (`OneTells`).
  * `AnswersOfOneMoment`: `Courses` says of each report, by where it is, which rows, level and rates it has
    read, and that the rows and the level it saw are among the moments since it began. The sum it answers
    then is that of such a moment at the rates it used, which the lemmas under "An answer of one
    moment" show for sums over any finite set of holdings.
  * `SpendingFillsIt`: what is volatile after what may be bought was is all the level allows, to the unit, and the
    portion shown says so or one percent less. `Filled` is the arithmetic, for any amounts;
    `GoalFits` remembers the rows that were spent and the rates of then.
  * `DeskTypesCorrect`, `DeskTypes`; `DeskLooksUp` and `DeskReports`: the composition implements both parts, and
    `DeskStaleIdsOnly` and `DeskHolds` inherit.
* **DailyJobProofs** (any prices, calendar, assets, companies and faults)
  * `TypesHold`.
  * `EmaFollows`: a new average lies between the last one and the price, from 200 days on as both are
    rounded to cents, for every price and fraction of a cent (`NewEmaIs`: the weighted average is between
    the two, and rounding keeps the order); and the first average of an asset is never written over one it has, as an asset
    that is being registered has none (`Fresh`). An action property.
  * `DayGetsDone`: `Done` says what is up to date from each step of the job on: from the indices, today's
    row and the comparison with the weekday before (`Compared`; that there is a last one before is shown once
    for every calendar), from the list of assets who is still to get an average (`Averaged`), the spread (`Spreaded`).
  * `NewcomersTold`: who is stored was listed, once; once the newcomers are found, each that is neither
    late nor failed has its turn before the first is stored (`Awaited`).
* **ChainTraderProofs** (any number of runs, swaps, polls and faults; any pool)
  * `SwapTypesCorrect`.
  * `ClashesExplained`: a job about to send whose nonce is at no risk is the only one and has the next
    nonce (`NonceFits`); a swap of a token that is prepared, or waits for its block, and is at no risk over its
    permit is the only one under way, or the first, and fits the permission as it is (`PermitFits`).
  * `DriftReported`: `DriftInv` counts, of the transactions of either token, those that are done or still may be against
    those done or waited for, with the runs that have swapped to and not back.
  * `AdviceExplained`: every window set is told, is owed by a run, or was swallowed by a failed call
    (`NoneForgotten`); without an overlap one run at a time is inside, and the window is the one it has set
    (`OneInside`); what it has read is still there (`NothingCut`).
  * `PoolTypesCorrect`, `ArithmeticAgrees`, `OnlyItsTick`: for any constants whose prices ascend (`RootsAscend`)
    and any amounts, ComputeAmounts and its inverse agree up to what one more unit of liquidity is worth
    (`NoGain`, `NoLoss`), a window rounded about a tick has it inside (`Rounded`, `About`), and halving is even up to two
    units (`Half`). `OnlyItsTickMisjudges` as a whole is a statement about the slippage too, which a
    position of next to nothing cannot keep: it is proved of every price strictly
    inside the window, where what was asked is had back exactly, and elsewhere wherever the slippage
    covers the rounding (`SlippageCoversRounding`). In the instance of `chain` it always does, outside the
    tick of the lower bound.
  * `EachIsItself`, `AllTypesCorrect`, `AllHoldSideBySide`: the composition inherits.

The assumptions are those of the modules. Most give constants their types. Those with content: the holdings
of a fund and the runs of an event are finite sets (`IsFiniteSet`), which rows of a table and goroutines are; runs of an event are
modelled for one event (`EnrolledEvent`); the spacing of ticks fits the ticks and the prices of ticks
are above zero and ascend (`RootsAscend`), which the constants of amm.go are chosen for.

Two things recur. Sums, counts and selections over sequences and sets are recursive *functions* in the modules
(`Total` of the ledger, the amounts of a report, `Executions` of the stream). What such a function computes is
shown without an induction over operators, which no installed prover can instantiate: a set of numbers
that has 0 and with each number the next has all of them (`AllNumbers`), because `<` is well-founded on them,
and the set is that of the lengths up to which the claim holds. And an action of one goroutine is shown to
leave the others as they are (`OthersStay`, `RestStays`), so that each of the others needs one lemma and not one for each action.

Only model-checked: the liveness properties `SumsConverge`, `OrdersSettle`, `StreamComesBack`,
`QuotesComeBack`, `BuyersAreTold`, `NoticesAreTold` and `RunsEnd`, because fairness and ENABLED are out of
TLAPS's reach, and, of `OnlyItsTickMisjudges`, the slippage of positions outside their window where it
may not cover the rounding. That `RootAt` ascends for the numbers of amm.go is assumed, and evaluated for those of the
instance: it is a fact about twenty numbers, not an argument.

## 5. Findings

* **A lost update in the ledger** (`mysql.go:434`). UpdateInvestSummary reads and
  writes outside a transaction, and the order consumer and `POST /invest` run it
  concurrently. `MCInvestLedger_lost` shows two investments in one fund and a
  cash row short of one of them, without any failure; readme.md:243 calls the
  table "Current holdings (by fund/asset)".
* **One asset without prices silences those after it** (`scrape.go:130`). PresentPrice has no
  source for the category Leverage, and updateAsset returns at its error.
  `MCAssetMonitor_unpriced` shows an asset that is never alerted on, without any
  failure; api.md:135 lists the category, readme.md:62 promises "Real-time notifications".
* **Advice to sell without a rate** (`scrape.go:217`). ExchageRate returns 0 when the rate
  cannot be read, and the premium over 0 is infinite. `MCPremium_blind` shows the advice
  to sell at premiums far below ten percent; enrolled.go:82 describes the threshold. With no
  failed call (`MaxFaults = 0`) the property holds.
* **The average is the price below 200 days** (`investindicator.go:940`). calculateEma
  weighs with `nDays` before it is assigned. `MCDailyJob_average` shows an average over
  five days replaced by the day's price; readme.md:257 has the formula.

Further weaknesses are the exceptions that properties name: a
button pressed late or twice answers another prompt (`telebot.go:87`, `OnlyStrayPressesMisfile`);
a holding of a deleted asset is in dollars to two reports and in won to the other two
(`mysql.go:48`, `AnswersAreOfOneMoment`); overdrawn cash makes a portion more than a hundred or, where it
cancels what is volatile, a division by 0 (`app/handler/fund.go:203`, `AnswersAreOfOneMoment`), while api.md:887
has it as "Percentage (0-100)"; cash registered again is not found until Redis loses
its keys (`investindicator.go:56`, `OnlyStaleIdsMislead`); a refusal of the broker to issue a token
is stored as one (`kis_api.go:80`, `OutcomesAreExplained`); a share listed for exactly a page of days has no average
(`kis_api.go:395`, `OutcomesAreExplained`).

## 6. What is not modelled, and the plan

Not modelled: the encoding of contract calls and its gas estimates, chain
reorganisations and transactions evicted from the node's pool, floating-point
error (sums are such that amounts are whole), parsing and formatting, page selectors. A concurrent write to the map of the message cache, which can
abort the process, is covered as a restart. SendMessage's errors are those the
code sees.

* **Authentication** (`app/handler/auth.go`, `app/middleware`) compares a key and has a library sign and check
  tokens; it keeps no state.
* **Blackhole positions** (`app/handler/blackhole.go`, `internal/db/blackhole_sql.go`): one handler subtracts two
  snapshots that another program writes, each read by a query of its own and never changed once written; the other
  answers that it is not implemented, as `app.go:29` passes no executor. The remaining queries have no caller here.
* **Storage and set-up** (`internal/db/storage.go`, `cmd/`, `config/`) wire the parts together once.
* **Code without a caller**: the message of genPortfolioMsg is written and tested, but its call in
  runAssetEvent is commented out (`investindicator.go:314`); `Portfolio` models it as it would run. The commented-out
  purchase event of the S&P 500, `SetAccessToken` and `DomesticBuy` are left out.
* The coin callback takes every "trade" message as a purchase (`scrape/scrape.go:515`), without the sign the stock
  callback gives a sale: what the exchange's fields mean is outside the repository.
* `POST /invest` by an asset's name finds its id and then records id 0 (`app/handler/invest.go:66`): one
  assignment, which the ledger cannot tell from an asset that is not there.

ValidateStakingRequest accepts a width of 1, for which CalculateTickBounds then always
returns an error; the model has the width and never opens a position with it.

In the order of their importance:

1. **Highest and lowest prices at registration** in AssetMonitor: the lowest stays 0 for ever when
   TopBottomPrice has no source for the category.
2. **Sales in dollars** in Portfolio, which move won at the rate of their moment.
