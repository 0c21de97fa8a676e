---------------------------- MODULE OrderIntake -----------------------------
(***************************************************************************)
(* How an order executed at an exchange becomes an investment record.      *)
(*                                                                         *)
(* Two producer goroutines read the coin and the stock order stream and    *)
(* hand each execution over an unbuffered channel (oc) to one consumer,    *)
(* which asks the user through the Telegram bot which fund the order is    *)
(* for and blocks, without a timeout, until an answer comes.  The bot is   *)
(* one loop over the updates of the chat; it passes the data of any button *)
(* pressed over another unbuffered channel (ch) to whoever waits.          *)
(*                                                                         *)
(* Nothing in an answer says which prompt it answers.                      *)
(***************************************************************************)
EXTENDS Naturals, Sequences, FiniteSets

CONSTANTS
  Orders,      \* executions that may happen
  Coin, Stock, \* the two streams
  StreamOf,    \* the stream an execution is reported on
  Registered,  \* the executions of assets that are in the assets table
  FundIds,     \* the buttons "1", "2", "3"
  NotOurs,     \* the button for a trade that is not to be recorded
  None,        \* no order, no answer, no update
  MaxPresses,  \* bound: how often the user presses buttons of one prompt
  MaxFaults    \* bound: network errors and restarts

Streams == {Coin, Stock}
Answers == FundIds \cup {NotOurs}

ASSUME IntakeAssumption ==
  /\ Coin # Stock
  /\ StreamOf \in [Orders -> Streams]
  /\ Registered \subseteq Orders
  /\ None \notin Orders \cup Answers /\ NotOurs \notin FundIds
  /\ MaxPresses \in Nat /\ MaxFaults \in Nat

VARIABLES
  conn,     \* per stream: "open", "late" (its read deadline has passed), "backoff"
  wire,     \* per stream: executions sent by the exchange and not read yet
  hand,     \* per stream: the execution its producer is sending on oc, or None
  at, cur,  \* the consumer: its step, and the order it works on
  answer,   \* the answer it received
  shown,    \* orders whose prompt is in the chat
  pick,     \* the button the user chose for an order, None before the first press
  presses,  \* how often a button of its prompt was pressed
  updates,  \* button presses the bot has not taken up yet
  bot,      \* the press the bot is sending on ch, or None
  faults,
  (* History variables: no code reads them. *)
  fate,     \* what has become of an order
  recorded, \* the fund an order was recorded for
  misled    \* orders answered by a stray press

streams  == <<conn, wire, hand>>
consumer == <<at, cur, answer>>
chat     == <<shown, pick, presses, updates, bot>>
vars     == <<streams, consumer, chat, faults, fate, recorded, misled>>

Settled == {"recorded", "declined", "unregistered", "failed"}

Init ==
  /\ conn = [s \in Streams |-> "open"] /\ wire = [s \in Streams |-> <<>>]
  /\ hand = [s \in Streams |-> None]
  /\ at = "receive" /\ cur = None /\ answer = None
  /\ shown = {} /\ pick = [o \in Orders |-> None] /\ presses = [o \in Orders |-> 0]
  /\ updates = <<>> /\ bot = None
  /\ faults = 0
  /\ fate = [o \in Orders |-> "placed"] /\ recorded = [o \in Orders |-> None]
  /\ misled = {}

Fault == faults < MaxFaults /\ faults' = faults + 1

(* The orders of a set come to an end.                                     *)
Ends(S, end) == fate' = [o \in Orders |-> IF o \in S THEN end ELSE fate[o]]

-----------------------------------------------------------------------------
(* The streams *)

(* The exchange executes an order and reports it on the connection, if     *)
(* there is one; it does not report it again.                              *)
Execute(o) ==
  LET s == StreamOf[o]
  IN  /\ fate[o] = "placed"
      /\ IF conn[s] = "backoff"
         THEN Ends({o}, "lost") /\ UNCHANGED wire
         ELSE Ends({o}, "sent") /\ wire' = [wire EXCEPT ![s] = Append(@, o)]
      /\ UNCHANGED <<conn, hand, consumer, chat, faults, recorded, misled>>

(* Faulty variant: the execution is handed over but stays to be read.      *)
Read_Again(s) ==
  /\ conn[s] # "backoff" /\ hand[s] = None /\ wire[s] # <<>>
  /\ hand' = [hand EXCEPT ![s] = Head(wire[s])]
  /\ Ends({Head(wire[s])}, "read")
  /\ UNCHANGED <<conn, wire, consumer, chat, faults, recorded, misled>>

(* ReadMessage returns an execution; the callback begins to send it on oc. *)
Read(s) ==
  /\ conn[s] # "backoff" /\ hand[s] = None /\ wire[s] # <<>>
  /\ hand' = [hand EXCEPT ![s] = Head(wire[s])]
  /\ wire' = [wire EXCEPT ![s] = Tail(wire[s])]
  /\ Ends({Head(wire[s])}, "read")
  /\ UNCHANGED <<conn, consumer, chat, faults, recorded, misled>>

(* While the callback of the coin stream is blocked nobody reads its       *)
(* connection, so no pong moves the read deadline: it passes.              *)
PongTimeout ==
  /\ conn[Coin] = "open" /\ hand[Coin] # None
  /\ conn' = [conn EXCEPT ![Coin] = "late"]
  /\ UNCHANGED <<wire, hand, consumer, chat, faults, fate, recorded, misled>>

(* ReadMessage fails, because the deadline has passed or the network fails:*)
(* the connection is closed, and what was not read from it is gone.        *)
StreamFails(s) ==
  /\ conn[s] # "backoff" /\ hand[s] = None
  /\ IF conn[s] = "late" THEN UNCHANGED faults ELSE Fault
  /\ conn' = [conn EXCEPT ![s] = "backoff"]
  /\ wire' = [wire EXCEPT ![s] = <<>>]
  /\ Ends({wire[s][i] : i \in DOMAIN wire[s]}, "lost")
  /\ UNCHANGED <<hand, consumer, chat, recorded, misled>>

(* loopWithInterval: after the pause the stream is opened again.           *)
Reopen(s) ==
  /\ conn[s] = "backoff"
  /\ conn' = [conn EXCEPT ![s] = "open"]
  /\ UNCHANGED <<wire, hand, consumer, chat, faults, fate, recorded, misled>>

-----------------------------------------------------------------------------
(* The consumer *)

(* Faulty variant: the next order is taken before the answer has come.     *)
Receive_WhileWaiting(s) ==
  /\ at \in {"receive", "wait"} /\ hand[s] \in Registered
  /\ hand' = [hand EXCEPT ![s] = None]
  /\ at' = "ask" /\ cur' = hand[s]
  /\ Ends({hand[s]}, "taken")
  /\ UNCHANGED <<conn, wire, answer, chat, faults, recorded, misled>>

(* An order is taken from oc.                                              *)
Receive(s) ==
  /\ at = "receive" /\ hand[s] \in Registered
  /\ hand' = [hand EXCEPT ![s] = None]
  /\ at' = "ask" /\ cur' = hand[s]
  /\ Ends({hand[s]}, "taken")
  /\ UNCHANGED <<conn, wire, answer, chat, faults, recorded, misled>>

(* RetrieveAssetIdByCode returns 0 for an unknown asset, and when its query*)
(* fails: the order is only reported.                                      *)
Unregistered(s) ==
  /\ at = "receive" /\ hand[s] # None
  /\ IF hand[s] \in Registered THEN Fault ELSE UNCHANGED faults
  /\ hand' = [hand EXCEPT ![s] = None]
  /\ Ends({hand[s]}, "unregistered")
  /\ UNCHANGED <<conn, wire, consumer, chat, recorded, misled>>

(* chooseFundId: the prompt with its buttons is sent to the chat...        *)
Ask ==
  /\ at = "ask"
  /\ at' = "wait"
  /\ shown' = shown \cup {cur}
  /\ UNCHANGED <<streams, cur, answer, pick, presses, updates, bot, faults, fate, recorded, misled>>

(* ...or sending fails; it may have reached the chat all the same.         *)
AskFails ==
  /\ at = "ask"
  /\ Fault
  /\ at' = "receive" /\ cur' = None
  /\ shown' \in {shown, shown \cup {cur}}
  /\ Ends({cur}, "failed")
  /\ UNCHANGED <<streams, answer, pick, presses, updates, bot, recorded, misled>>

(* Faulty variant: the consumer returns where it should continue.          *)
UseAnswer_Returns ==
  /\ at = "answered"
  /\ at' = IF answer = NotOurs THEN "returned" ELSE "receive"
  /\ cur' = None /\ answer' = None
  /\ IF answer = NotOurs
     THEN Ends({cur}, "declined") /\ UNCHANGED recorded
     ELSE Ends({cur}, "recorded") /\ recorded' = [recorded EXCEPT ![cur] = answer]
  /\ UNCHANGED <<streams, chat, faults, misled>>

(* The answer is the fund to record the order for, or none.  RecordInvest  *)
(* may fail, before or after the row of the order is saved: that is only   *)
(* reported.                                                               *)
UseAnswer ==
  /\ at = "answered"
  /\ at' = "receive" /\ cur' = None /\ answer' = None
  /\ \/ answer = NotOurs /\ Ends({cur}, "declined") /\ UNCHANGED <<recorded, faults>>
     \/ /\ answer # NotOurs /\ Ends({cur}, "recorded") /\ UNCHANGED faults
        /\ recorded' = [recorded EXCEPT ![cur] = answer]
     \/ /\ answer # NotOurs /\ Ends({cur}, "failed") /\ Fault
        /\ recorded' \in {recorded, [recorded EXCEPT ![cur] = answer]}
  /\ UNCHANGED <<streams, chat, misled>>

-----------------------------------------------------------------------------
(* The chat *)

(* A press strays if its prompt does not wait, because it was answered     *)
(* before, could not be sent, or was forgotten by the server, or if another*)
(* press is under way, which may answer that prompt first.                 *)
Stray(o) == ~(at = "wait" /\ cur = o /\ bot = None /\ updates = <<>>)

(* The user presses a button of a prompt.  Once an answer was taken the    *)
(* keyboard is replaced by a single button that carries the same data, and *)
(* that button can be pressed as well.                                     *)
Press(o, a) ==
  /\ o \in shown /\ presses[o] < MaxPresses
  /\ pick[o] \in {None, a}
  /\ pick' = [pick EXCEPT ![o] = a]
  /\ presses' = [presses EXCEPT ![o] = @ + 1]
  /\ updates' = Append(updates, [order |-> o, data |-> a, stray |-> Stray(o)])
  /\ UNCHANGED <<streams, consumer, shown, bot, faults, fate, recorded, misled>>

(* The loop of the bot takes the next update; it blocks on ch.             *)
TakeUpdate ==
  /\ bot = None /\ updates # <<>>
  /\ bot' = Head(updates) /\ updates' = Tail(updates)
  /\ UNCHANGED <<streams, consumer, shown, pick, presses, faults, fate, recorded, misled>>

(* Whoever waits in SendButtonsAndGetResult receives the data.             *)
Deliver ==
  /\ bot # None /\ at = "wait"
  /\ answer' = bot.data /\ at' = "answered"
  /\ misled' = IF bot.stray THEN misled \cup {cur} ELSE misled
  /\ bot' = None
  /\ UNCHANGED <<streams, cur, shown, pick, presses, updates, faults, fate, recorded>>

(* The server restarts: orders in its goroutines are gone, the prompts in  *)
(* the chat are not, and presses may be delivered to the new process, for  *)
(* which they are all strays.                                              *)
Restart ==
  /\ Fault
  /\ conn' = [s \in Streams |-> "backoff"] /\ wire' = [s \in Streams |-> <<>>]
  /\ hand' = [s \in Streams |-> None]
  /\ at' = "receive" /\ cur' = None /\ answer' = None
  /\ updates' \in {<<>>, [i \in 1..Len(updates) |-> [updates[i] EXCEPT !.stray = TRUE]]}
  /\ bot' = None
  /\ fate' = [o \in Orders |-> IF fate[o] \in {"sent", "read"} THEN "lost"
                               ELSE IF fate[o] = "taken" THEN "dropped" ELSE fate[o]]
  /\ UNCHANGED <<shown, pick, presses, recorded, misled>>

-----------------------------------------------------------------------------
Next ==
  \/ \E o \in Orders : Execute(o) \/ \E a \in Answers : Press(o, a)
  \/ \E s \in Streams : Read(s) \/ StreamFails(s) \/ Reopen(s) \/ Receive(s) \/ Unregistered(s)
  \/ PongTimeout
  \/ Ask \/ AskFails \/ UseAnswer
  \/ TakeUpdate \/ Deliver
  \/ Restart

(* Goroutines that can run do, and the user answers every prompt.          *)
Answered(o) == presses[o] = 0 /\ \E a \in Answers : Press(o, a)

Fairness ==
  /\ \A s \in Streams : WF_vars(Read(s)) /\ WF_vars(Reopen(s))
                       /\ WF_vars(Receive(s) \/ Unregistered(s))
  /\ WF_vars(Ask) /\ WF_vars(UseAnswer) /\ WF_vars(TakeUpdate) /\ WF_vars(Deliver)
  /\ \A o \in Orders : WF_vars(Answered(o))

Spec == Init /\ [][Next]_vars
FairSpec == Spec /\ Fairness

-----------------------------------------------------------------------------
(* Properties *)

Presses == [order: Orders, data: Answers, stray: BOOLEAN]
Fates == {"placed", "sent", "read", "taken", "lost", "dropped"} \cup Settled

(* Types, and what the consumer holds at each of its steps.                *)
TypeOK ==
  /\ conn \in [Streams -> {"open", "late", "backoff"}]
  /\ wire \in [Streams -> Seq(Orders)] /\ hand \in [Streams -> Orders \cup {None}]
  /\ at \in {"receive", "ask", "wait", "answered"}
  /\ cur \in Orders \cup {None} /\ (cur = None <=> at = "receive")
  /\ answer \in Answers \cup {None} /\ (answer # None <=> at = "answered")
  /\ shown \in SUBSET Orders /\ pick \in [Orders -> Answers \cup {None}]
  /\ presses \in [Orders -> 0..MaxPresses]
  /\ updates \in Seq(Presses) /\ bot \in Presses \cup {None}
  /\ faults \in 0..MaxFaults
  /\ fate \in [Orders -> Fates] /\ recorded \in [Orders -> FundIds \cup {None}]
  /\ misled \in SUBSET Orders

(* An order is recorded for the fund the user chose for that order, and    *)
(* only after the user chose.  But nothing ties a press to a prompt: a     *)
(* stray press, whose own prompt did not wait or that came while another   *)
(* press was under way, answers whatever prompt comes next.  An order is   *)
(* misfiled only if the very press that answered it was such a one: no     *)
(* fault of a stream, of the table or of a message does it, and no stray   *)
(* press of long ago.                                                      *)
OnlyStrayPressesMisfile ==
  \A o \in Orders : recorded[o] \in {None, pick[o]} \/ o \in misled

(* Every execution that was read is at one place of the pipeline, so it    *)
(* can be recorded once: reading, handing over and consuming neither       *)
(* duplicate nor drop one.                                                 *)
Places(o) ==
  Cardinality({s \in Streams : hand[s] = o} \cup {c \in {"consumer"} : cur = o})
  + Cardinality({i \in DOMAIN wire[StreamOf[o]] : wire[StreamOf[o]][i] = o})

OnePlace ==
  \A o \in Orders : Places(o) = IF fate[o] \in {"sent", "read", "taken"} THEN 1 ELSE 0

(* An execution the server has read is recorded, declined or reported, if  *)
(* the user presses a button of each prompt once, whatever faults and      *)
(* stray presses there are: no producer, consumer or bot blocks another    *)
(* forever.  Only a restart ends it otherwise, which forgets it ("lost" in *)
(* the hand of its producer, "dropped" with its consumer).  Nor does a     *)
(* press that is no stray block the bot, which goes on to serve the chat.  *)
OrdersSettle ==
  /\ \A o \in Orders : fate[o] = "read" ~> fate[o] \in Settled \cup {"lost", "dropped"}
  /\ (bot # None /\ ~bot.stray) ~> bot = None

(* Each stream is a feed of the orders reported on it: the consumer takes  *)
(* them in the order they were executed, each once, and a blocked consumer *)
(* loses none of them as long as the connection stands.                    *)
OrdersOf(s) == {o \in Orders : StreamOf[o] = s}
Pending(s) == (IF hand[s] = None THEN <<>> ELSE <<hand[s]>>) \o wire[s]
Fate(s) ==
  [o \in OrdersOf(s) |->
     IF fate[o] \in {"placed", "lost"} THEN fate[o]
     ELSE IF fate[o] \in {"sent", "read"} THEN "pending" ELSE "given"]

CoinStream == INSTANCE OrderFeed WITH
  Orders <- OrdersOf(Coin),
  open <- conn[Coin] # "backoff", pending <- Pending(Coin), fate <- Fate(Coin)
StockStreams == INSTANCE OrderFeed WITH
  Orders <- OrdersOf(Stock),
  open <- conn[Stock] # "backoff", pending <- Pending(Stock), fate <- Fate(Stock)

StreamsAreFeeds == CoinStream!Spec /\ StockStreams!Spec
=============================================================================
