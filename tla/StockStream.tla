---------------------------- MODULE StockStream -----------------------------
(***************************************************************************)
(* The stream of the broker's order notifications: one goroutine issues an *)
(* approval key, opens a websocket, subscribes to the domestic and the     *)
(* overseas topic one after the other, and then reads messages until one   *)
(* cannot be read; loopWithInterval starts it again after a pause.         *)
(*                                                                         *)
(* The messages of a topic are encrypted with a key that came with the     *)
(* answer to its subscription.  While an answer is awaited the next        *)
(* message is taken for it, whatever it is.                                *)
(***************************************************************************)
EXTENDS Integers, Sequences, FiniteSets, SequencesExt

CONSTANTS
  Orders,      \* executions that may happen
  Domestic, Overseas,  \* the topics, in the order they are subscribed to
  TopicOf,     \* the topic an execution is reported under
  Sales,       \* executions that are sales
  None,        \* no order, no topic
  Day,         \* minutes of a day
  Uptimes,     \* minutes a stream may have run before it failed
  MaxPings,    \* bound: heartbeats of the broker
  MaxFaults    \* bound: failed requests and broken connections

Topics == <<Domestic, Overseas>>
TopicSet == {Domestic, Overseas}

ASSUME StreamAssumption ==
  /\ Domestic # Overseas
  /\ TopicOf \in [Orders -> TopicSet] /\ Sales \subseteq Orders
  /\ None \notin Orders \cup TopicSet
  /\ Day \in Nat \ {0} /\ Uptimes \subseteq Nat
  /\ MaxPings \in Nat /\ MaxFaults \in Nat

VARIABLES
  at,        \* the step of the goroutine
  conn,      \* wsConn is not nil
  topic,     \* the position of the topic it subscribes to
  keys,      \* topics whose stored key is that of the present connection
  hand,      \* the execution the callback is sending on oc, or None
  backoff,   \* minutes of the next pause
  link,      \* the connection: "none", "up", "dead" (broken, not noticed yet)
  asked,     \* the topic of the request the broker has to answer, or None
  serving,   \* topics subscribed on the connection
  wire,      \* messages of the broker that were not read yet
  pings, faults,
  (* History variables: no code reads them. *)
  fate,      \* "new", "placed" (accepted by the broker), "executed", "given"
  given,     \* the sign of the count an execution was handed over with
  opened     \* connections opened and not closed

client == <<at, conn, topic, keys, hand, backoff>>
broker == <<link, asked, serving, wire>>
bounds == <<pings, faults>>
ghosts == <<fate, given, opened>>
vars   == <<client, broker, bounds, ghosts>>

Ping == [kind |-> "ping"]
Response(t, ok) == [kind |-> "response", topic |-> t, ok |-> ok]
Notice(o, executed) == [kind |-> "notice", order |-> o, executed |-> executed]

Init ==
  /\ at = "start" /\ conn = FALSE /\ topic = 1 /\ keys = {} /\ hand = None /\ backoff = 1
  /\ link = "none" /\ asked = None /\ serving = {} /\ wire = <<>>
  /\ pings = 0 /\ faults = 0
  /\ fate = [o \in Orders |-> "new"] /\ given = [o \in Orders |-> 0] /\ opened = 0

Goto(step) == at' = step
Fault == faults < MaxFaults /\ faults' = faults + 1

-----------------------------------------------------------------------------
(* Connecting *)

(* StreamStockOrders: without a connection an approval key is issued...    *)
Start ==
  /\ at = "start"
  /\ Goto(IF conn THEN "subscribe" ELSE "connect")
  /\ topic' = 1
  /\ UNCHANGED <<conn, keys, hand, backoff, broker, bounds, ghosts>>

(* ...and ConnectWebSocket dials.  Keys of an earlier connection fit none. *)
Connect ==
  /\ at = "connect"
  /\ Goto("subscribe")
  /\ conn' = TRUE /\ keys' = {}
  /\ link' = "up" /\ serving' = {} /\ wire' = <<>> /\ asked' = None
  /\ opened' = opened + 1
  /\ UNCHANGED <<topic, hand, backoff, bounds, fate, given>>

(* Either fails: there is nothing to close.                                *)
ConnectFails ==
  /\ at = "connect"
  /\ Fault
  /\ Goto("sleep")
  /\ UNCHANGED <<conn, topic, keys, hand, backoff, broker, pings, ghosts>>

(* An answer without an approval key, or with one too short for the line   *)
(* that is logged of it, panics in a goroutine that does not recover: the  *)
(* process ends and is started again.                                      *)
KeyPanics ==
  /\ at = "connect"
  /\ Fault
  /\ Goto("start")
  /\ topic' = 1 /\ keys' = {} /\ backoff' = 1
  /\ UNCHANGED <<conn, hand, broker, pings, ghosts>>

(* A request on a dead connection fails, or fails to be noticed.           *)
Subscribe ==
  /\ at = "subscribe"
  /\ IF link = "up" THEN asked' = Topics[topic] ELSE UNCHANGED asked
  /\ Goto("response")
  /\ UNCHANGED <<conn, topic, keys, hand, backoff, link, serving, wire, bounds, ghosts>>

SubscribeFails ==
  /\ at = "subscribe" /\ link # "up"
  /\ Goto("close")
  /\ UNCHANGED <<conn, topic, keys, hand, backoff, broker, bounds, ghosts>>

(* Faulty variant: there is one field for the key.                         *)
Accepted_LastKey ==
  /\ keys' = {Topics[topic]}
  /\ IF topic = Len(Topics) THEN Goto("receive") /\ UNCHANGED topic
                            ELSE Goto("subscribe") /\ topic' = topic + 1

(* The key is stored for the topic; the next topic, or the receive loop.   *)
Accepted ==
  /\ keys' = keys \cup {Topics[topic]}
  /\ IF topic = Len(Topics) THEN Goto("receive") /\ UNCHANGED topic
                            ELSE Goto("subscribe") /\ topic' = topic + 1

(* The next message is the answer, or it cannot be parsed as an answer, or *)
(* has no code "0": the stream ends.                                       *)
ReadResponse ==
  /\ at = "response" /\ wire # <<>>
  /\ wire' = Tail(wire)
  /\ LET m == Head(wire)
     IN  IF m.kind = "response" /\ m.ok THEN Accepted
         ELSE Goto("close") /\ UNCHANGED <<topic, keys>>
  /\ UNCHANGED <<conn, hand, backoff, link, asked, serving, bounds, ghosts>>

-----------------------------------------------------------------------------
(* Receiving *)

(* A heartbeat is answered.  A notice is decrypted with the key stored for *)
(* its topic and parsed, which fails with another key; its callback hands  *)
(* over an execution and ignores any other notice.  All else is skipped.   *)
Receive ==
  /\ at = "receive" /\ wire # <<>>
  /\ wire' = Tail(wire)
  /\ LET m == Head(wire)
     IN  IF m.kind = "notice" /\ m.executed /\ TopicOf[m.order] \in keys
         THEN Goto("callback") /\ hand' = m.order
         ELSE UNCHANGED <<at, hand>>
  /\ UNCHANGED <<conn, topic, keys, backoff, link, asked, serving, bounds, ghosts>>

Sign(o) == IF o \in Sales THEN -1 ELSE 1

(* The consumer takes the order from oc; until then nothing is read.       *)
Take ==
  /\ at = "callback"
  /\ Goto("receive") /\ hand' = None
  /\ fate' = [fate EXCEPT ![hand] = "given"]
  /\ given' = [given EXCEPT ![hand] = Sign(hand)]
  /\ UNCHANGED <<conn, topic, keys, backoff, broker, bounds, opened>>

(* No message can be read from a broken connection: the stream ends.       *)
ReadFails ==
  /\ at \in {"response", "receive"} /\ link = "dead"
  /\ Goto("close")
  /\ UNCHANGED <<conn, topic, keys, hand, backoff, broker, bounds, ghosts>>

(* Faulty variant: wsConn is not reset.                                    *)
CloseWebSocket_KeepsConn ==
  /\ at = "close"
  /\ Goto("sleep")
  /\ UNCHANGED conn
  /\ link' = "none" /\ asked' = None /\ serving' = {} /\ wire' = <<>>
  /\ opened' = opened - 1
  /\ UNCHANGED <<topic, keys, hand, backoff, bounds, fate, given>>

(* The deferred call closes the connection and drops what is on it.        *)
CloseWebSocket ==
  /\ at = "close"
  /\ Goto("sleep")
  /\ conn' = FALSE
  /\ link' = "none" /\ asked' = None /\ serving' = {} /\ wire' = <<>>
  /\ opened' = opened - 1
  /\ UNCHANGED <<topic, keys, hand, backoff, bounds, fate, given>>

(* Faulty variant: the time since the last error does not count the pause. *)
NextBackoff_NoPause(b, up) == IF up > Day THEN 1 ELSE 2 * b

(* loopWithInterval: the pause doubles, unless the last error, which is    *)
(* noted after its pause, is more than a day ago.                          *)
NextBackoff(b, up) == IF up + b > Day THEN 1 ELSE 2 * b

Sleep(up) ==
  /\ at = "sleep"
  /\ Goto("start")
  /\ backoff' = NextBackoff(backoff, up)
  /\ UNCHANGED <<conn, topic, keys, hand, broker, bounds, ghosts>>

-----------------------------------------------------------------------------
(* The broker and the network *)

Send(m) == wire' = Append(wire, m)

Answer(ok) ==
  /\ asked # None /\ link = "up"
  /\ IF ok THEN serving' = serving \cup {asked} /\ UNCHANGED faults
           ELSE UNCHANGED serving /\ Fault
  /\ Send(Response(asked, ok))
  /\ asked' = None
  /\ UNCHANGED <<client, link, pings, ghosts>>

(* An order is accepted, and executed later; both are reported under its   *)
(* topic, if that is subscribed to.                                        *)
Report(o, executed) ==
  IF link = "up" /\ TopicOf[o] \in serving THEN Send(Notice(o, executed)) ELSE UNCHANGED wire

Accept(o) ==
  /\ fate[o] = "new"
  /\ fate' = [fate EXCEPT ![o] = "placed"]
  /\ Report(o, FALSE)
  /\ UNCHANGED <<client, link, asked, serving, bounds, given, opened>>

Execute(o) ==
  /\ fate[o] = "placed"
  /\ fate' = [fate EXCEPT ![o] = "executed"]
  /\ Report(o, TRUE)
  /\ UNCHANGED <<client, link, asked, serving, bounds, given, opened>>

Beat ==
  /\ link = "up" /\ pings < MaxPings
  /\ pings' = pings + 1
  /\ Send(Ping)
  /\ UNCHANGED <<client, link, asked, serving, faults, ghosts>>

(* The connection breaks, or the broker gives it up because a heartbeat is *)
(* not answered while the callback is blocked.                             *)
Break ==
  /\ link = "up"
  /\ IF at = "callback" /\ \E i \in DOMAIN wire : wire[i] = Ping
     THEN UNCHANGED faults ELSE Fault
  /\ link' = "dead" /\ asked' = None
  /\ UNCHANGED <<client, serving, wire, pings, ghosts>>

-----------------------------------------------------------------------------
Client ==
  \/ Start \/ Connect \/ Subscribe \/ ReadResponse \/ Receive \/ Take
  \/ ReadFails \/ CloseWebSocket \/ \E up \in Uptimes : Sleep(up)

Next ==
  \/ Client \/ ConnectFails \/ KeyPanics \/ SubscribeFails
  \/ \E ok \in BOOLEAN : Answer(ok)
  \/ \E o \in Orders : Accept(o) \/ Execute(o)
  \/ Beat \/ Break

(* The goroutine runs on, the consumer takes orders, the broker answers.   *)
Fairness == WF_vars(Client \/ Answer(TRUE))

Spec == Init /\ [][Next]_vars
FairSpec == Spec /\ Fairness

-----------------------------------------------------------------------------
(* Properties *)

Messages ==
  {Ping} \cup {Response(t, ok) : t \in TopicSet, ok \in BOOLEAN}
  \cup {Notice(o, b) : o \in Orders, b \in BOOLEAN}

(* Types; an order is in hand during the callback, and a connection is     *)
(* held from Connect to CloseWebSocket.  However often the stream fails,   *)
(* the pause before it is opened again is less than two days.              *)
TypeOK ==
  /\ at \in {"start", "connect", "subscribe", "response", "receive", "callback", "close",
             "sleep"}
  /\ conn \in BOOLEAN
  /\ conn <=> at \in {"subscribe", "response", "receive", "callback", "close"}
  /\ topic \in DOMAIN Topics /\ keys \in SUBSET TopicSet
  /\ hand \in Orders \cup {None} /\ (hand # None <=> at = "callback")
  /\ link \in {"none", "up", "dead"} /\ (link = "none" <=> ~conn)
  /\ asked \in TopicSet \cup {None} /\ serving \in SUBSET TopicSet
  /\ wire \in Seq(Messages)
  /\ pings \in Nat /\ faults \in Nat
  /\ fate \in [Orders -> {"new", "placed", "executed", "given"}]
  /\ (conn /\ opened = 1) \/ (~conn /\ opened = 0)
  /\ backoff \in 1 .. 2 * Day

(* Every attempt to open the stream, whatever fails on the way or later,   *)
(* is followed by one after which messages are read.                       *)
StreamComesBack == at \notin {"start", "receive"} ~> at = "receive"

(* Each topic is a feed: executions are handed over in order, at most once,*)
(* and while its subscription stands none of them is skipped, whether the  *)
(* other topic was subscribed to before, keys were replaced or notices of  *)
(* other kinds come between; a sale is handed over as a negative count.  A *)
(* message taken for an answer ends the stream; it and what came with it   *)
(* are lost.                                                               *)
OrdersOf(t) == {o \in Orders : TopicOf[o] = t}
Standing(t) == t \in serving /\ at # "close" /\ link = "up"
Tells(m, t) == m.kind = "notice" /\ m.executed /\ TopicOf[m.order] = t
Executions(messages, t) ==
  LET upTo[n \in 0 .. Len(messages)] ==
        IF n = 0 THEN <<>>
        ELSE IF Tells(messages[n], t) THEN Append(upTo[n - 1], messages[n].order)
        ELSE upTo[n - 1]
  IN  upTo[Len(messages)]
OnWire(t) == Executions(wire, t)
InHand(t) == IF hand # None /\ TopicOf[hand] = t THEN <<hand>> ELSE <<>>
Pending(t) == InHand(t) \o (IF at = "close" THEN <<>> ELSE OnWire(t))

(* A sale handed over as a purchase, or the other way round, is lost.      *)
GivenRight(o) == fate[o] = "given" /\ given[o] # 0 /\ (o \in Sales <=> given[o] < 0)
Fate(t) ==
  LET pending == ToSet(Pending(t))
  IN  [o \in OrdersOf(t) |->
         IF fate[o] \in {"new", "placed"} THEN "placed"
         ELSE IF GivenRight(o) THEN "given"
         ELSE IF o \in pending THEN "pending" ELSE "lost"]

D == INSTANCE OrderFeed WITH
  Orders <- OrdersOf(Domestic),
  open <- Standing(Domestic), pending <- Pending(Domestic), fate <- Fate(Domestic)
O == INSTANCE OrderFeed WITH
  Orders <- OrdersOf(Overseas),
  open <- Standing(Overseas), pending <- Pending(Overseas), fate <- Fate(Overseas)

TopicsAreFeeds == D!Spec /\ O!Spec
=============================================================================
