-------------------------- MODULE OrderIntakeProofs --------------------------
(***************************************************************************)
(* Any number of orders, presses and faults: an execution is at one place  *)
(* of the pipeline, only a stray press misfiles one, and both streams       *)
(* implement OrderFeed.                                                    *)
(***************************************************************************)
EXTENDS OrderIntake, SequenceTheorems, FiniteSetTheorems, TLAPS

(***************************************************************************)
(* Types                                                                   *)
(***************************************************************************)

(* TypeOK in parts.                                                        *)
StreamTypes ==
  /\ conn \in [Streams -> {"open", "late", "backoff"}]
  /\ wire \in [Streams -> Seq(Orders)] /\ hand \in [Streams -> Orders \cup {None}]
ConsumerTypes ==
  /\ at \in {"receive", "ask", "wait", "answered"}
  /\ cur \in Orders \cup {None} /\ (cur = None <=> at = "receive")
  /\ answer \in Answers \cup {None} /\ (answer # None <=> at = "answered")
ChatTypes ==
  /\ shown \in SUBSET Orders /\ pick \in [Orders -> Answers \cup {None}]
  /\ presses \in [Orders -> 0..MaxPresses]
  /\ updates \in Seq(Presses) /\ bot \in Presses \cup {None}
HistoryTypes ==
  /\ faults \in 0..MaxFaults
  /\ fate \in [Orders -> Fates] /\ recorded \in [Orders -> FundIds \cup {None}]
  /\ misled \in SUBSET Orders

LEMMA TypesInParts == TypeOK <=> StreamTypes /\ ConsumerTypes /\ ChatTypes /\ HistoryTypes
  BY DEF TypeOK, StreamTypes, ConsumerTypes, ChatTypes, HistoryTypes

LEMMA Constants ==
  /\ None \notin Orders /\ None \notin Answers /\ NotOurs \notin FundIds
  /\ Coin \in Streams /\ Stock \in Streams /\ \A o \in Orders : StreamOf[o] \in Streams
  /\ Registered \subseteq Orders /\ MaxPresses \in Nat /\ MaxFaults \in Nat
  BY IntakeAssumption DEF IntakeAssumption, Streams

LEMMA FaultCounts == ASSUME faults \in 0..MaxFaults, Fault PROVE faults' \in 0..MaxFaults
  BY Constants DEF Fault

LEMMA EndsTypes ==
  ASSUME fate \in [Orders -> Fates], NEW S, NEW e \in Fates, Ends(S, e)
  PROVE  fate' \in [Orders -> Fates]
  BY DEF Ends

(* The first in a queue, and the rest.                                     *)
LEMMA FirstAndRest ==
  ASSUME NEW T, NEW q \in Seq(T), q # <<>>
  PROVE  /\ Head(q) \in T /\ Head(q) = q[1] /\ Tail(q) \in Seq(T)
         /\ Len(q) \in Nat \ {0} /\ Len(Tail(q)) = Len(q) - 1
         /\ \A i \in 1..Len(Tail(q)) : Tail(q)[i] = q[i + 1]
  BY HeadTailProperties, EmptySeq, LenProperties

(* The presses a restart leaves in the chat.                               *)
AllStray(q) == [i \in 1..Len(q) |-> [q[i] EXCEPT !.stray = TRUE]]

LEMMA StraysKept ==
  ASSUME NEW q \in Seq(Presses)
  PROVE  /\ AllStray(q) \in Seq(Presses)
         /\ \A i \in 1..Len(AllStray(q)) : AllStray(q)[i].stray
<1>1. Len(q) \in Nat /\ \A i \in 1..Len(q) : q[i] \in Presses
  BY LenProperties, ElementOfSeq
<1>2. \A i \in 1..Len(q) : [q[i] EXCEPT !.stray = TRUE] \in Presses /\ [q[i] EXCEPT !.stray = TRUE].stray
  BY <1>1 DEF Presses
<1>3. AllStray(q) \in Seq(Presses)
  BY <1>1, <1>2, IsASeq DEF AllStray
<1>4. Len(AllStray(q)) = Len(q)
  BY <1>1, <1>3, LenProperties DEF AllStray
<1>5. QED
  BY <1>2, <1>3, <1>4 DEF AllStray

LEMMA TypesInitially == ASSUME Init PROVE TypeOK
  BY Constants, EmptySeq DEF Init, TypeOK, Fates

(* The steps of a stream.                                                  *)
LEMMA StreamStepTypes ==
  ASSUME TypeOK,
         \/ \E o \in Orders : Execute(o)
         \/ \E s \in Streams : Read(s) \/ StreamFails(s) \/ Reopen(s)
         \/ PongTimeout
  PROVE  TypeOK'
<1>1. StreamTypes /\ ConsumerTypes /\ ChatTypes /\ HistoryTypes
  BY TypesInParts
<1> USE <1>1, Constants DEF StreamTypes, HistoryTypes, consumer, chat
<1>2. ASSUME NEW o \in Orders, Execute(o) PROVE StreamTypes' /\ HistoryTypes'
  <2>1. fate' \in [Orders -> Fates]
    BY <1>2, EndsTypes DEF Execute, Fates
  <2>2. \A q \in Seq(Orders) : Append(q, o) \in Seq(Orders)
    BY AppendProperties
  <2>3. wire' \in [Streams -> Seq(Orders)]
    <3>1. StreamOf[o] \in Streams /\ wire[StreamOf[o]] \in Seq(Orders)
      OBVIOUS
    <3>2. Append(wire[StreamOf[o]], o) \in Seq(Orders)
      BY <2>2, <3>1
    <3>3. wire' = wire \/ wire' = [wire EXCEPT ![StreamOf[o]] = Append(wire[StreamOf[o]], o)]
      BY <1>2 DEF Execute
    <3>4. QED
      BY <3>1, <3>2, <3>3
  <2>4. QED
    BY <1>2, <2>1, <2>3 DEF Execute
<1>3. ASSUME NEW s \in Streams, Read(s) PROVE StreamTypes' /\ HistoryTypes'
  <2>1. fate' \in [Orders -> Fates]
    BY <1>3, EndsTypes DEF Read, Fates
  <2>2. Head(wire[s]) \in Orders /\ Tail(wire[s]) \in Seq(Orders)
    BY <1>3, FirstAndRest DEF Read
  <2>3. QED
    BY <1>3, <2>1, <2>2 DEF Read
<1>4. ASSUME NEW s \in Streams, StreamFails(s) PROVE StreamTypes' /\ HistoryTypes'
  <2>1. fate' \in [Orders -> Fates]
    BY <1>4, EndsTypes DEF StreamFails, Fates
  <2>2. <<>> \in Seq(Orders)
    BY EmptySeq
  <2>3. faults' \in 0..MaxFaults
    BY <1>4, FaultCounts DEF StreamFails
  <2>4. QED
    BY <1>4, <2>1, <2>2, <2>3 DEF StreamFails
<1>5. ASSUME NEW s \in Streams, Reopen(s) PROVE StreamTypes' /\ HistoryTypes'
  BY <1>5 DEF Reopen
<1>6. ASSUME PongTimeout PROVE StreamTypes' /\ HistoryTypes'
  BY <1>6 DEF PongTimeout
<1>7. StreamTypes' /\ HistoryTypes'
  BY <1>2, <1>3, <1>4, <1>5, <1>6
<1>8. UNCHANGED <<consumer, chat>>
  BY DEF Execute, Read, StreamFails, Reopen, PongTimeout
<1>9. ConsumerTypes' /\ ChatTypes'
  BY <1>8 DEF ConsumerTypes, ChatTypes
<1>10. QED
  BY <1>7, <1>9, TypesInParts, PTL

(* The steps of the consumer.                                              *)
LEMMA ConsumerStepTypes ==
  ASSUME TypeOK,
         \/ \E s \in Streams : Receive(s) \/ Unregistered(s)
         \/ Ask \/ AskFails \/ UseAnswer
  PROVE  TypeOK'
<1>1. StreamTypes /\ ConsumerTypes /\ ChatTypes /\ HistoryTypes
  BY TypesInParts
<1> USE <1>1, Constants
<1>2. ASSUME NEW s \in Streams, Receive(s) \/ Unregistered(s)
      PROVE  StreamTypes' /\ ConsumerTypes' /\ ChatTypes' /\ HistoryTypes'
  <2>1. fate' \in [Orders -> Fates]
    BY <1>2, EndsTypes DEF Receive, Unregistered, Fates, Settled, HistoryTypes
  <2>2. faults' \in 0..MaxFaults
    BY <1>2, FaultCounts DEF Receive, Unregistered, HistoryTypes
  <2>3. StreamTypes' /\ ChatTypes'
    BY <1>2 DEF Receive, Unregistered, StreamTypes, ChatTypes, chat
  <2>4. ConsumerTypes'
    BY <1>2 DEF Receive, Unregistered, ConsumerTypes, consumer
  <2>5. HistoryTypes'
    BY <1>2, <2>1, <2>2 DEF Receive, Unregistered, HistoryTypes
  <2>6. QED
    BY <2>3, <2>4, <2>5
<1>3. ASSUME Ask PROVE StreamTypes' /\ ConsumerTypes' /\ ChatTypes' /\ HistoryTypes'
  BY <1>3 DEF Ask, StreamTypes, ConsumerTypes, ChatTypes, HistoryTypes, streams
<1>4. ASSUME AskFails PROVE StreamTypes' /\ ConsumerTypes' /\ ChatTypes' /\ HistoryTypes'
  <2>1. fate' \in [Orders -> Fates]
    BY <1>4, EndsTypes DEF AskFails, Fates, Settled, HistoryTypes
  <2>2. faults' \in 0..MaxFaults
    BY <1>4, FaultCounts DEF AskFails, HistoryTypes
  <2>3. QED
    BY <1>4, <2>1, <2>2 DEF AskFails, StreamTypes, ConsumerTypes, ChatTypes, HistoryTypes, streams
<1>5. ASSUME UseAnswer PROVE StreamTypes' /\ ConsumerTypes' /\ ChatTypes' /\ HistoryTypes'
  <2>1. fate' \in [Orders -> Fates]
    BY <1>5, EndsTypes DEF UseAnswer, Fates, Settled, HistoryTypes
  <2>2. answer # NotOurs => answer \in FundIds
    BY <1>5 DEF UseAnswer, ConsumerTypes, Answers
  <2>3. faults' \in 0..MaxFaults
    BY <1>5, FaultCounts DEF UseAnswer, HistoryTypes
  <2>4. recorded' \in [Orders -> FundIds \cup {None}]
    BY <1>5, <2>2 DEF UseAnswer, HistoryTypes
  <2>5. HistoryTypes'
    BY <1>5, <2>1, <2>3, <2>4 DEF UseAnswer, HistoryTypes
  <2>6. QED
    BY <1>5, <2>5 DEF UseAnswer, StreamTypes, ConsumerTypes, ChatTypes, streams, chat
<1>6. StreamTypes' /\ ConsumerTypes' /\ ChatTypes' /\ HistoryTypes'
  BY <1>2, <1>3, <1>4, <1>5
<1>7. QED
  BY <1>6, TypesInParts, PTL

(* The steps of the chat, and the restart.                                 *)
LEMMA ChatStepTypes ==
  ASSUME TypeOK,
         \/ \E o \in Orders, a \in Answers : Press(o, a)
         \/ TakeUpdate \/ Deliver \/ Restart
  PROVE  TypeOK'
<1>1. StreamTypes /\ ConsumerTypes /\ ChatTypes /\ HistoryTypes
  BY TypesInParts
<1> USE <1>1, Constants
<1>2. ASSUME NEW o \in Orders, NEW a \in Answers, Press(o, a)
      PROVE  StreamTypes' /\ ConsumerTypes' /\ ChatTypes' /\ HistoryTypes'
  <2>1. [order |-> o, data |-> a, stray |-> Stray(o)] \in Presses
    BY DEF Presses, Stray
  <2>2. updates' \in Seq(Presses)
    BY <1>2, <2>1, AppendProperties DEF Press, ChatTypes
  <2>3. ChatTypes'
    BY <1>2, <2>2 DEF Press, ChatTypes
  <2>4. QED
    BY <1>2, <2>3 DEF Press, StreamTypes, ConsumerTypes, HistoryTypes, streams, consumer
<1>3. ASSUME TakeUpdate PROVE StreamTypes' /\ ConsumerTypes' /\ ChatTypes' /\ HistoryTypes'
  <2>1. Head(updates) \in Presses /\ Tail(updates) \in Seq(Presses)
    BY <1>3, FirstAndRest DEF TakeUpdate, ChatTypes
  <2>2. QED
    BY <1>3, <2>1 DEF TakeUpdate, StreamTypes, ConsumerTypes, ChatTypes, HistoryTypes, streams, consumer
<1>4. ASSUME Deliver PROVE StreamTypes' /\ ConsumerTypes' /\ ChatTypes' /\ HistoryTypes'
  <2>1. bot \in Presses /\ cur \in Orders
    BY <1>4 DEF Deliver, ChatTypes, ConsumerTypes
  <2>2. misled' \in SUBSET Orders
    BY <1>4, <2>1 DEF Deliver, HistoryTypes
  <2>3. QED
    BY <1>4, <2>1, <2>2 DEF Deliver, StreamTypes, ConsumerTypes, ChatTypes, HistoryTypes, streams, Presses
<1>5. ASSUME Restart PROVE StreamTypes' /\ ConsumerTypes' /\ ChatTypes' /\ HistoryTypes'
  <2>1. fate' \in [Orders -> Fates]
    BY <1>5 DEF Restart, Fates, Settled, HistoryTypes
  <2>2. faults' \in 0..MaxFaults
    BY <1>5, FaultCounts DEF Restart, HistoryTypes
  <2>3. StreamTypes'
    BY <1>5, EmptySeq DEF Restart, StreamTypes
  <2>4. updates' \in Seq(Presses)
    <3>1. updates' = <<>> \/ updates' = AllStray(updates)
      BY <1>5 DEF Restart, AllStray
    <3>2. <<>> \in Seq(Presses)
      BY EmptySeq
    <3>3. QED
      BY <3>1, <3>2, StraysKept DEF ChatTypes
  <2>5. ConsumerTypes' /\ ChatTypes' /\ HistoryTypes'
    BY <1>5, <2>1, <2>2, <2>4 DEF Restart, ConsumerTypes, ChatTypes, HistoryTypes
  <2>6. QED
    BY <2>3, <2>5
<1>6. StreamTypes' /\ ConsumerTypes' /\ ChatTypes' /\ HistoryTypes'
  BY <1>2, <1>3, <1>4, <1>5
<1>7. QED
  BY <1>6, TypesInParts, PTL

LEMMA TypesKept == ASSUME TypeOK, [Next]_vars PROVE TypeOK'
<1>1. CASE UNCHANGED vars
  BY <1>1 DEF vars, streams, consumer, chat, TypeOK
<1>2. CASE Next
  BY <1>2, StreamStepTypes, ConsumerStepTypes, ChatStepTypes DEF Next
<1>3. QED
  BY <1>1, <1>2

(* Whatever the exchange, the user and the network do, the pipeline holds  *)
(* what its code expects: an order while it is worked on, an answer while  *)
(* it is used (initInvestIndicator's consumer, the bot's loop).            *)
THEOREM TypeCorrect == Spec => []TypeOK
<1>1. Init => TypeOK
  BY TypesInitially
<1>2. TypeOK /\ [Next]_vars => TypeOK'
  BY TypesKept
<1>3. QED
  BY <1>1, <1>2, PTL DEF Spec

(***************************************************************************)
(* Stray presses                                                           *)
(***************************************************************************)

(* A press under way answers the prompt that waits.                        *)
Meant(p) == at = "wait" /\ p.order = cur /\ p.data = pick[cur]

(* A press that is no stray is alone: it is the first one under way, and   *)
(* the prompt it was pressed for waits for it.                             *)
ChatInv ==
  /\ \A i \in 1..Len(updates) :
       ~updates[i].stray => i = 1 /\ bot = None /\ Meant(updates[i])
  /\ bot # None /\ ~bot.stray => Meant(bot)
  /\ at = "answered" => answer = pick[cur] \/ cur \in misled
  /\ OnlyStrayPressesMisfile

LEMMA ChatInitially == ASSUME Init PROVE ChatInv
  BY EmptySeq DEF Init, ChatInv, OnlyStrayPressesMisfile

(* The consumer works on while no prompt waits: every press is a stray.    *)
LEMMA NobodyWaits ==
  ASSUME TypeOK, ChatInv, at # "wait", at' \notin {"answered"},
         UNCHANGED <<chat, recorded, misled>>
  PROVE  ChatInv'
  BY DEF ChatInv, OnlyStrayPressesMisfile, Meant, chat

LEMMA ChatUntouched ==
  ASSUME ChatInv, UNCHANGED <<consumer, chat, recorded, misled>>
  PROVE  ChatInv'
  BY DEF ChatInv, OnlyStrayPressesMisfile, Meant, consumer, chat

LEMMA PressKeepsOrder ==
  ASSUME TypeOK, ChatInv, NEW o \in Orders, NEW a \in Answers, Press(o, a)
  PROVE  ChatInv'
<1> DEFINE p == [order |-> o, data |-> a, stray |-> Stray(o)]
<1>1. /\ updates \in Seq(Presses) /\ Len(updates) \in Nat /\ p \in Presses
      /\ pick \in [Orders -> Answers \cup {None}] /\ pick[o] \in {None, a} /\ a # None
      /\ pick' = [pick EXCEPT ![o] = a]
      /\ UNCHANGED <<at, cur, bot, answer, recorded, misled>>
  BY LenProperties, Constants DEF TypeOK, Press, Presses, Stray, consumer
<1>2. /\ Len(updates') = Len(updates) + 1 /\ updates'[Len(updates) + 1] = p
      /\ \A i \in 1..Len(updates) : updates'[i] = updates[i]
  <2>1. updates' = Append(updates, p)
    BY DEF Press
  <2> HIDE DEF p
  <2>2. QED
    BY <1>1, <2>1, AppendProperties
<1>3. \A x \in Orders : pick'[x] = pick[x] \/ (x = o /\ pick[x] = None /\ pick'[x] = a)
  BY <1>1
<1>4. \A q \in Presses : Meant(q) => Meant(q)'
  BY <1>1, <1>3, Constants DEF Meant, Presses, TypeOK
<1>5. ASSUME NEW i \in 1..Len(updates'), ~updates'[i].stray
      PROVE  i = 1 /\ bot' = None /\ Meant(updates[i])'
  <2>1. CASE i \in 1..Len(updates)
    <3>1. i = 1 /\ bot = None /\ Meant(updates[i]) /\ updates[i] \in Presses
      BY <1>1, <1>2, <1>5, <2>1, ElementOfSeq DEF ChatInv
    <3>2. updates'[i] = updates[i]
      BY <1>2, <2>1
    <3>3. at' = "wait" /\ updates'[i].order = cur' /\ updates'[i].data = pick'[cur']
      BY <1>4, <3>1, <3>2 DEF Meant
    <3>4. QED
      BY <1>1, <3>1, <3>3 DEF Meant
  <2>2. CASE i = Len(updates) + 1
    <3>1. updates'[i] = p /\ ~Stray(o)
      BY <1>2, <1>5, <2>2
    <3>2. at = "wait" /\ cur = o /\ bot = None /\ Len(updates) = 0
      BY <3>1, EmptySeq DEF Stray
    <3>3. pick'[o] = a
      BY <1>1
    <3>4. QED
      BY <1>1, <2>2, <3>1, <3>2, <3>3 DEF Meant
  <2>3. QED
    BY <1>1, <1>2, <2>1, <2>2
<1>6. bot' # None /\ ~bot'.stray => Meant(bot)'
  <2>1. SUFFICES ASSUME bot # None, ~bot.stray PROVE Meant(bot)'
    BY <1>1
  <2>2. bot \in Presses /\ Meant(bot)
    BY <2>1 DEF TypeOK, ChatInv
  <2>3. at = "wait" /\ bot.order = cur /\ bot.data = pick[cur] /\ cur \in Orders /\ bot.data \in Answers
    BY <2>2 DEF Meant, TypeOK, Presses
  <2>4. pick'[cur] = pick[cur]
    BY <1>3, <2>3, Constants
  <2>5. QED
    BY <1>1, <2>3, <2>4 DEF Meant
<1>7. at' = "answered" => answer' = pick'[cur'] \/ cur' \in misled'
  <2>1. at = "answered" => cur \in Orders /\ answer # None
    BY DEF TypeOK
  <2>2. at = "answered" => answer = pick[cur] \/ cur \in misled
    BY DEF ChatInv
  <2>3. QED
    BY <1>1, <1>3, <2>1, <2>2
<1>8. OnlyStrayPressesMisfile'
  BY <1>1, <1>3 DEF ChatInv, OnlyStrayPressesMisfile
<1>9. QED
  BY <1>5, <1>6, <1>7, <1>8 DEF ChatInv

LEMMA TakeUpdateKeepsOrder == ASSUME TypeOK, ChatInv, TakeUpdate PROVE ChatInv'
<1>1. /\ bot = None /\ bot' = updates[1] /\ updates' = Tail(updates)
      /\ Len(updates) \in Nat \ {0} /\ Len(updates') = Len(updates) - 1
      /\ \A i \in 1..Len(updates') : updates'[i] = updates[i + 1]
  BY FirstAndRest DEF TakeUpdate, TypeOK
<1>2. UNCHANGED <<consumer, pick, recorded, misled>>
  BY DEF TakeUpdate
<1>3. ASSUME NEW i \in 1..Len(updates') PROVE updates'[i].stray
  <2>1. i + 1 \in 1..Len(updates) /\ i + 1 # 1
    BY <1>1
  <2>2. QED
    BY <1>1, <2>1 DEF ChatInv
<1>4. ~bot'.stray => Meant(bot)'
  <2>1. SUFFICES ASSUME ~updates[1].stray PROVE Meant(bot)'
    BY <1>1
  <2>2. 1 \in 1..Len(updates)
    BY <1>1
  <2>3. Meant(updates[1])
    BY <2>1, <2>2 DEF ChatInv
  <2>4. QED
    BY <1>1, <1>2, <2>3 DEF Meant, consumer
<1>5. QED
  BY <1>2, <1>3, <1>4 DEF ChatInv, OnlyStrayPressesMisfile, consumer

LEMMA DeliverKeepsOrder == ASSUME TypeOK, ChatInv, Deliver PROVE ChatInv'
<1>1. UNCHANGED <<cur, pick, updates, recorded>> /\ at' = "answered" /\ bot # None
      /\ answer' = bot.data /\ misled \subseteq misled'
  BY DEF Deliver
<1>2. \A i \in 1..Len(updates) : updates[i].stray
  BY <1>1 DEF ChatInv
<1>3. answer' = pick[cur] \/ cur \in misled'
  BY DEF Deliver, ChatInv, Meant
<1>4. bot' = None
  BY DEF Deliver
<1>5. QED
  BY <1>1, <1>2, <1>3, <1>4 DEF ChatInv, OnlyStrayPressesMisfile

LEMMA UseAnswerKeepsOrder == ASSUME TypeOK, ChatInv, UseAnswer PROVE ChatInv'
<1>1. UNCHANGED <<chat, misled>> /\ at = "answered" /\ at' = "receive" /\ cur \in Orders
  BY DEF UseAnswer, TypeOK
<1>2. answer = pick[cur] \/ cur \in misled
  BY <1>1 DEF ChatInv
<1>3. \A o \in Orders : recorded'[o] = recorded[o] \/ (o = cur /\ recorded'[o] = answer)
  BY DEF UseAnswer, TypeOK
<1>4. OnlyStrayPressesMisfile'
  BY <1>1, <1>2, <1>3 DEF ChatInv, OnlyStrayPressesMisfile, chat
<1>5. QED
  BY <1>1, <1>4 DEF ChatInv, Meant, chat

LEMMA RestartKeepsOrder == ASSUME TypeOK, ChatInv, Restart PROVE ChatInv'
<1>1. UNCHANGED <<pick, recorded, misled>> /\ at' = "receive" /\ bot' = None
  BY DEF Restart
<1>2. \A i \in 1..Len(updates') : updates'[i].stray
  <2>1. updates' = <<>> \/ updates' = AllStray(updates)
    BY DEF Restart, AllStray
  <2>2. Len(<<>>) = 0
    BY EmptySeq
  <2>3. QED
    BY <2>1, <2>2, StraysKept DEF TypeOK
<1>3. QED
  BY <1>1, <1>2 DEF ChatInv, OnlyStrayPressesMisfile

LEMMA ChatKept == ASSUME TypeOK, ChatInv, [Next]_vars PROVE ChatInv'
<1>1. ASSUME NEW o \in Orders, Execute(o) PROVE ChatInv'
  BY <1>1, ChatUntouched DEF Execute
<1>2. ASSUME NEW s \in Streams, Read(s) \/ Reopen(s) \/ StreamFails(s) \/ Unregistered(s) PROVE ChatInv'
  BY <1>2, ChatUntouched DEF Read, Reopen, StreamFails, Unregistered
<1>3. ASSUME NEW s \in Streams, Receive(s) PROVE ChatInv'
  BY <1>3, NobodyWaits DEF Receive
<1>4. ASSUME PongTimeout PROVE ChatInv'
  BY <1>4, ChatUntouched DEF PongTimeout
<1>5. ASSUME Ask \/ AskFails PROVE ChatInv'
  BY <1>5 DEF Ask, AskFails, ChatInv, OnlyStrayPressesMisfile, Meant
<1>6. ASSUME UNCHANGED vars PROVE ChatInv'
  BY <1>6, ChatUntouched DEF vars
<1>7. QED
  BY <1>1, <1>2, <1>3, <1>4, <1>5, <1>6, PressKeepsOrder, TakeUpdateKeepsOrder,
     DeliverKeepsOrder, UseAnswerKeepsOrder, RestartKeepsOrder DEF Next

(* An order is recorded for the fund the user chose for it, or nothing is  *)
(* recorded of it, unless the press that answered it was a stray one:      *)
(* chooseFundId takes whatever button comes next, and only the order of the*)
(* chat ties it to a prompt.  Neither faults nor earlier strays excuse it. *)
THEOREM StraysMisfile == Spec => []OnlyStrayPressesMisfile
<1>1. Init => ChatInv
  BY ChatInitially
<1>2. TypeOK /\ ChatInv /\ [Next]_vars => ChatInv'
  BY ChatKept
<1>3. ChatInv => OnlyStrayPressesMisfile
  BY DEF ChatInv
<1>4. QED
  BY <1>1, <1>2, <1>3, TypeCorrect, PTL DEF Spec

(***************************************************************************)
(* Places                                                                  *)
(***************************************************************************)
On(q, o) == \E i \in 1..Len(q) : q[i] = o
Distinct(q) == \A i, j \in 1..Len(q) : q[i] = q[j] => i = j

(* Where an execution is tells what has become of it, and the reverse.     *)
Placed ==
  /\ \A s \in Streams : Distinct(wire[s])
  /\ \A s \in Streams, o \in Orders : On(wire[s], o) <=> StreamOf[o] = s /\ fate[o] = "sent"
  /\ \A s \in Streams, o \in Orders : hand[s] = o <=> StreamOf[o] = s /\ fate[o] = "read"
  /\ \A o \in Orders : cur = o <=> fate[o] = "taken"

LEMMA OnAppended ==
  ASSUME NEW T, NEW q \in Seq(T), NEW x \in T
  PROVE  /\ \A o : On(Append(q, x), o) <=> On(q, o) \/ o = x
         /\ Distinct(q) /\ ~On(q, x) => Distinct(Append(q, x))
<1>1. /\ Len(q) \in Nat /\ Len(Append(q, x)) = Len(q) + 1
      /\ \A i \in 1..Len(q) : Append(q, x)[i] = q[i]
      /\ Append(q, x)[Len(q) + 1] = x
  BY AppendProperties, LenProperties
<1>2. \A i : i \in 1..(Len(q) + 1) <=> i \in 1..Len(q) \/ i = Len(q) + 1
  BY <1>1
<1>3. ASSUME NEW o PROVE On(Append(q, x), o) <=> On(q, o) \/ o = x
  BY <1>1, <1>2 DEF On
<1>4. ASSUME Distinct(q), ~On(q, x) PROVE Distinct(Append(q, x))
  BY <1>1, <1>2, <1>4 DEF On, Distinct
<1>5. QED
  BY <1>3, <1>4

LEMMA OnRest ==
  ASSUME NEW T, NEW q \in Seq(T), q # <<>>
  PROVE  /\ \A o : On(q, o) <=> On(Tail(q), o) \/ o = Head(q)
         /\ Distinct(q) => Distinct(Tail(q)) /\ ~On(Tail(q), Head(q))
<1>1. /\ Head(q) = q[1] /\ Len(q) \in Nat \ {0} /\ Len(Tail(q)) = Len(q) - 1
      /\ \A i \in 1..Len(Tail(q)) : Tail(q)[i] = q[i + 1]
  BY FirstAndRest
<1>2. \A i \in 1..Len(q) : i = 1 \/ (i - 1 \in 1..Len(Tail(q)) /\ Tail(q)[i - 1] = q[i])
  <2>1. ASSUME NEW i \in 1..Len(q), i # 1
        PROVE  i - 1 \in 1..Len(Tail(q)) /\ Tail(q)[i - 1] = q[i]
    <3>1. i - 1 \in 1..Len(Tail(q)) /\ (i - 1) + 1 = i
      BY <1>1, <2>1
    <3>2. QED
      BY <1>1, <3>1
  <2>2. QED
    BY <2>1
<1>3. \A i \in 1..Len(Tail(q)) : i + 1 \in 1..Len(q) /\ i + 1 # 1 /\ q[i + 1] = Tail(q)[i]
  BY <1>1
<1>4. 1 \in 1..Len(q)
  BY <1>1
<1>5. ASSUME NEW o PROVE On(q, o) <=> On(Tail(q), o) \/ o = Head(q)
  BY <1>1, <1>2, <1>3, <1>4 DEF On
<1>6. ASSUME Distinct(q) PROVE Distinct(Tail(q))
  <2>1. SUFFICES ASSUME NEW i \in 1..Len(Tail(q)), NEW j \in 1..Len(Tail(q)),
                        Tail(q)[i] = Tail(q)[j]
                 PROVE  i = j
    BY DEF Distinct
  <2>2. i + 1 = j + 1
    BY <1>3, <1>6, <2>1 DEF Distinct
  <2>3. QED
    BY <1>1, <2>2
<1>7. ASSUME Distinct(q) PROVE ~On(Tail(q), Head(q))
  BY <1>1, <1>3, <1>4, <1>7 DEF On, Distinct
<1>8. QED
  BY <1>5, <1>6, <1>7

LEMMA EmptyHasNone == Distinct(<<>>) /\ \A o : ~On(<<>>, o)
  BY EmptySeq DEF On, Distinct

LEMMA PlacedInitially == ASSUME Init PROVE Placed
  BY Constants, EmptyHasNone DEF Init, Placed

(* The parts of Placed about the streams and about the consumer.           *)
WirePlaced ==
  /\ \A s \in Streams : Distinct(wire[s])
  /\ \A s \in Streams, o \in Orders : On(wire[s], o) <=> StreamOf[o] = s /\ fate[o] = "sent"
HandPlaced == \A s \in Streams, o \in Orders : hand[s] = o <=> StreamOf[o] = s /\ fate[o] = "read"
CurPlaced == \A o \in Orders : cur = o <=> fate[o] = "taken"

LEMMA PlacedInParts == ASSUME WirePlaced', HandPlaced', CurPlaced' PROVE Placed'
  BY DEF Placed, WirePlaced, HandPlaced, CurPlaced

LEMMA ExecutePlaces == ASSUME TypeOK, Placed, NEW o \in Orders, Execute(o) PROVE Placed'
<1> DEFINE s == StreamOf[o]
<1>1. s \in Streams /\ wire[s] \in Seq(Orders) /\ fate \in [Orders -> Fates] /\ fate[o] = "placed"
  BY Constants DEF TypeOK, Execute
<1>2. hand' = hand /\ cur' = cur
  BY DEF Execute, consumer
<1>3. ASSUME NEW e \in {"lost", "sent"}, Ends({o}, e)
      PROVE  /\ HandPlaced' /\ CurPlaced'
             /\ fate'[o] = e /\ \A x \in Orders \ {o} : fate'[x] = fate[x]
  BY <1>1, <1>2, <1>3 DEF Ends, Placed, HandPlaced, CurPlaced
<1>4. CASE conn[s] = "backoff"
  <2>1. Ends({o}, "lost") /\ wire' = wire
    BY <1>4 DEF Execute
  <2>2. WirePlaced'
    BY <1>1, <1>3, <2>1 DEF Placed, WirePlaced
  <2>3. QED
    BY <1>3, <2>1, <2>2, PlacedInParts
<1>5. CASE conn[s] # "backoff"
  <2>1. Ends({o}, "sent") /\ wire' = [wire EXCEPT ![s] = Append(wire[s], o)]
    BY <1>5 DEF Execute
  <2>2. wire'[s] = Append(wire[s], o) /\ \A r \in Streams \ {s} : wire'[r] = wire[r]
    BY <1>1, <2>1 DEF TypeOK
  <2>3. ~On(wire[s], o)
    BY <1>1 DEF Placed
  <2>4. \A r \in Streams : Distinct(wire'[r])
    <3>1. Distinct(wire'[s])
      BY <1>1, <2>2, <2>3, OnAppended DEF Placed
    <3>2. QED
      BY <2>2, <3>1 DEF Placed
  <2>5. \A x \in Orders : On(wire'[s], x) <=> On(wire[s], x) \/ x = o
    BY <1>1, <2>2, OnAppended
  <2>6. WirePlaced'
    <3>1. ASSUME NEW r \in Streams, NEW x \in Orders
          PROVE  On(wire'[r], x) <=> StreamOf[x] = r /\ fate'[x] = "sent"
      BY <1>1, <1>3, <2>1, <2>2, <2>5 DEF Placed
    <3>2. QED
      BY <2>4, <3>1 DEF WirePlaced
  <2>7. QED
    BY <1>3, <2>1, <2>6, PlacedInParts
<1>6. QED
  BY <1>4, <1>5

LEMMA ReadPlaces == ASSUME TypeOK, Placed, NEW s \in Streams, Read(s) PROVE Placed'
<1> DEFINE x == Head(wire[s])
<1>1. wire[s] \in Seq(Orders) /\ wire[s] # <<>> /\ fate \in [Orders -> Fates] /\ hand[s] = None
      /\ hand \in [Streams -> Orders \cup {None}] /\ wire \in [Streams -> Seq(Orders)]
  BY DEF TypeOK, Read
<1>2. x \in Orders /\ On(wire[s], x) /\ Distinct(Tail(wire[s])) /\ ~On(Tail(wire[s]), x)
      /\ \A o : On(wire[s], o) <=> On(Tail(wire[s]), o) \/ o = x
  BY <1>1, FirstAndRest, OnRest DEF Placed
<1>3. StreamOf[x] = s /\ fate[x] = "sent"
  BY <1>2 DEF Placed
<1>4. /\ wire'[s] = Tail(wire[s]) /\ \A r \in Streams \ {s} : wire'[r] = wire[r]
      /\ hand'[s] = x /\ \A r \in Streams \ {s} : hand'[r] = hand[r]
      /\ fate'[x] = "read" /\ \A o \in Orders \ {x} : fate'[o] = fate[o]
      /\ cur' = cur
  BY <1>1, <1>2 DEF Read, Ends, consumer
<1>5. WirePlaced'
  <2>1. \A r \in Streams : Distinct(wire'[r])
    BY <1>2, <1>4 DEF Placed
  <2>2. ASSUME NEW r \in Streams, NEW o \in Orders
        PROVE  On(wire'[r], o) <=> StreamOf[o] = r /\ fate'[o] = "sent"
    BY <1>2, <1>3, <1>4 DEF Placed
  <2>3. QED
    BY <2>1, <2>2 DEF WirePlaced
<1>6. HandPlaced'
  <2>1. ASSUME NEW r \in Streams, NEW o \in Orders
        PROVE  hand'[r] = o <=> StreamOf[o] = r /\ fate'[o] = "read"
    BY <1>1, <1>2, <1>3, <1>4, Constants DEF Placed
  <2>2. QED
    BY <2>1 DEF HandPlaced
<1>7. CurPlaced'
  BY <1>3, <1>4 DEF Placed, CurPlaced
<1>8. QED
  BY <1>5, <1>6, <1>7, PlacedInParts

LEMMA FailPlaces == ASSUME TypeOK, Placed, NEW s \in Streams, StreamFails(s) PROVE Placed'
<1>1. wire \in [Streams -> Seq(Orders)] /\ fate \in [Orders -> Fates] /\ Len(wire[s]) \in Nat
      /\ DOMAIN wire[s] = 1..Len(wire[s])
  BY LenProperties DEF TypeOK
<1>2. /\ wire'[s] = <<>> /\ \A r \in Streams \ {s} : wire'[r] = wire[r]
      /\ UNCHANGED <<hand, cur>>
      /\ \A o \in Orders : fate'[o] = IF On(wire[s], o) THEN "lost" ELSE fate[o]
  <2>1. \A o \in Orders : o \in {wire[s][i] : i \in DOMAIN wire[s]} <=> On(wire[s], o)
    BY <1>1 DEF On
  <2>2. QED
    BY <1>1, <2>1 DEF StreamFails, Ends, consumer
<1>3. WirePlaced' /\ HandPlaced' /\ CurPlaced'
  BY <1>2, EmptyHasNone DEF Placed, WirePlaced, HandPlaced, CurPlaced
<1>4. QED
  BY <1>3, PlacedInParts

(* An order leaves the hand of its producer.                               *)
LEMMA HandoverPlaces ==
  ASSUME TypeOK, Placed, NEW s \in Streams, Receive(s) \/ Unregistered(s)
  PROVE  Placed'
<1> DEFINE x == hand[s]
<1>1. x \in Orders /\ StreamOf[x] = s /\ fate[x] = "read"
  BY Constants DEF Receive, Unregistered, Placed, TypeOK
<1>2. /\ UNCHANGED wire
      /\ hand'[s] = None /\ \A r \in Streams \ {s} : hand'[r] = hand[r]
      /\ \A o \in Orders \ {x} : fate'[o] = fate[o]
  BY DEF Receive, Unregistered, Ends, TypeOK
<1>3. \/ fate'[x] = "taken" /\ cur = None /\ cur' = x
      \/ fate'[x] = "unregistered" /\ cur' = cur
  BY <1>1 DEF Receive, Unregistered, Ends, TypeOK, consumer
<1>4. WirePlaced'
  BY <1>1, <1>2, <1>3 DEF Placed, WirePlaced
<1>5. HandPlaced'
  BY <1>1, <1>2, <1>3, Constants DEF Placed, HandPlaced
<1>6. CurPlaced'
  <2>1. \A o \in Orders : o # None
    BY Constants
  <2>2. QED
    BY <1>1, <1>2, <1>3, <2>1 DEF Placed, CurPlaced
<1>7. QED
  BY <1>4, <1>5, <1>6, PlacedInParts

(* The consumer is done with an order.                                     *)
LEMMA EndPlaces == ASSUME TypeOK, Placed, AskFails \/ UseAnswer PROVE Placed'
<1>1. cur \in Orders /\ fate[cur] = "taken"
  BY DEF AskFails, UseAnswer, TypeOK, Placed
<1>2. /\ UNCHANGED <<wire, hand>> /\ cur' = None
      /\ fate'[cur] \in {"failed", "declined", "recorded"}
      /\ \A o \in Orders \ {cur} : fate'[o] = fate[o]
  BY <1>1 DEF AskFails, UseAnswer, Ends, streams
<1>3. WirePlaced' /\ HandPlaced'
  BY <1>1, <1>2 DEF Placed, WirePlaced, HandPlaced
<1>4. CurPlaced'
  BY <1>1, <1>2, Constants DEF Placed, CurPlaced
<1>5. QED
  BY <1>3, <1>4, PlacedInParts

LEMMA RestartPlaces == ASSUME TypeOK, Placed, Restart PROVE Placed'
<1>1. /\ \A s \in Streams : wire'[s] = <<>> /\ hand'[s] = None
      /\ cur' = None
      /\ \A o \in Orders : fate'[o] \notin {"sent", "read", "taken"}
  BY DEF Restart
<1>2. WirePlaced' /\ HandPlaced' /\ CurPlaced'
  BY <1>1, EmptyHasNone, Constants DEF WirePlaced, HandPlaced, CurPlaced
<1>3. QED
  BY <1>2, PlacedInParts

LEMMA PlacedKept == ASSUME TypeOK, Placed, [Next]_vars PROVE Placed'
<1>1. ASSUME UNCHANGED <<wire, hand, cur, fate>> PROVE Placed'
  BY <1>1 DEF Placed
<1>2. ASSUME NEW s \in Streams, Reopen(s) PROVE Placed'
  BY <1>1, <1>2 DEF Reopen, consumer
<1>3. ASSUME PongTimeout \/ Ask \/ TakeUpdate \/ Deliver PROVE Placed'
  BY <1>1, <1>3 DEF PongTimeout, Ask, TakeUpdate, Deliver, streams, consumer
<1>4. ASSUME NEW o \in Orders, NEW a \in Answers, Press(o, a) PROVE Placed'
  BY <1>1, <1>4 DEF Press, streams, consumer
<1>5. ASSUME UNCHANGED vars PROVE Placed'
  BY <1>1, <1>5 DEF vars, streams, consumer
<1>6. QED
  BY <1>2, <1>3, <1>4, <1>5, ExecutePlaces, ReadPlaces, FailPlaces, HandoverPlaces,
     EndPlaces, RestartPlaces DEF Next

LEMMA AlwaysPlaced == Spec => []Placed
<1>1. Init => Placed
  BY PlacedInitially
<1>2. TypeOK /\ Placed /\ [Next]_vars => Placed'
  BY PlacedKept
<1>3. QED
  BY <1>1, <1>2, TypeCorrect, PTL DEF Spec

LEMMA PlacesCount ==
  ASSUME TypeOK, Placed, NEW o \in Orders
  PROVE  Places(o) = IF fate[o] \in {"sent", "read", "taken"} THEN 1 ELSE 0
<1> DEFINE r == StreamOf[o]
           H == {s \in Streams : hand[s] = o} \cup {c \in {"consumer"} : cur = o}
           W == {i \in DOMAIN wire[r] : wire[r][i] = o}
<1>1. r \in Streams /\ DOMAIN wire[r] = 1..Len(wire[r])
  BY Constants, LenProperties DEF TypeOK
<1>2. H = IF fate[o] = "read" THEN {r} ELSE IF fate[o] = "taken" THEN {"consumer"} ELSE {}
  BY <1>1 DEF Placed
<1>3. fate[o] # "sent" => W = {}
  BY <1>1 DEF Placed, On
<1>4. fate[o] = "sent" => \E i : W = {i}
  <2>1. SUFFICES ASSUME fate[o] = "sent" PROVE \E i : W = {i}
    OBVIOUS
  <2>2. PICK i \in 1..Len(wire[r]) : wire[r][i] = o
    BY <1>1, <2>1 DEF Placed, On
  <2>3. W = {i}
    BY <1>1, <2>2 DEF Placed, Distinct
  <2>4. QED
    BY <2>3
<1>5. Cardinality({}) = 0 /\ \A e : Cardinality({e}) = 1
  BY FS_EmptySet, FS_Singleton
<1>6. Cardinality(H) = IF fate[o] \in {"read", "taken"} THEN 1 ELSE 0
  BY <1>2, <1>5
<1>7. Cardinality(W) = IF fate[o] = "sent" THEN 1 ELSE 0
  BY <1>3, <1>4, <1>5
<1>8. Places(o) = Cardinality(H) + Cardinality(W)
  BY DEF Places
<1>9. QED
  BY <1>6, <1>7, <1>8

(* Read, handed over or worked on: an execution is at exactly one place of *)
(* the pipeline from the exchange to its record, and at none before and    *)
(* after, so that nothing is recorded twice.                               *)
THEOREM OnePlaceOnly == Spec => []OnePlace
<1>1. TypeOK /\ Placed => OnePlace
  BY PlacesCount DEF OnePlace
<1>2. QED
  BY <1>1, TypeCorrect, AlwaysPlaced, PTL

(***************************************************************************)
(* Feeds                                                                   *)
(***************************************************************************)

(* What the two streams are shown to be, for any of them.                  *)
Feed(s) == INSTANCE OrderFeed WITH
  Orders <- OrdersOf(s),
  open <- conn[s] # "backoff", pending <- Pending(s), fate <- Fate(s)

FeedStep(s) == Feed(s)!Next \/ UNCHANGED <<conn[s] # "backoff", Pending(s), Fate(s)>>

LEMMA PendingSeq ==
  ASSUME NEW q \in Seq(Orders), NEW x \in Orders
  PROVE  /\ <<>> \o q = q
         /\ <<x>> \o q \in Seq(Orders) /\ <<x>> \o q # <<>>
         /\ Head(<<x>> \o q) = x /\ Tail(<<x>> \o q) = q
         /\ \A o \in Orders : Append(<<x>> \o q, o) = <<x>> \o Append(q, o)
         /\ \A o : On(<<x>> \o q, o) <=> o = x \/ On(q, o)
<1>1. <<x>> \in Seq(Orders) /\ Len(<<x>>) = 1 /\ <<x>>[1] = x
  OBVIOUS
<1> DEFINE p == <<x>> \o q
<1>2. p \in Seq(Orders) /\ Len(p) = Len(q) + 1 /\ p[1] = x /\ Len(q) \in Nat
  BY <1>1, ConcatProperties, LenProperties
<1>3. p # <<>>
  BY <1>2, EmptySeq
<1>4. Head(p) = x /\ Tail(p) \in Seq(Orders) /\ Len(Tail(p)) = Len(q)
  BY <1>2, <1>3, FirstAndRest
<1>5. \A i \in 1..Len(q) : Tail(p)[i] = q[i]
  <2>1. ASSUME NEW i \in 1..Len(q) PROVE Tail(p)[i] = q[i]
    <3>1. Tail(p)[i] = p[i + 1]
      BY <1>2, <1>3, <1>4, FirstAndRest
    <3>2. p[i + 1] = q[i]
      BY <1>1, <1>2, ConcatProperties
    <3>3. QED
      BY <3>1, <3>2
  <2>2. QED
    BY <2>1
<1>6. Tail(p) = q
  BY <1>4, <1>5, SeqEqual
<1>7. \A o \in Orders : Append(p, o) = <<x>> \o Append(q, o)
  <2>1. ASSUME NEW o \in Orders PROVE Append(p, o) = <<x>> \o Append(q, o)
    <3>1. <<o>> \in Seq(Orders)
      OBVIOUS
    <3>2. Append(p, o) = p \o <<o>> /\ Append(q, o) = q \o <<o>>
      BY <1>2, AppendIsConcat
    <3>3. QED
      BY <1>1, <3>1, <3>2, ConcatAssociative
  <2>2. QED
    BY <2>1
<1>8. ASSUME NEW o PROVE On(p, o) <=> o = x \/ On(q, o)
  <2>1. On(p, o) <=> On(Tail(p), o) \/ o = Head(p)
    BY <1>2, <1>3, OnRest
  <2>2. QED
    BY <1>4, <1>6, <2>1
<1>9. QED
  BY <1>2, <1>3, <1>4, <1>6, <1>7, <1>8, ConcatEmptySeq

LEMMA HeadThenTail ==
  ASSUME NEW q \in Seq(Orders), q # <<>>
  PROVE  q = <<Head(q)>> \o Tail(q)
<1>2. /\ Head(q) \in Orders /\ Tail(q) \in Seq(Orders) /\ Head(q) = q[1]
      /\ Len(q) \in Nat \ {0} /\ Len(Tail(q)) = Len(q) - 1
      /\ \A i \in 1..Len(Tail(q)) : Tail(q)[i] = q[i + 1]
  BY FirstAndRest
<1>3. <<Head(q)>> \in Seq(Orders) /\ Len(<<Head(q)>>) = 1 /\ <<Head(q)>>[1] = Head(q)
  BY <1>2
<1> DEFINE p == <<Head(q)>> \o Tail(q)
<1>4. /\ p \in Seq(Orders) /\ Len(p) = 1 + Len(Tail(q))
      /\ \A i \in 1 .. 1 + Len(Tail(q)) : p[i] = IF i <= 1 THEN <<Head(q)>>[i] ELSE Tail(q)[i - 1]
  BY <1>2, <1>3, ConcatProperties
<1>5. \A i \in 1..Len(q) : q[i] = p[i]
  <2>1. ASSUME NEW i \in 1..Len(q), i # 1 PROVE q[i] = p[i]
    <3>1. i - 1 \in 1..Len(Tail(q)) /\ (i - 1) + 1 = i /\ i \in 1 .. 1 + Len(Tail(q)) /\ ~(i <= 1)
      BY <1>2, <2>1
    <3>2. QED
      BY <1>2, <1>4, <3>1
  <2>2. q[1] = p[1]
    BY <1>2, <1>3, <1>4
  <2>3. QED
    BY <2>1, <2>2
<1>6. QED
  BY <1>2, <1>4, <1>5, SeqEqual

(* What is pending at a stream: its hand, if any, before its wire.         *)
LEMMA PendingFacts ==
  ASSUME TypeOK, Placed, NEW s \in Streams
  PROVE  /\ hand[s] \in Orders \cup {None} /\ wire[s] \in Seq(Orders)
         /\ hand[s] = None => Pending(s) = wire[s]
         /\ hand[s] # None => /\ Pending(s) = <<hand[s]>> \o wire[s] /\ Pending(s) # <<>>
                              /\ Head(Pending(s)) = hand[s] /\ Tail(Pending(s)) = wire[s]
         /\ Pending(s) \in Seq(Orders) /\ Len(Pending(s)) \in Nat
         /\ \A o \in Orders : On(Pending(s), o) <=> StreamOf[o] = s /\ fate[o] \in {"sent", "read"}
<1>1. hand[s] \in Orders \cup {None} /\ wire[s] \in Seq(Orders)
  BY DEF TypeOK
<1>2. hand[s] = None => Pending(s) = wire[s]
  BY <1>1, ConcatEmptySeq DEF Pending
<1>3. hand[s] # None => /\ Pending(s) = <<hand[s]>> \o wire[s] /\ Pending(s) # <<>>
                        /\ Head(Pending(s)) = hand[s] /\ Tail(Pending(s)) = wire[s]
                        /\ Pending(s) \in Seq(Orders)
                        /\ \A o : On(Pending(s), o) <=> o = hand[s] \/ On(wire[s], o)
  BY <1>1, PendingSeq DEF Pending
<1>4. Pending(s) \in Seq(Orders)
  BY <1>1, <1>2, <1>3
<1>5. ASSUME NEW o \in Orders
      PROVE  On(Pending(s), o) <=> StreamOf[o] = s /\ fate[o] \in {"sent", "read"}
  <2>1. On(Pending(s), o) <=> hand[s] = o \/ On(wire[s], o)
    BY <1>2, <1>3, Constants
  <2>2. QED
    BY <2>1 DEF Placed
<1>6. QED
  BY <1>1, <1>2, <1>3, <1>4, <1>5, LenProperties

(* Orders of a stream whose fate is the same for the feed.                 *)
LEMMA FateSame ==
  ASSUME NEW s,
         \A o \in OrdersOf(s) : \/ fate'[o] = fate[o]
                                \/ fate[o] = "sent" /\ fate'[o] = "read"
                                \/ fate[o] = "taken" /\ fate'[o] \in {"failed", "declined", "recorded"}
  PROVE  Fate(s)' = Fate(s)
  BY DEF Fate, OrdersOf

(* Whatever does not touch a stream is no step of its feed.                *)
LEMMA FeedRests ==
  ASSUME NEW s \in Streams, UNCHANGED <<wire[s], hand[s]>>,
         (conn[s] # "backoff") <=> (conn'[s] # "backoff"),
         \A o \in OrdersOf(s) : \/ fate'[o] = fate[o]
                                \/ fate[o] = "taken" /\ fate'[o] \in {"failed", "declined", "recorded"}
  PROVE  FeedStep(s)
<1>1. Fate(s)' = Fate(s)
  BY FateSame
<1>2. Pending(s)' = Pending(s)
  BY DEF Pending
<1>3. QED
  BY <1>1, <1>2 DEF FeedStep

LEMMA ExecuteFeeds ==
  ASSUME TypeOK, Placed, NEW o \in Orders, Execute(o), NEW s \in Streams
  PROVE  FeedStep(s)
<1>1. wire \in [Streams -> Seq(Orders)] /\ fate \in [Orders -> Fates] /\ StreamOf[o] \in Streams
  BY Constants DEF TypeOK
<1>2. CASE s # StreamOf[o]
  <2>1. UNCHANGED <<wire[s], hand[s], conn[s]>>
    BY <1>1, <1>2 DEF Execute
  <2>2. \A x \in OrdersOf(s) : fate'[x] = fate[x]
    BY <1>1, <1>2 DEF Execute, Ends, OrdersOf
  <2>3. QED
    BY <2>1, <2>2, FeedRests
<1>3. CASE s = StreamOf[o]
  <2>1. o \in OrdersOf(s) /\ Fate(s)[o] = "placed" /\ UNCHANGED <<conn, hand>>
    BY <1>3 DEF OrdersOf, Fate, Execute
  <2>2. CASE conn[s] = "backoff"
    <3>1. Fate(s)' = [Fate(s) EXCEPT ![o] = "lost"]
      BY <1>1, <1>3, <2>2 DEF Execute, Ends, Fate, OrdersOf
    <3>2. Pending(s)' = Pending(s)
      BY <1>3, <2>2 DEF Execute, Pending
    <3>3. Feed(s)!Execute(o)
      BY <2>1, <2>2, <3>1, <3>2 DEF Feed!Execute
    <3>4. QED
      BY <2>1, <3>3 DEF FeedStep, Feed!Next
  <2>3. CASE conn[s] # "backoff"
    <3>1. Fate(s)' = [Fate(s) EXCEPT ![o] = "pending"]
      BY <1>1, <1>3, <2>3 DEF Execute, Ends, Fate, OrdersOf
    <3>2. wire'[s] = Append(wire[s], o) /\ Append(wire[s], o) \in Seq(Orders)
      BY <1>1, <1>3, <2>3, AppendProperties DEF Execute
    <3>3. Pending(s)' = Append(Pending(s), o)
      <4>1. CASE hand[s] = None
        BY <2>1, <3>2, <4>1, PendingFacts, ConcatEmptySeq DEF Pending
      <4>2. CASE hand[s] # None
        <5>1. Append(<<hand[s]>> \o wire[s], o) = <<hand[s]>> \o Append(wire[s], o)
          BY <4>2, PendingFacts, PendingSeq
        <5>2. QED
          BY <2>1, <3>2, <4>2, <5>1 DEF Pending
      <4>3. QED
        BY <4>1, <4>2
    <3>4. Feed(s)!Execute(o)
      BY <2>1, <2>3, <3>1, <3>3 DEF Feed!Execute
    <3>5. QED
      BY <2>1, <3>4 DEF FeedStep, Feed!Next
  <2>4. QED
    BY <2>2, <2>3
<1>4. QED
  BY <1>2, <1>3

LEMMA ReadFeeds ==
  ASSUME TypeOK, Placed, NEW r \in Streams, Read(r), NEW s \in Streams
  PROVE  FeedStep(s)
<1> DEFINE x == Head(wire[r])
<1>1. /\ wire \in [Streams -> Seq(Orders)] /\ fate \in [Orders -> Fates] /\ hand \in [Streams -> Orders \cup {None}]
      /\ wire[r] \in Seq(Orders) /\ wire[r] # <<>> /\ hand[r] = None /\ conn' = conn
  BY DEF TypeOK, Read
<1>2. x \in Orders /\ StreamOf[x] = r /\ fate[x] = "sent"
  <2>1. x \in Orders /\ On(wire[r], x)
    BY <1>1, FirstAndRest, OnRest
  <2>2. QED
    BY <2>1 DEF Placed
<1>3. fate'[x] = "read" /\ \A o \in Orders \ {x} : fate'[o] = fate[o]
  BY <1>1, <1>2 DEF Read, Ends
<1>4. Fate(s)' = Fate(s)
  <2>1. \A o \in OrdersOf(s) : fate'[o] = fate[o] \/ (fate[o] = "sent" /\ fate'[o] = "read")
    BY <1>2, <1>3 DEF OrdersOf
  <2>2. QED
    BY <2>1, FateSame
<1>5. Pending(s)' = Pending(s)
  <2>1. CASE s # r
    BY <1>1, <2>1 DEF Read, Pending
  <2>2. CASE s = r
    <3>1. hand'[s] = x /\ wire'[s] = Tail(wire[s])
      BY <1>1, <2>2 DEF Read
    <3>2. x # None
      BY <1>2, Constants
    <3>3. wire[s] = <<x>> \o Tail(wire[s])
      BY <1>1, <2>2, HeadThenTail
    <3>4. QED
      BY <1>1, <2>2, <3>1, <3>2, <3>3, PendingFacts DEF Pending
  <2>3. QED
    BY <2>1, <2>2
<1>6. QED
  BY <1>1, <1>4, <1>5 DEF FeedStep

LEMMA FailFeeds ==
  ASSUME TypeOK, Placed, NEW r \in Streams, StreamFails(r), NEW s \in Streams
  PROVE  FeedStep(s)
<1>1. /\ wire \in [Streams -> Seq(Orders)] /\ fate \in [Orders -> Fates] /\ conn \in [Streams -> {"open", "late", "backoff"}]
      /\ hand' = hand /\ hand[r] = None /\ Len(wire[r]) \in Nat /\ DOMAIN wire[r] = 1..Len(wire[r])
  BY LenProperties DEF TypeOK, StreamFails
<1>2. \A o \in Orders : fate'[o] = IF On(wire[r], o) THEN "lost" ELSE fate[o]
  BY <1>1 DEF StreamFails, Ends, On
<1>3. CASE s # r
  <2>1. UNCHANGED <<wire[s], hand[s], conn[s]>>
    BY <1>1, <1>3 DEF StreamFails
  <2>2. \A o \in OrdersOf(s) : fate'[o] = fate[o]
    BY <1>2, <1>3 DEF OrdersOf, Placed
  <2>3. QED
    BY <2>1, <2>2, FeedRests
<1>4. CASE s = r
  <2>1. Pending(s) = wire[s] /\ wire'[s] = <<>> /\ Pending(s)' = <<>>
    BY <1>1, <1>4, PendingFacts, ConcatEmptySeq, EmptySeq DEF StreamFails, Pending
  <2>2. SubSeq(Pending(s), 1, 0) = <<>>
    BY SubSeqEmpty
  <2>3. Fate(s)' = [o \in OrdersOf(s) |->
                      IF \E i \in 0 + 1 .. Len(Pending(s)) : Pending(s)[i] = o THEN "lost" ELSE Fate(s)[o]]
    BY <1>2, <1>4, <2>1 DEF Fate, OrdersOf, On, Placed
  <2>4. Feed(s)!Keep(0)
    BY <2>1, <2>2, <2>3 DEF Feed!Keep
  <2>5. Feed(s)!Close
    BY <1>1, <1>4, <2>1, <2>4 DEF Feed!Close, StreamFails
  <2>6. QED
    BY <2>5 DEF FeedStep, Feed!Next
<1>5. QED
  BY <1>3, <1>4

LEMMA HandoverFeeds ==
  ASSUME TypeOK, Placed, NEW r \in Streams, Receive(r) \/ Unregistered(r), NEW s \in Streams
  PROVE  FeedStep(s)
<1> DEFINE x == hand[r]
<1>1. x \in Orders /\ x # None /\ StreamOf[x] = r /\ fate[x] = "read"
  BY Constants DEF Receive, Unregistered, Placed, TypeOK
<1>2. /\ UNCHANGED <<wire, conn>> /\ fate \in [Orders -> Fates]
      /\ hand'[r] = None /\ \A q \in Streams \ {r} : hand'[q] = hand[q]
      /\ fate' \in {[o \in Orders |-> IF o \in {x} THEN e ELSE fate[o]] : e \in {"taken", "unregistered"}}
  BY DEF Receive, Unregistered, Ends, TypeOK
<1>3. CASE s # r
  BY <1>1, <1>2, <1>3, FeedRests DEF OrdersOf
<1>4. CASE s = r
  <2>1. Pending(s) # <<>> /\ Head(Pending(s)) = x /\ Tail(Pending(s)) = wire[s] /\ wire[s] \in Seq(Orders)
    BY <1>1, <1>4, PendingFacts
  <2>2. Pending(s)' = Tail(Pending(s))
    BY <1>2, <1>4, <2>1, ConcatEmptySeq DEF Pending
  <2>3. Fate(s)' = [Fate(s) EXCEPT ![x] = "given"]
    BY <1>1, <1>2, <1>4 DEF Fate, OrdersOf
  <2>4. Feed(s)!Give
    BY <1>2, <1>4, <2>1, <2>2, <2>3 DEF Feed!Give
  <2>5. QED
    BY <2>4 DEF FeedStep, Feed!Next
<1>5. QED
  BY <1>3, <1>4

LEMMA RestartFeeds == ASSUME TypeOK, Placed, Restart, NEW s \in Streams PROVE FeedStep(s)
<1>1. /\ conn'[s] = "backoff" /\ wire'[s] = <<>> /\ hand'[s] = None
      /\ \A o \in Orders : fate'[o] = IF fate[o] \in {"sent", "read"} THEN "lost"
                                      ELSE IF fate[o] = "taken" THEN "dropped" ELSE fate[o]
  BY DEF Restart
<1>2. Pending(s)' = <<>>
  BY <1>1, EmptySeq, ConcatEmptySeq DEF Pending
<1>3. SubSeq(Pending(s), 1, 0) = <<>>
  BY SubSeqEmpty
<1>4. \A o \in OrdersOf(s) : (\E i \in 0 + 1 .. Len(Pending(s)) : Pending(s)[i] = o)
                               <=> fate[o] \in {"sent", "read"}
  <2>1. \A o \in OrdersOf(s) : On(Pending(s), o) <=> fate[o] \in {"sent", "read"}
    BY PendingFacts DEF OrdersOf
  <2>2. 0 + 1 = 1
    OBVIOUS
  <2>3. QED
    BY <2>1, <2>2 DEF On
<1>5. Fate(s)' = [o \in OrdersOf(s) |->
                    IF \E i \in 0 + 1 .. Len(Pending(s)) : Pending(s)[i] = o THEN "lost" ELSE Fate(s)[o]]
  BY <1>1, <1>4 DEF Fate, OrdersOf
<1>6. Feed(s)!Keep(0) /\ 0 \in 0..Len(Pending(s))
  BY <1>2, <1>3, <1>5, PendingFacts DEF Feed!Keep
<1>7. Feed(s)!Close \/ Feed(s)!Forget
  BY <1>1, <1>6 DEF Feed!Close, Feed!Forget
<1>8. QED
  BY <1>7 DEF FeedStep, Feed!Next

LEMMA StepsFeed == ASSUME TypeOK, Placed, [Next]_vars, NEW s \in Streams PROVE FeedStep(s)
<1>1. ASSUME UNCHANGED <<conn, wire, hand, fate>> PROVE FeedStep(s)
  BY <1>1, FeedRests
<1>2. ASSUME NEW r \in Streams, Reopen(r) PROVE FeedStep(s)
  <2>1. /\ UNCHANGED <<wire, hand, fate>> /\ conn \in [Streams -> {"open", "late", "backoff"}]
        /\ conn[r] = "backoff" /\ conn' = [conn EXCEPT ![r] = "open"]
    BY <1>2 DEF Reopen, TypeOK
  <2>2. CASE s # r
    BY <2>1, <2>2, FeedRests
  <2>3. CASE s = r
    <3>1. Fate(s)' = Fate(s) /\ Pending(s)' = Pending(s)
      BY <2>1 DEF Fate, Pending
    <3>2. Feed(s)!Open
      BY <2>1, <2>3, <3>1 DEF Feed!Open
    <3>3. QED
      BY <3>2 DEF FeedStep, Feed!Next
  <2>4. QED
    BY <2>2, <2>3
<1>3. ASSUME PongTimeout PROVE FeedStep(s)
  BY <1>3, FeedRests DEF PongTimeout, TypeOK
<1>4. ASSUME Ask \/ TakeUpdate \/ Deliver PROVE FeedStep(s)
  BY <1>1, <1>4 DEF Ask, TakeUpdate, Deliver, streams
<1>5. ASSUME NEW o \in Orders, NEW a \in Answers, Press(o, a) PROVE FeedStep(s)
  BY <1>1, <1>5 DEF Press, streams
<1>6. ASSUME AskFails \/ UseAnswer PROVE FeedStep(s)
  <2>1. cur \in Orders /\ fate[cur] = "taken" /\ UNCHANGED <<conn, wire, hand>>
    BY <1>6 DEF AskFails, UseAnswer, TypeOK, Placed, streams
  <2>2. \A o \in Orders : fate'[o] = fate[o] \/ (o = cur /\ fate'[o] \in {"failed", "declined", "recorded"})
    BY <1>6, <2>1 DEF AskFails, UseAnswer, Ends
  <2>3. QED
    BY <2>1, <2>2, FeedRests DEF OrdersOf
<1>7. ASSUME UNCHANGED vars PROVE FeedStep(s)
  BY <1>1, <1>7 DEF vars, streams
<1>8. QED
  BY <1>2, <1>3, <1>4, <1>5, <1>6, <1>7, ExecuteFeeds, ReadFeeds, FailFeeds, HandoverFeeds,
     RestartFeeds DEF Next

(* Each stream hands its executions over in the order they happened, each  *)
(* once, and loses them only when its connection does: the callback that   *)
(* blocks on oc keeps the order of the wire (subscribeLoop, oc).           *)
THEOREM StreamsFeed == Spec => StreamsAreFeeds
<1>1. Init => CoinStream!Init /\ StockStreams!Init
  BY Constants, ConcatEmptySeq, EmptySeq
     DEF Init, CoinStream!Init, StockStreams!Init, Pending, Fate, OrdersOf
<1>2. TypeOK /\ Placed /\ [Next]_vars
        => [CoinStream!Next]_<<conn[Coin] # "backoff", Pending(Coin), Fate(Coin)>>
  BY StepsFeed, Constants DEF FeedStep, Feed!Next, Feed!Execute, Feed!Give, Feed!Open, Feed!Close,
     Feed!Forget, Feed!Keep, CoinStream!Next, CoinStream!Execute, CoinStream!Give, CoinStream!Open,
     CoinStream!Close, CoinStream!Forget, CoinStream!Keep
<1>3. TypeOK /\ Placed /\ [Next]_vars
        => [StockStreams!Next]_<<conn[Stock] # "backoff", Pending(Stock), Fate(Stock)>>
  BY StepsFeed, Constants DEF FeedStep, Feed!Next, Feed!Execute, Feed!Give, Feed!Open, Feed!Close,
     Feed!Forget, Feed!Keep, StockStreams!Next, StockStreams!Execute, StockStreams!Give, StockStreams!Open,
     StockStreams!Close, StockStreams!Forget, StockStreams!Keep
<1>4. QED
  BY <1>1, <1>2, <1>3, TypeCorrect, AlwaysPlaced, PTL
     DEF Spec, StreamsAreFeeds, CoinStream!Spec, StockStreams!Spec
=============================================================================
