------------------------- MODULE EnrolledEventProofs -------------------------
(***************************************************************************)
(* What the event that announces airdrops keeps, for any number of events, *)
(* requests, runs, notices and faults: first its switch (EventSwitch), of  *)
(* any number of events; then what its runs tell (Notices); then the two   *)
(* together (EnrolledEvent), which each part allows.                       *)
(*                                                                         *)
(* StatusIsKept speaks of events no request is switching.  To carry it     *)
(* over a request, Kept says where the three statuses of an event are      *)
(* while its only request is between memory and table.                     *)
(***************************************************************************)
EXTENDS EnrolledEvent, FiniteSetTheorems, TLAPS

(* The switch                                                              *)

KeptOf(e) ==
  /\ \/ stored[e] = asked[e]
     \/ stored[e] = NoRow /\ asked[e] /\ (e \notin loaded \ unread \/ Switching(e) # {})
  /\ Switching(e) = {} /\ e \in loaded \ unread => active[e] = asked[e]
  /\ Switching(e) = {} /\ e \in unread => (active[e] => asked[e])
  /\ \A r \in Switching(e) : Switching(e) = {r} /\ active[e] = status[r]

(* Only a started server leaves rows unread, and not those of an event that*)
(* was switched since.                                                     *)
UnreadOK ==
  /\ unread \subseteq loaded
  /\ \A r \in Requests : pc[r] = "store" => event[r] \notin unread

Kept == UnreadOK /\ \A e \in Events \ doubtful : KeptOf(e)

(* The initial state is well typed, and nothing is in doubt or switched.   *)
LEMMA InitKept == Init => TypeOK /\ Kept /\ NotRunWhenOff
<1> SUFFICES ASSUME Init PROVE TypeOK /\ Kept /\ NotRunWhenOff
  OBVIOUS
<1>1. TypeOK
  BY DEF Init, TypeOK
<1>2. ASSUME NEW e \in Events
      PROVE  KeptOf(e)
  <2>1. stored[e] \in BOOLEAN \cup {NoRow} /\ asked[e] = (stored[e] # FALSE)
    BY DEF Init
  <2>2. stored[e] = asked[e] \/ (stored[e] = NoRow /\ asked[e])
    BY <2>1, SwitchAssumption
  <2>3. loaded = {} /\ unread = {} /\ Switching(e) = {}
    BY DEF Init, Switching
  <2>4. QED
    BY <2>2, <2>3 DEF KeptOf
<1>3. QED
  BY <1>1, <1>2 DEF Init, Kept, UnreadOK, NotRunWhenOff

(* Every step keeps the types.                                             *)
LEMMA TypeNext ==
  ASSUME TypeOK, [Next]_vars
  PROVE  TypeOK'
<1>1. ASSUME NEW e \in Events, Load(e) \/ LoadFails(e)
      PROVE  TypeOK'
  <2>1. ~Up /\ UNCHANGED <<runs, request>>
    BY <1>1 DEF Load, LoadFails, Up
  <2>2. (\A f \in Events : runs'[f] = 0) /\ (\A r \in Requests : pc'[r] = "idle")
    BY <2>1 DEF TypeOK, request
  <2>3. CASE Load(e)
    BY <2>1, <2>2, <2>3 DEF Load, ghosts, request, TypeOK
  <2>4. CASE LoadFails(e)
    BY <2>1, <2>2, <2>4 DEF LoadFails, Fault, request, TypeOK
  <2>5. QED
    BY <1>1, <2>3, <2>4
<1>2. ASSUME NEW e \in Events, Launch(e)
      PROVE  TypeOK'
  BY <1>2 DEF Launch, request, TypeOK, Up
<1>3. ASSUME NEW e \in Events, Finish(e)
      PROVE  TypeOK'
  BY <1>3 DEF Finish, request, ghosts, TypeOK, Up
<1>4. ASSUME NEW r \in Requests, Store(r) \/ StoreFails(r)
      PROVE  TypeOK'
  BY <1>4 DEF Store, StoreFails, Fault, memory, TypeOK, Up
<1>5. ASSUME NEW r \in Requests, NEW e \in Events, NEW b \in BOOLEAN, Switch(r, e, b)
      PROVE  TypeOK'
  BY <1>5 DEF Switch, TypeOK, Up
<1>6. CASE Crash
  <2>1. /\ loaded' = {} /\ active' \in [Events -> BOOLEAN] /\ faults' \in Nat
        /\ runs' \in [Events -> Nat] /\ \A e \in Events : runs'[e] = 0
        /\ pc' \in [Requests -> {"idle", "store"}] /\ \A r \in Requests : pc'[r] = "idle"
    BY <1>6 DEF Crash, Fault, TypeOK
  <2>2. UNCHANGED <<stored, event, status, asked, doubtful, wronged>> /\ unread' = {}
    BY <1>6 DEF Crash
  <2>3. QED
    BY <2>1, <2>2 DEF TypeOK
<1>7. CASE UNCHANGED vars
  BY <1>7 DEF vars, memory, request, ghosts, TypeOK, Up
<1>8. QED
  BY <1>1, <1>2, <1>3, <1>4, <1>5, <1>6, <1>7 DEF Next

(* Every step keeps the statuses of the events that are not in doubt.      *)
LEMMA KeptNext ==
  ASSUME TypeOK, Kept, [Next]_vars
  PROVE  Kept'
<1>1. ASSUME NEW e \in Events, Load(e) \/ LoadFails(e)
      PROVE  Kept'
  <2>0. UnreadOK' /\ UNCHANGED <<doubtful, asked>>
    BY <1>1 DEF Kept, UnreadOK, Load, LoadFails, ghosts, request, TypeOK, Up
  <2> SUFFICES ASSUME NEW f \in Events \ doubtful', KeptOf(f)
               PROVE  KeptOf(f)'
    BY <1>1, <2>0 DEF Kept
  <2>1. Switching(f) = {} /\ Switching(f)' = {}
    BY <1>1 DEF Load, LoadFails, request, TypeOK, Up, Switching
  <2>2. CASE f # e
    BY <1>1, <2>1, <2>2 DEF Load, LoadFails, ghosts, TypeOK, KeptOf
  <2>3. CASE f = e
    <3>1. CASE LoadFails(e)
      <4>1. /\ e \in unread' /\ UNCHANGED <<stored, asked>> /\ (active'[e] => stored[e] = NoRow)
            /\ asked[e] \in BOOLEAN
        BY <3>1 DEF LoadFails, TypeOK
      <4>2. stored[e] = NoRow => asked[e]
        BY <4>1, <2>3, SwitchAssumption DEF KeptOf
      <4>3. e \notin loaded
        BY <3>1 DEF LoadFails
      <4>4. QED
        BY <2>1, <2>3, <4>1, <4>2, <4>3 DEF KeptOf
    <3> SUFFICES ASSUME Load(e) PROVE KeptOf(f)'
      BY <1>1, <3>1
    <3>2. /\ active'[e] = (stored[e] # FALSE) /\ stored'[e] = (stored[e] # FALSE)
          /\ asked'[e] = asked[e] /\ asked[e] \in BOOLEAN
          /\ stored[e] \in BOOLEAN \cup {NoRow}
      BY DEF Load, ghosts, TypeOK
    <3>3. asked[e] = (stored[e] # FALSE)
      BY <3>2, <2>3, SwitchAssumption DEF KeptOf
    <3>4. QED
      BY <2>1, <2>3, <3>2, <3>3 DEF KeptOf
  <2>4. QED
    BY <2>2, <2>3
<1>2. ASSUME NEW e \in Events, Launch(e) \/ Finish(e)
      PROVE  Kept'
  BY <1>2 DEF Launch, Finish, request, ghosts, Kept, UnreadOK, KeptOf, Switching
<1>3. ASSUME NEW r \in Requests, Store(r)
      PROVE  Kept'
  BY <1>3 DEF Store, memory, TypeOK, Kept, UnreadOK, KeptOf, Switching, Up
<1>4. ASSUME NEW r \in Requests, StoreFails(r)
      PROVE  Kept'
  BY <1>4 DEF StoreFails, memory, TypeOK, Kept, UnreadOK, KeptOf, Switching, Up
<1>5. ASSUME NEW r \in Requests, NEW e \in Events, NEW b \in BOOLEAN, Switch(r, e, b)
      PROVE  Kept'
  BY <1>5 DEF Switch, TypeOK, Kept, UnreadOK, KeptOf, Switching, Up
<1>6. CASE Crash
  BY <1>6 DEF Crash, TypeOK, Kept, UnreadOK, KeptOf, Switching, Up
<1>7. CASE UNCHANGED vars
  BY <1>7 DEF vars, memory, request, ghosts, Kept, UnreadOK, KeptOf, Switching
<1>8. QED
  BY <1>1, <1>2, <1>3, <1>4, <1>5, <1>6, <1>7 DEF Next

(* Types, and that requests and runs are in progress only in a server that *)
(* is up, in every reachable state.                                        *)
THEOREM SwitchTypes == Spec => []TypeOK
<1>1. TypeOK /\ [Next]_vars => TypeOK'
  BY TypeNext
<1>2. QED
  BY <1>1, InitKept, PTL DEF Spec

(* For any number of events, requests, crashes and failed calls: the table *)
(* keeps the status an event was last switched to, unless that request     *)
(* failed, found no row, or overlapped another one; and memory keeps it    *)
(* too, unless the row could not be read or created at the last start,     *)
(* which can leave the event off, and never on.                            *)
THEOREM KeepsStatus == Spec => []StatusIsKept
<1>1. TypeOK /\ Kept /\ [Next]_vars => Kept'
  BY KeptNext
<1>2. TypeOK /\ Kept => StatusIsKept
  <2> SUFFICES ASSUME TypeOK, Kept, NEW e \in Events, Settled(e)
               PROVE  /\ \/ stored[e] = asked[e]
                         \/ stored[e] = NoRow /\ asked[e] /\ e \notin loaded \ unread
                      /\ e \in loaded \ unread => active[e] = asked[e]
                      /\ e \in unread => (active[e] => asked[e])
    BY DEF StatusIsKept
  <2>1. KeptOf(e) /\ Switching(e) = {}
    BY DEF Settled, Kept
  <2>2. QED
    BY <2>1 DEF KeptOf
<1>3. QED
  BY <1>1, <1>2, InitKept, SwitchTypes, PTL DEF Spec

(* An event that was switched off, by a request that neither failed nor    *)
(* overlapped another one, is never run, however often the server restarts.*)
THEOREM OffMeansOff == Spec => []NotRunWhenOff
<1>1. TypeOK /\ Kept /\ NotRunWhenOff /\ [Next]_vars => NotRunWhenOff'
  <2> SUFFICES ASSUME TypeOK, Kept, wronged = {}, [Next]_vars
               PROVE  wronged' = {}
    BY DEF NotRunWhenOff
  <2>1. ASSUME NEW e \in Events, Launch(e)
        PROVE  wronged' = {}
    <3>1. asked[e] \/ e \in doubtful \/ Switching(e) # {}
      BY <2>1 DEF Launch, Up, Kept, KeptOf
    <3>2. QED
      BY <2>1, <3>1 DEF Launch
  <2>2. CASE ~\E e \in Events : Launch(e)
    BY <2>2 DEF Next, Load, LoadFails, Finish, Store, StoreFails, Switch, Crash, vars, ghosts
  <2>3. QED
    BY <2>1, <2>2
<1>2. TypeOK /\ Kept /\ [Next]_vars => Kept'
  BY KeptNext
<1>3. QED
  BY <1>1, <1>2, InitKept, SwitchTypes, PTL DEF Spec

-----------------------------------------------------------------------------
(* The runs: a notice is told twice only after a fault or by two at once.  *)

NoticeSteps == {"idle", "fetch", "ask", "send", "mark"}

(* What a run has in hand, without the bookkeeping of NoticesTypeOK.       *)
Hands ==
  /\ at \in [Runs -> NoticeSteps] /\ cur \in [Runs -> Notices \cup {Nothing}]
  /\ site \in [Runs -> {Upbit, Bithumb}]
  /\ \A x \in Runs : cur[x] # Nothing <=> at[x] \in {"send", "mark"}

(* A notice in two hands is shaky.                                         *)
TwoHands ==
  \A x, y \in Runs : x # y /\ cur[x] = cur[y] /\ cur[x] # Nothing => cur[x] \in shaky

(* What was told is stored, or is about to be, or is shaky.                *)
Accounted ==
  \A n \in told :
    n \in cached \/ n \in shaky \/ \E x \in Runs : at[x] = "mark" /\ cur[x] = n

(* What is about to be told is new, or is shaky.                           *)
NewOrShaky == \A x \in Runs : at[x] = "send" => cur[x] \notin told \/ cur[x] \in shaky

NewsInv == Hands /\ TwoHands /\ Accounted /\ NewOrShaky /\ OnlyFaultsRepeat

LEMMA NewsInit == ASSUME NoticeInit PROVE NewsInv
  BY NoticesAssumption DEF NoticesAssumption, NoticeInit, NewsInv, Hands, NoticeSteps, TwoHands, Accounted, NewOrShaky,
     OnlyFaultsRepeat

(* GoOn drops what the run had in hand.                                    *)
LEMMA GoesOn ==
  ASSUME Hands, NEW x \in Runs, NEW ns, GoOn(x, ns)
  PROVE  /\ Hands'
         /\ cur' = [cur EXCEPT ![x] = Nothing]
         /\ at'[x] \notin {"send", "mark"}
         /\ \A y \in Runs \ {x} : at'[y] = at[y] /\ cur'[y] = cur[y]
<1>1. Nothing \notin Notices
  BY NoticesAssumption DEF NoticesAssumption
<1>2. at' \in [Runs -> NoticeSteps] /\ site' \in [Runs -> {Upbit, Bithumb}]
  BY DEF Hands, GoOn, NoticeSteps
<1>3. cur' \in [Runs -> Notices \cup {Nothing}]
  BY DEF Hands, GoOn
<1>4. \A y \in Runs : cur'[y] # Nothing <=> at'[y] \in {"send", "mark"}
  BY DEF Hands, GoOn
<1>5. QED
  BY <1>2, <1>3, <1>4 DEF Hands, GoOn

LEMMA TakesUp ==
  ASSUME Hands, NEW x \in Runs, NEW n \in Notices, TakeUp(x, n)
  PROVE  /\ Hands' /\ at'[x] = "send" /\ cur'[x] = n
         /\ \A y \in Runs \ {x} : at'[y] = at[y] /\ cur'[y] = cur[y]
  BY NoticesAssumption DEF NoticesAssumption, Hands, TakeUp, NoticeSteps

(* A run that goes on while nothing new is told, and what it had in hand   *)
(* is stored or shaky if it was told.                                      *)
LEMMA GoesOnSafely ==
  ASSUME NewsInv, NEW x \in Runs, NEW ns, GoOn(x, ns),
         told' = told, repeated' = repeated, cached \subseteq cached', shaky \subseteq shaky',
         at[x] = "mark" => cur[x] \in cached' \cup shaky'
  PROVE  NewsInv'
<1>1. /\ Hands' /\ cur' = [cur EXCEPT ![x] = Nothing] /\ at'[x] \notin {"send", "mark"}
      /\ \A y \in Runs \ {x} : at'[y] = at[y] /\ cur'[y] = cur[y]
  BY GoesOn DEF NewsInv
<1>2. cur'[x] = Nothing
  BY <1>1 DEF NewsInv, Hands
<1>3. TwoHands'
  BY <1>1, <1>2 DEF NewsInv, TwoHands
<1>4. Accounted'
  BY <1>1 DEF NewsInv, Accounted
<1>5. NewOrShaky'
  BY <1>1 DEF NewsInv, NewOrShaky
<1>6. OnlyFaultsRepeat'
  BY DEF NewsInv, OnlyFaultsRepeat
<1>7. QED
  BY <1>1, <1>3, <1>4, <1>5, <1>6 DEF NewsInv

(* A run takes up a notice that Redis does not know.                       *)
LEMMA TakesUpSafely ==
  ASSUME NewsInv, NEW x \in Runs, NEW n \in Notices, at[x] = "ask",
         TakeUp(x, n), cached' = cached, told' = told, repeated' = repeated,
         shaky \subseteq shaky', n \in shaky' \/ (n \notin cached /\ ~InHand(x, n))
  PROVE  NewsInv'
<1>1. /\ Hands' /\ at'[x] = "send" /\ cur'[x] = n
      /\ \A y \in Runs \ {x} : at'[y] = at[y] /\ cur'[y] = cur[y]
  BY TakesUp DEF NewsInv
<1>2. n \in shaky' \/ \A y \in Runs \ {x} : cur[y] # n
  BY DEF InHand
<1>3. TwoHands'
  BY <1>1, <1>2 DEF NewsInv, TwoHands
<1>4. Accounted'
  BY <1>1 DEF NewsInv, Accounted
<1>5. cur'[x] \notin told' \/ cur'[x] \in shaky'
  <2>1. SUFFICES ASSUME n \in told, n \notin shaky' PROVE FALSE
    BY <1>1
  <2>2. PICK y \in Runs : at[y] = "mark" /\ cur[y] = n
    BY <2>1 DEF NewsInv, Accounted
  <2>3. QED
    BY <1>2, <2>1, <2>2
<1>6. NewOrShaky'
  BY <1>1, <1>5 DEF NewsInv, NewOrShaky
<1>7. OnlyFaultsRepeat'
  BY DEF NewsInv, OnlyFaultsRepeat
<1>8. QED
  BY <1>1, <1>3, <1>4, <1>6, <1>7 DEF NewsInv

(* The message is sent, or is lost.                                        *)
LEMMA SendsSafely ==
  ASSUME NewsInv, NEW x \in Runs, Send(x) \/ SendFails(x)
  PROVE  NewsInv'
<1>1. /\ at[x] = "send" /\ at' = [at EXCEPT ![x] = "mark"]
      /\ UNCHANGED <<cached, site, found, cur, shaky>>
  BY DEF Send, SendFails
<1>2. Hands'
  BY <1>1 DEF NewsInv, Hands, NoticeSteps
<1>3. at'[x] = "mark" /\ \A y \in Runs \ {x} : at'[y] = at[y]
  BY <1>1 DEF NewsInv, Hands
<1>4. cur[x] # Nothing
  BY <1>1 DEF NewsInv, Hands
<1>5. TwoHands'
  BY <1>1 DEF NewsInv, TwoHands
<1>6. told' \subseteq told \cup {cur[x]}
  BY DEF Send, SendFails
<1>7. Accounted'
  BY <1>1, <1>3, <1>6 DEF NewsInv, Accounted
<1>8. ASSUME NEW y \in Runs, at'[y] = "send"
      PROVE  cur'[y] \notin told' \/ cur'[y] \in shaky'
  <2>1. y # x /\ at[y] = "send"
    BY <1>3, <1>8
  <2>2. cur[y] \notin told \/ cur[y] \in shaky
    BY <2>1 DEF NewsInv, NewOrShaky
  <2>3. cur[y] = cur[x] => cur[x] \in shaky
    BY <1>4, <2>1 DEF NewsInv, TwoHands
  <2>4. QED
    BY <1>1, <1>6, <2>2, <2>3
<1>9. NewOrShaky'
  BY <1>8 DEF NewOrShaky
<1>10. cur[x] \in told => cur[x] \in shaky
  BY <1>1 DEF NewsInv, NewOrShaky
<1>11. repeated' \subseteq repeated \cup {n \in told : n = cur[x]}
  BY DEF Send, SendFails
<1>12. OnlyFaultsRepeat'
  BY <1>1, <1>10, <1>11 DEF NewsInv, OnlyFaultsRepeat
<1>13. QED
  BY <1>2, <1>5, <1>7, <1>9, <1>12 DEF NewsInv

LEMMA CutsSafely == ASSUME NewsInv, Cut PROVE NewsInv'
<1>1. Hands'
  BY DEF Cut, Hands, NoticeSteps
<1>2. \A x \in Runs : at'[x] = "idle" /\ cur'[x] = Nothing
  BY DEF Cut
<1>3. TwoHands' /\ NewOrShaky'
  BY <1>2 DEF TwoHands, NewOrShaky
<1>4. shaky \subseteq shaky' /\ \A x \in Runs : at[x] = "mark" => cur[x] \in shaky'
  BY DEF Cut
<1>5. Accounted'
  BY <1>4 DEF NewsInv, Cut, Accounted
<1>6. OnlyFaultsRepeat'
  BY <1>4 DEF NewsInv, Cut, OnlyFaultsRepeat
<1>7. QED
  BY <1>1, <1>3, <1>5, <1>6 DEF NewsInv

LEMMA Outsiders ==
  ASSUME NewsInv, NEW n \in Notices, Post(n) \/ Lapse(n) PROVE NewsInv'
<1>1. UNCHANGED <<at, site, found, cur, shaky, repeated>> /\ told' \subseteq told
  BY DEF Post, Lapse, progress, news
<1>2. Hands' /\ TwoHands' /\ NewOrShaky' /\ OnlyFaultsRepeat'
  BY <1>1 DEF NewsInv, Hands, TwoHands, NewOrShaky, OnlyFaultsRepeat
<1>3. \A m \in told' : m \in cached => m \in cached'
  BY DEF Post, Lapse
<1>4. Accounted'
  BY <1>1, <1>3 DEF NewsInv, Accounted
<1>5. QED
  BY <1>2, <1>4 DEF NewsInv

LEMMA NewsNext ==
  ASSUME NewsInv, [NoticeNext]_noticeVars PROVE NewsInv'
<1>1. ASSUME NEW x \in Runs, Begin(x) PROVE NewsInv'
  <2>1. Hands'
    BY <1>1 DEF NewsInv, Begin, Hands, NoticeSteps
  <2>2. /\ UNCHANGED <<cached, cur, told, repeated, shaky>>
        /\ \A y \in Runs : at'[y] # at[y] => at[y] = "idle" /\ at'[y] = "fetch"
    BY <1>1 DEF NewsInv, Begin, Hands, news
  <2>3. TwoHands' /\ Accounted' /\ NewOrShaky' /\ OnlyFaultsRepeat'
    BY <2>2 DEF NewsInv, TwoHands, Accounted, NewOrShaky, OnlyFaultsRepeat
  <2>4. QED
    BY <2>1, <2>3 DEF NewsInv
<1>2. ASSUME NEW x \in Runs, Act(x) \/ Stumble(x) PROVE NewsInv'
  <2>1. CASE Fetch(x) \/ FetchFails(x)
    <3>1. /\ at[x] = "fetch" /\ UNCHANGED <<cached, told, repeated, shaky>>
          /\ \/ GoOn(x, {})
             \/ Fetch(x)
      BY <2>1 DEF Fetch, FetchFails, news
    <3>2. CASE GoOn(x, {})
      BY <3>1, <3>2, GoesOnSafely
    <3>3. CASE Fetch(x)
      <4>1. GoOn(x, {n \in posted : n.site = site[x]})
        BY <3>3 DEF Fetch
      <4>2. QED
        BY <3>1, <4>1, GoesOnSafely
    <3>4. QED
      BY <3>1, <3>2, <3>3
  <2>2. CASE Send(x) \/ SendFails(x)
    BY <2>2, SendsSafely
  <2>3. CASE Mark(x) \/ MarkFails(x)
    <3>1. /\ GoOn(x, found[x] \ {cur[x]}) /\ UNCHANGED <<told, repeated>>
          /\ cached \subseteq cached' /\ shaky \subseteq shaky'
          /\ cur[x] \in cached' \cup shaky'
      BY <2>3 DEF Mark, MarkFails, news
    <3>2. QED
      BY <3>1, GoesOnSafely
  <2>4. ASSUME NEW n \in Notices, Ask(x, n) \/ AskFails(x, n) PROVE NewsInv'
    <3>1. /\ at[x] = "ask" /\ UNCHANGED <<cached, told, repeated>>
          /\ shaky \subseteq shaky'
      BY <2>4 DEF Ask, AskFails
    <3>2. CASE GoOn(x, found[x] \ {n})
      BY <3>1, <3>2, GoesOnSafely
    <3>3. CASE TakeUp(x, n) /\ (n \in shaky' \/ (n \notin cached /\ ~InHand(x, n)))
      BY <3>1, <3>3, TakesUpSafely
    <3>4. QED
      BY <2>4, <3>2, <3>3 DEF Ask, AskFails, Known
  <2>5. QED
    BY <1>2, <2>1, <2>2, <2>3, <2>4 DEF Act, Stumble
<1>3. CASE Cut
  BY <1>3, CutsSafely
<1>4. CASE Outside
  BY <1>4, Outsiders DEF Outside
<1>5. CASE UNCHANGED noticeVars
  BY <1>5 DEF noticeVars, progress, news, NewsInv, Hands, TwoHands, Accounted, NewOrShaky,
     OnlyFaultsRepeat
<1>6. QED
  BY <1>1, <1>2, <1>3, <1>4, <1>5 DEF NoticeNext

(* For any number of runs, notices and faults, a notice is told again only *)
(* where a call to Redis failed, two runs had it in hand or a run was cut. *)
THEOREM RepeatsAreFaults == NoticeSpec => []OnlyFaultsRepeat
<1>1. NoticeInit => NewsInv
  BY NewsInit
<1>2. NewsInv /\ [NoticeNext]_noticeVars => NewsInv'
  BY NewsNext
<1>3. NewsInv => OnlyFaultsRepeat
  BY DEF NewsInv
<1>4. QED
  BY <1>1, <1>2, <1>3, PTL DEF NoticeSpec

(* The event with its switch runs as Notices allows: what holds of the     *)
(* runs that begin at any time holds of those that the switch lets begin.  *)
THEOREM SwitchOnlyRestricts == SpecAll => NoticeSpec
<1>1. InitAll => NoticeInit
  BY DEF InitAll
<1>2. [NextAll]_<<vars, noticeVars>> => [NoticeNext]_noticeVars
  <2>1. SUFFICES ASSUME NextAll PROVE NoticeNext \/ UNCHANGED noticeVars
    BY DEF noticeVars
  <2>2. ASSUME NEW x \in Runs,
               LaunchRun(x) \/ Advance(x) \/ Return(x) \/ Trip(x) \/ TripUp(x)
        PROVE  NoticeNext
    BY <2>2 DEF LaunchRun, Advance, Return, Trip, TripUp, NoticeNext
  <2>3. QED
    BY <2>1, <2>2 DEF NextAll, NoticeNext
<1>3. QED
  BY <1>1, <1>2, PTL DEF SpecAll, NoticeSpec

(* ... and its switch works as EventSwitch allows, so that what            *)
(* is shown above of every switch holds of it.                             *)
THEOREM EventIsSwitched == SpecAll => Spec
<1>1. InitAll => Init
  BY DEF InitAll
<1>2. [NextAll]_<<vars, noticeVars>> => [Next]_vars
  <2>1. SUFFICES ASSUME NextAll PROVE Next \/ UNCHANGED vars
    OBVIOUS
  <2>2. ASSUME NEW x \in Runs,
               LaunchRun(x) \/ Advance(x) \/ Return(x) \/ Trip(x) \/ TripUp(x)
        PROVE  Next \/ UNCHANGED vars
    BY <2>2 DEF LaunchRun, Advance, Return, Trip, TripUp, Next
  <2>3. Serve => Next
    BY DEF Serve, Next
  <2>4. QED
    BY <2>1, <2>2, <2>3 DEF NextAll, Next
<1>3. QED
  BY <1>1, <1>2, PTL DEF SpecAll, Spec

(* So the runs of the event repeat a notice only after a fault.            *)
THEOREM EventRepeatsAreFaults == SpecAll => []OnlyFaultsRepeat
  BY RepeatsAreFaults, SwitchOnlyRestricts, PTL

-----------------------------------------------------------------------------
(* The types of both, and the runs the switch counts.                      *)

(* The conjuncts of NoticesTypeOK that speak of one run.                   *)
RunOK(x) ==
  /\ at[x] \in {"idle", "fetch", "ask", "send", "mark"}
  /\ site[x] \in {Upbit, Bithumb}
  /\ found[x] \subseteq [site: {site[x]}, url: Urls]
  /\ at[x] \in {"idle", "fetch"} <=> found[x] = {}
  /\ IF at[x] \in {"send", "mark"} THEN cur[x] \in found[x] ELSE cur[x] = Nothing

Histories == {told, repeated, shaky, unsent} \subseteq SUBSET Notices
Limits == posts \in Nat /\ lapses \in Nat /\ misses \in Nat
Pages == posted \subseteq Notices /\ cached \subseteq Notices

(* NoticesTypeOK by its parts, with the domains it leaves open.            *)
News ==
  /\ Hands /\ found \in [Runs -> SUBSET Notices]
  /\ Pages /\ Limits /\ Histories
  /\ \A x \in Runs : RunOK(x)

(* What a run may have found at its site are notices.                      *)
LEMMA FoundNotices ==
  ASSUME NEW s \in {Upbit, Bithumb}
  PROVE  [site: {s}, url: Urls] \subseteq Notices
BY DEF Notices

LEMMA TypesInit == ASSUME NoticeInit PROVE News
<1>1. Hands
  BY NewsInit DEF NewsInv
<1>2. found \in [Runs -> SUBSET Notices] /\ \A x \in Runs : RunOK(x)
  BY DEF NoticeInit, RunOK
<1>3. Pages /\ Limits /\ Histories
  BY DEF NoticeInit, Pages, Limits, Histories
<1>4. QED
  BY <1>1, <1>2, <1>3 DEF News

(* A run that goes on has the right things in hand.                        *)
LEMMA GoesOnRight ==
  ASSUME News, NEW x \in Runs, NEW ns, GoOn(x, ns), ns \subseteq [site: {site[x]}, url: Urls]
  PROVE  /\ Hands' /\ found' \in [Runs -> SUBSET Notices]
         /\ \A y \in Runs : RunOK(y)'
<1>1. Hands /\ found \in [Runs -> SUBSET Notices] /\ \A y \in Runs : RunOK(y)
  BY DEF News
<1>2. Hands' /\ cur' = [cur EXCEPT ![x] = Nothing]
  BY <1>1, GoesOn
<1>3. ns \subseteq Notices
  BY <1>1, FoundNotices DEF RunOK
<1>4. found' \in [Runs -> SUBSET Notices]
  BY <1>1, <1>3 DEF GoOn
<1>5. RunOK(x)'
  <2>1. /\ found'[x] = ns /\ cur'[x] = Nothing
        /\ at'[x] = IF ns # {} THEN "ask" ELSE IF site[x] = Upbit THEN "fetch" ELSE "idle"
        /\ site'[x] = IF ns = {} THEN Bithumb ELSE site[x]
    BY <1>1 DEF GoOn, Hands
  <2>2. site[x] \in {Upbit, Bithumb}
    BY <1>1 DEF Hands
  <2>3. CASE ns = {}
    BY <2>1, <2>3 DEF RunOK
  <2>4. CASE ns # {}
    BY <2>1, <2>2, <2>4 DEF RunOK
  <2>5. QED
    BY <2>3, <2>4
<1>6. ASSUME NEW y \in Runs, y # x
      PROVE  RunOK(y)'
  <2>1. /\ at'[y] = at[y] /\ site'[y] = site[y] /\ found'[y] = found[y]
        /\ cur'[y] = cur[y]
    BY <1>1, <1>6 DEF GoOn, Hands
  <2>2. QED
    BY <1>1, <2>1 DEF RunOK
<1>7. QED
  BY <1>2, <1>4, <1>5, <1>6

(* A run that goes on while the pages, the bounds and the histories keep   *)
(* their types.                                                            *)
LEMMA GoesOnTyped ==
  ASSUME News, NEW x \in Runs, NEW ns, GoOn(x, ns), ns \subseteq [site: {site[x]}, url: Urls],
         Pages', Limits', Histories'
  PROVE  News'
<1>1. Hands' /\ found' \in [Runs -> SUBSET Notices] /\ \A y \in Runs : RunOK(y)'
  BY GoesOnRight
<1>2. QED
  BY <1>1 DEF News

LEMMA TakesUpTyped ==
  ASSUME News, NEW x \in Runs, NEW n \in found[x], at[x] = "ask", TakeUp(x, n),
         Pages', Limits', Histories'
  PROVE  News'
<1>1. Hands /\ found \in [Runs -> SUBSET Notices] /\ \A y \in Runs : RunOK(y)
  BY DEF News
<1>2. n \in Notices
  BY <1>1
<1>3. /\ Hands' /\ at'[x] = "send" /\ cur'[x] = n
      /\ \A y \in Runs \ {x} : at'[y] = at[y] /\ cur'[y] = cur[y]
  BY <1>1, <1>2, TakesUp
<1>4. site' = site /\ found' = found
  BY DEF TakeUp
<1>5. ASSUME NEW y \in Runs
      PROVE  RunOK(y)'
  BY <1>1, <1>3, <1>4 DEF RunOK
<1>6. Hands' /\ found' \in [Runs -> SUBSET Notices] /\ \A y \in Runs : RunOK(y)'
  BY <1>1, <1>3, <1>4, <1>5
<1>7. QED
  BY <1>6 DEF News

(* The fault of a call to a page, to Redis or to the user.                 *)
LEMMA MissesCount == ASSUME Limits, Miss PROVE Limits'
BY DEF Limits, Miss

(* Each step of a run keeps the types.                                     *)
LEMMA TypesAct ==
  ASSUME News, NEW x \in Runs, Act(x) \/ Stumble(x)
  PROVE  News'
<1>1. /\ Hands /\ found \in [Runs -> SUBSET Notices] /\ Pages /\ Limits /\ Histories
      /\ \A y \in Runs : RunOK(y)
  BY DEF News
<1>2. CASE Fetch(x) \/ FetchFails(x)
  <2>1. Pages' /\ Histories'
    BY <1>1, <1>2 DEF Fetch, FetchFails, Pages, Histories, news
  <2>2. Limits'
    BY <1>1, <1>2, MissesCount DEF Fetch, FetchFails, Limits, limits
  <2>3. {n \in posted : n.site = site[x]} \subseteq [site: {site[x]}, url: Urls]
    BY <1>1 DEF Pages, Notices
  <2>4. CASE Fetch(x)
    BY <2>1, <2>2, <2>3, <2>4, GoesOnTyped DEF Fetch
  <2>5. CASE FetchFails(x)
    BY <2>1, <2>2, <2>5, GoesOnTyped DEF FetchFails
  <2>6. QED
    BY <1>2, <2>4, <2>5
<1>3. CASE Send(x) \/ SendFails(x)
  <2>1. /\ at[x] = "send" /\ at' = [at EXCEPT ![x] = "mark"]
        /\ UNCHANGED <<posted, cached, site, found, cur, shaky>>
    BY <1>3 DEF Send, SendFails
  <2>2. cur[x] \in Notices
    BY <1>1, <2>1 DEF RunOK
  <2>3. Histories'
    BY <1>1, <1>3, <2>2 DEF Send, SendFails, Histories
  <2>4. Limits' /\ Pages'
    BY <1>1, <1>3, <2>1, MissesCount DEF Send, SendFails, Limits, limits, Pages
  <2>5. Hands' /\ found' \in [Runs -> SUBSET Notices]
    BY <1>1, <2>1 DEF Hands, NoticeSteps
  <2>6. ASSUME NEW y \in Runs
        PROVE  RunOK(y)'
    <3>1. at'[y] = IF y = x THEN "mark" ELSE at[y]
      BY <1>1, <2>1 DEF Hands
    <3>2. QED
      BY <1>1, <2>1, <3>1 DEF RunOK
  <2>7. QED
    BY <2>3, <2>4, <2>5, <2>6 DEF News
<1>4. CASE Mark(x) \/ MarkFails(x)
  <2>1. at[x] = "mark" /\ GoOn(x, found[x] \ {cur[x]})
    BY <1>4 DEF Mark, MarkFails
  <2>2. cur[x] \in Notices /\ found[x] \ {cur[x]} \subseteq [site: {site[x]}, url: Urls]
    BY <1>1, <2>1 DEF RunOK
  <2>3. Pages' /\ Histories'
    BY <1>1, <1>4, <2>2 DEF Mark, MarkFails, Pages, Histories, news
  <2>4. Limits'
    BY <1>1, <1>4, MissesCount DEF Mark, MarkFails, Limits, limits
  <2>5. QED
    BY <2>1, <2>2, <2>3, <2>4, GoesOnTyped
<1>5. ASSUME NEW n \in Notices, Ask(x, n) \/ AskFails(x, n)
      PROVE  News'
  <2>1. at[x] = "ask" /\ n \in found[x]
    BY <1>5 DEF Ask, AskFails
  <2>2. GoOn(x, found[x] \ {n}) \/ TakeUp(x, n)
    BY <1>5 DEF Ask, AskFails
  <2>3. Pages' /\ Histories'
    BY <1>1, <1>5 DEF Ask, AskFails, Pages, Histories
  <2>4. Limits'
    BY <1>1, <1>5, MissesCount DEF Ask, AskFails, Limits, limits
  <2>5. found[x] \ {n} \subseteq [site: {site[x]}, url: Urls]
    BY <1>1 DEF RunOK
  <2>6. QED
    BY <2>1, <2>2, <2>3, <2>4, <2>5, GoesOnTyped, TakesUpTyped
<1>6. QED
  BY <1>2, <1>3, <1>4, <1>5 DEF Act, Stumble

(* ... and so do the beginning of a run, a crash and the outside world.    *)
LEMMA TypesNext == ASSUME News, [NoticeNext]_noticeVars PROVE News'
<1>1. /\ Hands /\ found \in [Runs -> SUBSET Notices] /\ Pages /\ Limits /\ Histories
      /\ \A y \in Runs : RunOK(y)
  BY DEF News
<1>2. ASSUME NEW x \in Runs, Begin(x)
      PROVE  News'
  <2>1. Hands' /\ found' \in [Runs -> SUBSET Notices]
    BY <1>1, <1>2 DEF Begin, Hands, NoticeSteps
  <2>2. Pages' /\ Limits' /\ Histories'
    BY <1>1, <1>2 DEF Begin, Pages, Limits, Histories, limits, news
  <2>3. ASSUME NEW y \in Runs
        PROVE  RunOK(y)'
    <3>1. /\ at'[y] = IF y = x THEN "fetch" ELSE at[y]
          /\ site'[y] = IF y = x THEN Upbit ELSE site[y]
          /\ found'[y] = found[y] /\ cur'[y] = cur[y] /\ at[x] = "idle"
      BY <1>1, <1>2 DEF Begin, Hands
    <3>2. QED
      BY <1>1, <3>1 DEF RunOK
  <2>4. QED
    BY <2>1, <2>2, <2>3 DEF News
<1>3. ASSUME NEW x \in Runs, Act(x) \/ Stumble(x)
      PROVE  News'
  BY <1>3, TypesAct
<1>4. CASE Cut
  <2>1. Hands' /\ found' \in [Runs -> SUBSET Notices] /\ \A y \in Runs : RunOK(y)'
    BY <1>4 DEF Cut, Hands, NoticeSteps, RunOK
  <2>2. Pages' /\ Limits'
    BY <1>1, <1>4 DEF Cut, Pages, Limits, limits
  <2>3. {cur[x] : x \in {y \in Runs : at[y] = "mark"}} \subseteq Notices
    BY <1>1 DEF RunOK
  <2>4. Histories'
    BY <1>1, <1>4, <2>3 DEF Cut, Histories
  <2>5. QED
    BY <2>1, <2>2, <2>4 DEF News
<1>5. ASSUME NEW n \in Notices, Post(n) \/ Lapse(n)
      PROVE  News'
  <2>1. UNCHANGED progress
    BY <1>5 DEF Post, Lapse
  <2>2. Hands' /\ found' \in [Runs -> SUBSET Notices] /\ \A y \in Runs : RunOK(y)'
    BY <1>1, <2>1 DEF progress, Hands, RunOK
  <2>3. Pages' /\ Limits' /\ Histories'
    BY <1>1, <1>5 DEF Post, Lapse, Pages, Limits, Histories, news
  <2>4. QED
    BY <2>2, <2>3 DEF News
<1>6. CASE UNCHANGED noticeVars
  <2>1. Hands' /\ found' \in [Runs -> SUBSET Notices] /\ \A y \in Runs : RunOK(y)'
    BY <1>1, <1>6 DEF noticeVars, progress, Hands, RunOK
  <2>2. Pages' /\ Limits' /\ Histories'
    BY <1>1, <1>6 DEF noticeVars, limits, news, Pages, Limits, Histories
  <2>3. QED
    BY <2>1, <2>2 DEF News
<1>7. QED
  BY <1>2, <1>3, <1>4, <1>5, <1>6 DEF NoticeNext, Outside

AtWork == {x \in Runs : at[x] # "idle"}

(* The switch counts as many runs as are at work.                          *)
Counted == \A e \in Events : runs[e] = Cardinality(AtWork)

LEMMA FinitelyAtWork == IsFiniteSet(AtWork) /\ Cardinality(AtWork) \in Nat
<1>1. IsFiniteSet(AtWork)
  BY FS_Subset, EnrolledAssumption DEF EnrolledAssumption, AtWork
<1>2. QED
  BY <1>1, FS_CardinalityType

(* A run that takes a step is at work.                                     *)
LEMMA Works == ASSUME NEW x \in Runs, Act(x) \/ Stumble(x) PROVE at[x] # "idle"
BY DEF Act, Stumble, Fetch, FetchFails, Send, SendFails, Mark, MarkFails, Ask, AskFails

(* ... and no other run does.                                              *)
LEMMA WorksAlone ==
  ASSUME News, NEW x \in Runs, Act(x) \/ Stumble(x)
  PROVE  AtWork' = IF at'[x] = "idle" THEN AtWork \ {x} ELSE AtWork
<1>1. \A y \in Runs \ {x} : at'[y] = at[y]
  BY DEF News, Hands, Act, Stumble, Fetch, FetchFails, Send, SendFails, Mark, MarkFails, Ask,
     AskFails, GoOn, TakeUp
<1>2. at[x] # "idle"
  BY Works
<1>3. QED
  BY <1>1, <1>2 DEF AtWork

LEMMA CountedNext ==
  ASSUME TypeOK, News, Counted, [NextAll]_<<vars, noticeVars>>
  PROVE  Counted'
<1> PICK e \in Events : Events = {e}
  BY EnrolledAssumption DEF EnrolledAssumption
<1>1. runs[e] = Cardinality(AtWork) /\ runs \in [Events -> Nat]
  BY DEF Counted, TypeOK
<1>2. ASSUME NEW x \in Runs, LaunchRun(x)
      PROVE  Counted'
  <2>1. Launch(e) /\ Begin(x)
    BY <1>2 DEF LaunchRun
  <2>2. x \notin AtWork /\ AtWork' = AtWork \cup {x}
    BY <2>1 DEF Begin, AtWork, News, Hands
  <2>3. Cardinality(AtWork \cup {x}) = Cardinality(AtWork) + 1
    BY <2>2, FinitelyAtWork, FS_AddElement
  <2>4. runs'[e] = runs[e] + 1
    BY <1>1, <2>1 DEF Launch
  <2>5. QED
    BY <1>1, <2>2, <2>3, <2>4 DEF Counted
<1>3. ASSUME NEW x \in Runs, Return(x) \/ TripUp(x)
      PROVE  Counted'
  <2>1. Finish(e) /\ (Act(x) \/ Stumble(x)) /\ at'[x] = "idle"
    BY <1>3 DEF Return, TripUp
  <2>2. x \in AtWork /\ AtWork' = AtWork \ {x}
    BY <2>1, Works, WorksAlone DEF AtWork
  <2>3. Cardinality(AtWork \ {x}) = Cardinality(AtWork) - 1
    BY <2>2, FinitelyAtWork, FS_RemoveElement
  <2>4. runs'[e] = runs[e] - 1
    BY <1>1, <2>1 DEF Finish
  <2>5. QED
    BY <1>1, <2>2, <2>3, <2>4 DEF Counted
<1>4. ASSUME NEW x \in Runs, Advance(x) \/ Trip(x)
      PROVE  Counted'
  <2>1. UNCHANGED runs /\ (Act(x) \/ Stumble(x)) /\ at'[x] # "idle"
    BY <1>4 DEF Advance, Trip, vars, memory
  <2>2. AtWork' = AtWork
    BY <2>1, WorksAlone
  <2>3. QED
    BY <1>1, <2>1, <2>2 DEF Counted
<1>5. CASE UNCHANGED <<runs, at>>
  BY <1>1, <1>5 DEF Counted, AtWork
<1>6. CASE Crash /\ Cut
  <2>1. AtWork' = {} /\ runs'[e] = 0
    BY <1>6 DEF Cut, Crash, AtWork
  <2>2. QED
    BY <2>1, FS_EmptySet DEF Counted
<1>7. Serve /\ UNCHANGED noticeVars => UNCHANGED <<runs, at>>
  BY DEF Serve, Load, LoadFails, Store, StoreFails, Switch, memory, noticeVars, progress
<1>8. Outside /\ UNCHANGED vars => UNCHANGED <<runs, at>>
  BY DEF Outside, Post, Lapse, progress, vars, memory
<1>9. UNCHANGED <<vars, noticeVars>> => UNCHANGED <<runs, at>>
  BY DEF vars, memory, noticeVars, progress
<1>10. QED
  BY <1>2, <1>3, <1>4, <1>5, <1>6, <1>7, <1>8, <1>9 DEF NextAll

LEMMA CountedInit == ASSUME InitAll PROVE Counted
<1>1. AtWork = {} /\ \A e \in Events : runs[e] = 0
  BY DEF InitAll, Init, NoticeInit, AtWork
<1>2. QED
  BY <1>1, FS_EmptySet DEF Counted

(* In every reachable state both parts are well typed, and the runs that   *)
(* the switch counts for the event are those at work: none is counted      *)
(* after it returned, failed or was cut short, and none goes uncounted.    *)
THEOREM EventTypes == SpecAll => []TypesOK
<1>1. NoticeInit => News
  BY TypesInit
<1>2. News /\ [NoticeNext]_noticeVars => News'
  BY TypesNext
<1>3. SpecAll => []News
  BY <1>1, <1>2, SwitchOnlyRestricts, PTL DEF NoticeSpec
<1>4. SpecAll => []TypeOK
  BY EventIsSwitched, SwitchTypes, PTL
<1>5. InitAll => Counted
  BY CountedInit
<1>6. TypeOK /\ News /\ Counted /\ [NextAll]_<<vars, noticeVars>> => Counted'
  BY CountedNext
<1>7. SpecAll => []Counted
  BY <1>3, <1>4, <1>5, <1>6, PTL DEF SpecAll
<1>8. TypeOK /\ News /\ Counted => TypesOK
  BY DEF News, RunOK, Pages, Limits, Histories, NoticesTypeOK, Counted, AtWork, TypesOK
<1>9. QED
  BY <1>3, <1>4, <1>7, <1>8, PTL

(* What the parts promise they promise together: the status of the event   *)
(* is kept, it is not run when it was switched off, and what its runs      *)
(* repeat, they repeat after a fault.                                      *)
THEOREM EventHolds == SpecAll => [](StatusIsKept /\ NotRunWhenOff /\ OnlyFaultsRepeat)
  BY EventIsSwitched, KeepsStatus, OffMeansOff, EventRepeatsAreFaults, PTL
=============================================================================
