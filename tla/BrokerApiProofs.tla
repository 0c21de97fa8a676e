--------------------------- MODULE BrokerApiProofs ---------------------------
(***************************************************************************)
(* The access token of the broker and its stream of notifications, for any *)
(* number of goroutines, orders and faults: types, the bound of the pause, *)
(* when a token is spoilt, why a request fails, and that each topic of the *)
(* stream is a feed of the orders.                                         *)
(***************************************************************************)
EXTENDS BrokerApi, SequenceTheorems, WellFoundedInduction, TLAPS

(***************************************************************************)
(* The token                                                               *)
(***************************************************************************)
LEMMA HourFacts ==
  /\ Floor \in Int /\ Floor <= 0 /\ Floor <= Skew /\ Skew \in Int
  /\ Life \in Nat \ {0} /\ NoToken \notin Int
  /\ Tokens = {h \in Int : Floor <= h /\ h <= Life} \cup {NoToken}
  BY TokenAssumption DEF TokenAssumption, Floor, Tokens, Hours

LEMMA TokensAge ==
  ASSUME NEW t \in Tokens
  PROVE  /\ Older(t) \in Tokens
         /\ Older(t) = NoToken <=> t = NoToken
         /\ t # NoToken => t \in Int /\ Older(t) \in Int
         /\ t # NoToken /\ t <= Skew => Older(t) <= Skew
<1>1. CASE t = NoToken
  BY <1>1 DEF Older
<1>2. CASE t # NoToken
  <2>1. t \in Int /\ Floor <= t /\ t <= Life
    BY <1>2, HourFacts
  <2>2. Older(t) \in Int /\ Floor <= Older(t) /\ Older(t) <= Life /\ Older(t) <= t
    BY <1>2, <2>1, HourFacts DEF Older
  <2>3. QED
    BY <1>2, <2>1, <2>2, HourFacts
<1>3. QED
  BY <1>1, <1>2

Stages == {"idle", "check", "take", "ask", "keep", "stamp", "send"}

(* TokenTypeOK in parts: the shapes, and what each caller holds when.      *)
Flags == overlapped \in BOOLEAN /\ spoilt \in BOOLEAN
Shapes ==
  /\ accessToken \in Tokens /\ tokenExpired \in Tokens
  /\ doing \in [Callers -> Stages]
  /\ grant \in [Callers -> Tokens] /\ carried \in [Callers -> Tokens]
  /\ listing \in [Callers -> Listings \cup {NoHistory}] /\ days \in [Callers -> Nat]
  /\ refusals \in 0..MaxRefusals
  /\ slow \in SUBSET Callers
  /\ outcome \in [Callers -> Outcomes]
Holds(c) ==
  /\ grant[c] # NoToken => doing[c] \in {"keep", "stamp"}
  /\ carried[c] # NoToken => doing[c] = "send"
  /\ c \in slow => doing[c] # "idle"
  /\ listing[c] # NoHistory => days[c] <= listing[c]

TypesInv == Shapes /\ Flags /\ \A c \in Callers : Holds(c)

LEMMA TypesInParts == TypesInv => TokenTypeOK
<1> SUFFICES ASSUME TypesInv PROVE TokenTypeOK
  OBVIOUS
<1>1. \A c \in Callers : c \in slow =>
         c \in Underway \cup {d \in Callers : doing[d] \in {"check", "ask"}}
  BY DEF TypesInv, Shapes, Holds, Stages, Underway
<1>2. Flags
  BY DEF TypesInv
<1>3. QED
  BY <1>1, <1>2 DEF TypesInv, Shapes, Holds, TokenTypeOK, Stages, Flags

LEMMA TokenTypesInitially == ASSUME TokenInit PROVE TypesInv
<1>1. NoToken \in Tokens /\ MaxRefusals \in Nat
  BY TokenAssumption DEF TokenAssumption, Tokens
<1>2. Shapes
  BY <1>1 DEF TokenInit, Shapes, Stages, Outcomes
<1>3. Flags /\ \A c \in Callers : Holds(c)
  BY DEF TokenInit, Flags, Holds
<1>4. QED
  BY <1>2, <1>3 DEF TypesInv

(* A step of one caller leaves the others as they are.                     *)
OthersStay(c) ==
  \A d \in Callers \ {c} :
    /\ doing'[d] = doing[d] /\ grant'[d] = grant[d] /\ carried'[d] = carried[d]
    /\ listing'[d] = listing[d] /\ days'[d] = days[d] /\ (d \in slow' => d \in slow)

LEMMA OneCaller ==
  ASSUME TypesInv, NEW c \in Callers, Shapes', Flags', Holds(c)', OthersStay(c)
  PROVE  TypesInv'
<1>1. ASSUME NEW d \in Callers \ {c} PROVE Holds(d)'
  BY <1>1 DEF TypesInv, OthersStay, Holds
<1>2. QED
  BY <1>1 DEF TypesInv

LEMMA MishapCounts == ASSUME TypesInv, Mishap PROVE refusals' \in 0..MaxRefusals
  BY TokenAssumption DEF TokenAssumption, TypesInv, Shapes, Mishap

LEMMA Returns ==
  ASSUME TypesInv, NEW c \in Callers, NEW o \in Outcomes, Return(c, o),
         UNCHANGED <<fields, listing, overlapped, spoilt>>, refusals' \in 0..MaxRefusals,
         days' \in [Callers -> Nat], \A d \in Callers \ {c} : days'[d] = days[d],
         listing[c] # NoHistory => days'[c] <= listing[c]
  PROVE  TypesInv'
<1>1. Shapes'
  BY HourFacts DEF TypesInv, Shapes, Return, Step, fields, Stages
<1>2. Flags'
  BY DEF TypesInv, Flags
<1>3. Holds(c)' /\ OthersStay(c)
  BY DEF TypesInv, Shapes, Return, Step, Holds, OthersStay
<1>4. QED
  BY <1>1, <1>2, <1>3, OneCaller

LEMMA QueryTypes ==
  ASSUME TypesInv, NEW c \in Callers, NEW k \in Listings \cup {NoHistory}, Query(c, k)
  PROVE  TypesInv'
<1>1. Shapes'
  BY DEF TypesInv, Shapes, Query, Step, fields, Stages, Outcomes
<1>2. Flags'
  BY DEF TypesInv, Flags, Query
<1>3. Holds(c)' /\ OthersStay(c)
  <2>1. k # NoHistory => 0 <= k
    BY TokenAssumption DEF TokenAssumption
  <2>2. QED
    BY <2>1 DEF TypesInv, Shapes, Query, Step, Holds, OthersStay
<1>4. QED
  BY <1>1, <1>2, <1>3, OneCaller

(* Whatever is asked is a query.                                           *)
LEMMA CallsAreQueries ==
  ASSUME NEW c \in Callers, Call(c)
  PROVE  \E k \in Listings \cup {NoHistory} : Query(c, k)
  BY DEF Call, PresentPrice, ClosingPrice, TopBottomPrice, AvgPrice, Buy, Index, ForeignAvg, ForeignBuy,
     ForeignPrice, DomesticEtfPrice, DomesticStockPrice

LEMMA CheckTypes ==
  ASSUME TypesInv, NEW c \in Callers, Check(c)
  PROVE  TypesInv'
<1>1. Shapes'
  BY HourFacts DEF TypesInv, Shapes, Check, Step, fields, request, Stages
<1>2. Flags'
  BY DEF TypesInv, Flags, Check
<1>3. Holds(c)' /\ OthersStay(c)
  BY DEF TypesInv, Shapes, Check, Step, request, Holds, OthersStay
<1>4. QED
  BY <1>1, <1>2, <1>3, OneCaller

LEMMA UseTokenTypes ==
  ASSUME TypesInv, NEW c \in Callers, UseToken(c)
  PROVE  TypesInv'
<1>1. Shapes'
  BY HourFacts DEF TypesInv, Shapes, UseToken, Step, fields, request, Stages
<1>2. Flags'
  BY DEF TypesInv, Flags, UseToken
<1>3. Holds(c)' /\ OthersStay(c)
  BY DEF TypesInv, Shapes, UseToken, Step, request, Holds, OthersStay
<1>4. QED
  BY <1>1, <1>2, <1>3, OneCaller

LEMMA GrantedTypes ==
  ASSUME TypesInv, NEW c \in Callers, Granted(c)
  PROVE  TypesInv'
<1>1. Shapes'
  BY HourFacts DEF TypesInv, Shapes, Granted, Step, fields, request, Stages
<1>2. Flags'
  BY DEF TypesInv, Flags, Granted
<1>3. Holds(c)' /\ OthersStay(c)
  BY DEF TypesInv, Shapes, Granted, Step, request, Holds, OthersStay
<1>4. QED
  BY <1>1, <1>2, <1>3, OneCaller

LEMMA KeepTypes ==
  ASSUME TypesInv, NEW c \in Callers, Keep(c)
  PROVE  TypesInv'
<1>1. Shapes'
  BY HourFacts DEF TypesInv, Shapes, Keep, Step, fields, request, Stages
<1>2. Flags'
  BY DEF TypesInv, Flags, Keep
<1>3. Holds(c)' /\ OthersStay(c)
  BY DEF TypesInv, Shapes, Keep, Step, request, Holds, OthersStay
<1>4. QED
  BY <1>1, <1>2, <1>3, OneCaller

LEMMA StampTypes ==
  ASSUME TypesInv, NEW c \in Callers, Stamp(c)
  PROVE  TypesInv'
<1>1. Shapes'
  BY HourFacts DEF TypesInv, Shapes, Stamp, Step, fields, request, Stages
<1>2. Flags'
  BY DEF TypesInv, Flags, Stamp
<1>3. Holds(c)' /\ OthersStay(c)
  BY DEF TypesInv, Shapes, Stamp, Step, request, Holds, OthersStay
<1>4. QED
  BY <1>1, <1>2, <1>3, OneCaller

LEMMA RefusedTypes ==
  ASSUME TypesInv, NEW c \in Callers, Refused(c)
  PROVE  TypesInv'
<1>1. Shapes'
  BY MishapCounts, HourFacts DEF TypesInv, Shapes, Refused, Step, fields, request, Stages
<1>2. Flags'
  BY DEF TypesInv, Flags, Refused
<1>3. Holds(c)' /\ OthersStay(c)
  BY DEF TypesInv, Shapes, Refused, Step, request, Holds, OthersStay
<1>4. QED
  BY <1>1, <1>2, <1>3, OneCaller

LEMMA AskFailsTypes ==
  ASSUME TypesInv, NEW c \in Callers, AskFails(c)
  PROVE  TypesInv'
<1>1. refusals' \in 0..MaxRefusals /\ Return(c, "failed") /\ "failed" \in Outcomes
  BY MishapCounts DEF AskFails, Outcomes
<1>2. QED
  BY <1>1, Returns DEF AskFails, TypesInv, Shapes, Holds

LEMMA RequestFailsTypes ==
  ASSUME TypesInv, NEW c \in Callers, RequestFails(c)
  PROVE  TypesInv'
<1>1. refusals' \in 0..MaxRefusals /\ Return(c, "failed") /\ "failed" \in Outcomes
  BY MishapCounts DEF RequestFails, Outcomes
<1>2. QED
  BY <1>1, Returns DEF RequestFails, TypesInv, Shapes, Holds

LEMMA DeniedTypes ==
  ASSUME TypesInv, NEW c \in Callers, Denied(c)
  PROVE  TypesInv'
<1>1. PICK o \in Outcomes : Return(c, o)
  BY DEF Denied, Outcomes
<1>2. QED
  BY <1>1, Returns DEF Denied, TypesInv, Shapes, Holds

(* The days added up are never more than a share was listed for.           *)
LEMMA AnswerQueryTypes ==
  ASSUME TypesInv, NEW c \in Callers, AnswerQuery(c)
  PROVE  TypesInv'
<1>1. UNCHANGED <<fields, listing, refusals, overlapped, spoilt>> /\ refusals' \in 0..MaxRefusals
  BY DEF AnswerQuery, TypesInv, Shapes
<1>2. "answered" \in Outcomes /\ "empty" \in Outcomes
  BY DEF Outcomes
<1>3. CASE listing[c] = NoHistory
  <2>1. Return(c, "answered") /\ days' = days
    BY <1>3 DEF AnswerQuery
  <2>2. QED
    BY <1>1, <1>2, <1>3, <2>1, Returns DEF TypesInv, Shapes
<1>4. CASE listing[c] # NoHistory
  <2> DEFINE n == DaysOf(c)
  <2>1. n \in Nat /\ days[c] + n <= listing[c] /\ days[c] \in Nat /\ listing[c] \in Nat
    <3>1. days[c] \in Nat /\ listing[c] \in Nat /\ days[c] <= listing[c] /\ Page \in Nat
      BY <1>4, TokenAssumption DEF TokenAssumption, TypesInv, Shapes, Holds
    <3>2. QED
      BY <3>1 DEF DaysOf
  <2>2. days' = [days EXCEPT ![c] = @ + n]
    BY <1>4 DEF AnswerQuery
  <2> HIDE DEF n
  <2>3. /\ days' \in [Callers -> Nat] /\ days'[c] <= listing[c]
        /\ \A d \in Callers \ {c} : days'[d] = days[d]
    BY <2>1, <2>2 DEF TypesInv, Shapes
  <2>4. CASE Return(c, "answered") \/ Return(c, "empty")
    BY <1>1, <1>2, <2>3, <2>4, Returns
  <2>5. CASE /\ Step(c, "check") /\ carried' = [carried EXCEPT ![c] = NoToken]
             /\ UNCHANGED <<grant, slow, outcome>>
    <3>1. Shapes'
      BY <1>1, <2>3, <2>5, HourFacts DEF TypesInv, Shapes, Step, fields, Stages
    <3>2. Flags'
      BY <1>1 DEF TypesInv, Flags
    <3>3. grant[c] = NoToken /\ doing[c] = "send"
      BY DEF AnswerQuery, TypesInv, Holds
    <3>4. Holds(c)' /\ OthersStay(c)
      BY <1>1, <2>3, <2>5, <3>3 DEF TypesInv, Shapes, Step, Holds, OthersStay
    <3>5. QED
      BY <3>1, <3>2, <3>4, OneCaller
  <2>6. QED
    BY <1>4, <2>4, <2>5 DEF AnswerQuery
<1>5. QED
  BY <1>3, <1>4

(* An hour leaves what is no token no token.                               *)
LEMMA HourTypes == ASSUME TypesInv, Hour PROVE TypesInv'
<1>1. refusals' \in 0..MaxRefusals
  <2>1. Mishap \/ refusals' = refusals
    BY DEF Hour
  <2>2. QED
    BY <2>1, MishapCounts DEF TypesInv, Shapes
<1>2. accessToken' \in Tokens /\ tokenExpired' \in Tokens
  BY TokensAge DEF Hour, TypesInv, Shapes
<1>3. grant' \in [Callers -> Tokens] /\ carried' \in [Callers -> Tokens]
  BY TokensAge DEF Hour, TypesInv, Shapes
<1>4. Shapes'
  BY <1>1, <1>2, <1>3 DEF Hour, TypesInv, Shapes, Underway
<1>5. Flags'
  BY DEF Hour, TypesInv, Flags
<1>6. ASSUME NEW c \in Callers PROVE Holds(c)'
  <2>1. grant[c] \in Tokens /\ carried[c] \in Tokens
    BY DEF TypesInv, Shapes
  <2>2. grant'[c] = NoToken <=> grant[c] = NoToken
    BY <2>1, TokensAge DEF Hour
  <2>3. carried'[c] = NoToken <=> carried[c] = NoToken
    BY <2>1, TokensAge DEF Hour
  <2>4. QED
    BY <2>2, <2>3 DEF Hour, TypesInv, Holds, Underway
<1>7. QED
  BY <1>4, <1>5, <1>6 DEF TypesInv

LEMMA RestartTypes == ASSUME TypesInv, Restart PROVE TypesInv'
<1>1. Shapes'
  BY MishapCounts, HourFacts DEF Restart, TypesInv, Shapes, Stages, Outcomes
<1>2. Flags' /\ \A c \in Callers : Holds(c)'
  BY DEF Restart, TypesInv, Flags, Holds
<1>3. QED
  BY <1>1, <1>2 DEF TypesInv

LEMMA TypesStep == ASSUME TypesInv, [TokenNext]_tokenVars PROVE TypesInv'
<1>1. ASSUME NEW c \in Callers, Proceed(c) PROVE TypesInv'
  <2>1. CASE Call(c)
    BY <2>1, CallsAreQueries, QueryTypes
  <2>2. QED
    BY <1>1, <2>1, CheckTypes, UseTokenTypes, GrantedTypes, KeepTypes, StampTypes, AnswerQueryTypes,
       DeniedTypes DEF Proceed
<1>2. CASE UNCHANGED tokenVars
  <2>1. Shapes'
    BY <1>2 DEF tokenVars, fields, request, TypesInv, Shapes
  <2>2. Flags' /\ \A c \in Callers : Holds(c)'
    BY <1>2 DEF tokenVars, fields, request, TypesInv, Flags, Holds
  <2>3. QED
    BY <2>1, <2>2 DEF TypesInv
<1>3. QED
  BY <1>1, <1>2, RefusedTypes, AskFailsTypes, RequestFailsTypes, HourTypes, RestartTypes DEF TokenNext

(* Types of the token: for any number of callers, refusals and restarts.   *)
THEOREM TokenTypesCorrect == TokenSpec => []TokenTypeOK
<1>1. TokenInit => TypesInv
  BY TokenTypesInitially
<1>2. TypesInv /\ [TokenNext]_tokenVars => TypesInv'
  BY TypesStep
<1>3. QED
  BY <1>1, <1>2, TypesInParts, PTL DEF TokenSpec

-----------------------------------------------------------------------------
(* Who asks for a token found none that is fresh, and the fields belong    *)
(* together until the answer is written; then the first field is of the    *)
(* answer, and the second follows.                                         *)
Together(c) ==
  /\ doing[c] \in {"ask", "keep"} => ~LooksFresh /\ accessToken = tokenExpired
  /\ doing[c] = "stamp" => accessToken = grant[c]

OneAsks ==
  /\ ~spoilt
  /\ \A c, d \in Callers : Issuing(c) /\ Issuing(d) => c = d
  /\ \A c \in Callers : Together(c)
  /\ (\A c \in Callers : ~Issuing(c)) => accessToken = tokenExpired

SpoilInv == TypesInv /\ (overlapped \/ OneAsks)

(* A step of one caller that writes neither field and begins no request    *)
(* for a token.                                                            *)
LEMMA Harmless ==
  ASSUME TypesInv, OneAsks, NEW c \in Callers, UNCHANGED <<fields, spoilt>>,
         \A d \in Callers \ {c} : doing'[d] = doing[d] /\ grant'[d] = grant[d],
         doing'[c] \notin {"ask", "keep", "stamp"},
         Issuing(c) => doing[c] # "stamp"
  PROVE  OneAsks'
<1>1. \A d \in Callers : Issuing(d)' => d # c /\ Issuing(d)
  BY DEF Issuing
<1>2. \A d \in Callers : Together(d)'
  BY DEF OneAsks, Together, LooksFresh, fields
<1>3. accessToken = tokenExpired \/ \E d \in Callers \ {c} : Issuing(d)
  BY DEF OneAsks, Together, Issuing
<1>4. (\A d \in Callers : ~Issuing(d)') => accessToken' = tokenExpired'
  BY <1>3 DEF Issuing, fields
<1>5. QED
  BY <1>1, <1>2, <1>4 DEF OneAsks

LEMMA ReturnSound ==
  ASSUME TypesInv, OneAsks, NEW c \in Callers, NEW o, Return(c, o), UNCHANGED <<fields, spoilt>>,
         doing[c] # "stamp"
  PROVE  OneAsks'
<1>1. doing'[c] = "idle" /\ \A d \in Callers \ {c} : doing'[d] = doing[d] /\ grant'[d] = grant[d]
  BY DEF Return, Step, TypesInv, Shapes
<1>2. QED
  BY <1>1, Harmless

LEMMA CheckSound ==
  ASSUME SpoilInv, ~overlapped, NEW c \in Callers, Check(c), ~overlapped'
  PROVE  OneAsks'
<1>1. UNCHANGED <<fields, spoilt, grant>> /\ OneAsks /\ TypesInv
  BY DEF Check, request, SpoilInv
<1>2. CASE LooksFresh
  <2>1. doing'[c] = "take" /\ \A d \in Callers \ {c} : doing'[d] = doing[d]
    BY <1>2 DEF Check, Step, TypesInv, Shapes, SpoilInv
  <2>2. QED
    BY <1>1, <2>1, Harmless DEF Check, Issuing
<1>3. CASE ~LooksFresh
  <2>1. doing'[c] = "ask" /\ \A d \in Callers \ {c} : doing'[d] = doing[d]
    BY <1>1, <1>3 DEF Check, Step, TypesInv, Shapes
  <2>2. \A d \in Callers : ~Issuing(d)
    BY <1>3 DEF Check
  <2>3. accessToken = tokenExpired
    BY <1>1, <2>2 DEF OneAsks
  <2>4. \A d \in Callers : Issuing(d)' => d = c
    BY <2>1, <2>2 DEF Issuing
  <2>5. \A d \in Callers : Together(d)'
    BY <1>1, <1>3, <2>1, <2>3, <2>4 DEF Together, Issuing, LooksFresh, fields
  <2>6. QED
    BY <1>1, <2>3, <2>4, <2>5 DEF OneAsks, fields
<1>4. QED
  BY <1>2, <1>3

LEMMA AnsweredSound ==
  ASSUME SpoilInv, ~overlapped, NEW c \in Callers, Granted(c) \/ Refused(c)
  PROVE  OneAsks'
<1>1. UNCHANGED <<fields, spoilt>> /\ OneAsks /\ TypesInv
  BY DEF Granted, Refused, request, SpoilInv
<1>2. /\ doing[c] = "ask" /\ doing'[c] = "keep"
      /\ \A d \in Callers \ {c} : doing'[d] = doing[d] /\ grant'[d] = grant[d]
  BY <1>1 DEF Granted, Refused, request, Step, TypesInv, Shapes
<1>3. \A d \in Callers : Issuing(d)' = Issuing(d)
  BY <1>2 DEF Issuing
<1>4. \A d \in Callers : Together(d)'
  BY <1>1, <1>2 DEF OneAsks, Together, LooksFresh, fields
<1>5. QED
  BY <1>1, <1>3, <1>4 DEF OneAsks, fields

LEMMA KeepSound ==
  ASSUME SpoilInv, ~overlapped, NEW c \in Callers, Keep(c)
  PROVE  OneAsks'
<1>1. OneAsks /\ TypesInv /\ grant' = grant
  BY DEF Keep, request, SpoilInv
<1>2. /\ doing[c] = "keep" /\ doing'[c] = "stamp" /\ accessToken' = grant[c]
      /\ \A d \in Callers \ {c} : doing'[d] = doing[d]
  BY <1>1 DEF Keep, Step, TypesInv, Shapes
<1>3. \A d \in Callers : Issuing(d)' <=> Issuing(d)
  BY <1>2 DEF Issuing
<1>4. \A d \in Callers : Issuing(d) => d = c
  BY <1>1, <1>2 DEF OneAsks, Issuing
<1>5. \A d \in Callers : Together(d)'
  BY <1>1, <1>2, <1>4 DEF Together, Issuing
<1>6. ~spoilt'
  BY <1>1, <1>2 DEF Keep, OneAsks, Together
<1>7. Issuing(c)
  BY <1>2 DEF Issuing
<1>8. QED
  BY <1>3, <1>4, <1>5, <1>6, <1>7 DEF OneAsks

LEMMA StampSound ==
  ASSUME SpoilInv, ~overlapped, NEW c \in Callers, Stamp(c)
  PROVE  OneAsks'
<1>1. OneAsks /\ TypesInv
  BY DEF SpoilInv
<1>2. /\ doing[c] = "stamp" /\ doing'[c] = "send" /\ tokenExpired' = grant[c]
      /\ accessToken' = accessToken /\ spoilt' = spoilt
      /\ \A d \in Callers \ {c} : doing'[d] = doing[d]
  BY <1>1 DEF Stamp, Step, TypesInv, Shapes
<1>3. \A d \in Callers : Issuing(d) => d = c
  BY <1>1, <1>2 DEF OneAsks, Issuing
<1>4. \A d \in Callers : ~Issuing(d)'
  BY <1>2, <1>3 DEF Issuing
<1>5. accessToken' = tokenExpired'
  BY <1>1, <1>2 DEF OneAsks, Together
<1>6. \A d \in Callers : Together(d)'
  BY <1>4 DEF Together, Issuing
<1>7. QED
  BY <1>1, <1>2, <1>4, <1>5, <1>6 DEF OneAsks

(* Both fields age alike, and so does the answer that is being written.    *)
LEMMA HourSound ==
  ASSUME SpoilInv, ~overlapped, Hour
  PROVE  OneAsks'
<1>1. OneAsks /\ TypesInv /\ doing' = doing /\ spoilt' = spoilt
  BY DEF Hour, SpoilInv
<1>2. accessToken' = Older(accessToken) /\ tokenExpired' = Older(tokenExpired)
  BY DEF Hour
<1>3. accessToken \in Tokens /\ tokenExpired \in Tokens
  BY <1>1 DEF TypesInv, Shapes
<1>4. ~LooksFresh => ~LooksFresh'
  <2>1. CASE accessToken = NoToken \/ tokenExpired = NoToken
    BY <1>2, <1>3, <2>1, TokensAge DEF LooksFresh
  <2>2. CASE tokenExpired # NoToken /\ ~(tokenExpired > Skew)
    <3>1. tokenExpired <= Skew
      BY <1>3, <2>2, TokensAge, HourFacts
    <3>2. Older(tokenExpired) <= Skew /\ Older(tokenExpired) \in Int
      BY <1>3, <2>2, <3>1, TokensAge
    <3>3. QED
      BY <1>2, <3>2, HourFacts DEF LooksFresh
  <2>3. QED
    BY <2>1, <2>2 DEF LooksFresh
<1>5. \A c \in Callers : Together(c)'
  BY <1>1, <1>2, <1>4 DEF OneAsks, Together, Hour
<1>6. QED
  BY <1>1, <1>2, <1>5 DEF OneAsks, Issuing

LEMMA RestartSound == ASSUME Restart PROVE OneAsks'
  BY DEF Restart, OneAsks, Together, Issuing

LEMMA SpoilStep == ASSUME SpoilInv, [TokenNext]_tokenVars PROVE SpoilInv'
<1>1. TypesInv /\ TypesInv'
  BY TypesStep DEF SpoilInv
<1>2. CASE overlapped
  <2>1. CASE Restart
    BY <1>1, <2>1, RestartSound DEF SpoilInv
  <2>2. CASE UNCHANGED tokenVars
    BY <1>1, <1>2, <2>2 DEF tokenVars, SpoilInv
  <2>3. CASE Hour
    BY <1>1, <1>2, <2>3 DEF Hour, SpoilInv
  <2>4. ASSUME NEW c \in Callers, Proceed(c) \/ Refused(c) \/ AskFails(c) \/ RequestFails(c)
        PROVE  SpoilInv'
    <3>1. CASE Call(c)
      <4>1. PICK k \in Listings \cup {NoHistory} : Query(c, k)
        BY <3>1, CallsAreQueries
      <4>2. QED
        BY <1>1, <1>2, <4>1 DEF Query, SpoilInv
    <3>2. QED
      BY <1>1, <1>2, <2>4, <3>1 DEF Proceed, Check, UseToken, Granted, Keep, Stamp, AnswerQuery, Denied,
         Refused, AskFails, RequestFails, SpoilInv
  <2>5. QED
    BY <2>1, <2>2, <2>3, <2>4 DEF TokenNext
<1>3. CASE ~overlapped
  <2>1. OneAsks
    BY <1>3 DEF SpoilInv
  <2>2. ASSUME NEW c \in Callers, Proceed(c) \/ Refused(c) \/ AskFails(c) \/ RequestFails(c)
        PROVE  SpoilInv'
    <3>1. CASE Call(c)
      <4>1. PICK k \in Listings \cup {NoHistory} : Query(c, k)
        BY <3>1, CallsAreQueries
      <4>2. /\ doing[c] = "idle" /\ doing'[c] = "check" /\ UNCHANGED <<fields, spoilt, grant>>
            /\ \A d \in Callers \ {c} : doing'[d] = doing[d]
        BY <1>1, <4>1 DEF Query, Step, TypesInv, Shapes
      <4>3. QED
        BY <1>1, <2>1, <4>2, Harmless DEF SpoilInv, Issuing
    <3>2. CASE Check(c)
      BY <1>1, <1>3, <3>2, CheckSound DEF SpoilInv
    <3>3. CASE UseToken(c)
      <4>1. /\ doing[c] = "take" /\ doing'[c] = "send" /\ UNCHANGED <<fields, spoilt, grant>>
            /\ \A d \in Callers \ {c} : doing'[d] = doing[d]
        BY <1>1, <3>3 DEF UseToken, Step, TypesInv, Shapes
      <4>2. QED
        BY <1>1, <2>1, <4>1, Harmless DEF SpoilInv, Issuing
    <3>4. CASE Granted(c) \/ Refused(c)
      BY <1>1, <1>3, <3>4, AnsweredSound DEF SpoilInv
    <3>5. CASE Keep(c)
      BY <1>1, <1>3, <3>5, KeepSound DEF SpoilInv
    <3>6. CASE Stamp(c)
      BY <1>1, <1>3, <3>6, StampSound DEF SpoilInv
    <3>7. CASE AnswerQuery(c)
      <4>1. doing[c] = "send" /\ UNCHANGED <<fields, spoilt>>
        BY <3>7 DEF AnswerQuery
      <4>2. CASE \E o \in Outcomes : Return(c, o)
        BY <1>1, <2>1, <4>1, <4>2, ReturnSound DEF SpoilInv
      <4>3. CASE Step(c, "check") /\ UNCHANGED grant
        <5>1. doing'[c] = "check" /\ \A d \in Callers \ {c} : doing'[d] = doing[d]
          BY <1>1, <4>3 DEF Step, TypesInv, Shapes
        <5>2. QED
          BY <1>1, <2>1, <4>1, <4>3, <5>1, Harmless DEF SpoilInv, Issuing
      <4>4. QED
        BY <3>7, <4>2, <4>3 DEF AnswerQuery, Outcomes
    <3>8. CASE Denied(c)
      <4>1. PICK o \in Outcomes : Return(c, o)
        BY <3>8 DEF Denied, Outcomes
      <4>2. QED
        BY <1>1, <2>1, <3>8, <4>1, ReturnSound DEF Denied, SpoilInv
    <3>9. CASE AskFails(c) \/ RequestFails(c)
      BY <1>1, <2>1, <3>9, ReturnSound DEF AskFails, RequestFails, SpoilInv
    <3>10. QED
      BY <2>2, <3>1, <3>2, <3>3, <3>4, <3>5, <3>6, <3>7, <3>8, <3>9 DEF Proceed
  <2>3. CASE Hour
    BY <1>1, <1>3, <2>3, HourSound DEF SpoilInv
  <2>4. CASE Restart
    BY <1>1, <2>4, RestartSound DEF SpoilInv
  <2>5. CASE UNCHANGED tokenVars
    BY <1>1, <2>1, <2>5 DEF tokenVars, fields, request, SpoilInv, OneAsks, Together, Issuing, LooksFresh
  <2>6. QED
    BY <2>2, <2>3, <2>4, <2>5 DEF TokenNext
<1>4. QED
  BY <1>2, <1>3

LEMMA SpoilInitially == ASSUME TokenInit PROVE SpoilInv
  BY TokenTypesInitially DEF TokenInit, SpoilInv, OneAsks, Together, Issuing

(* A token in use is replaced by none, and the fields belong to different  *)
(* tokens, only where two callers had asked for one at once.               *)
THEOREM OverlapsSpoil == TokenSpec => []OnlyOverlapsSpoil
<1>1. TokenInit => SpoilInv
  BY SpoilInitially
<1>2. SpoilInv /\ [TokenNext]_tokenVars => SpoilInv'
  BY SpoilStep
<1>3. SpoilInv => OnlyOverlapsSpoil
  BY DEF SpoilInv, OneAsks, OnlyOverlapsSpoil
<1>4. QED
  BY <1>1, <1>2, <1>3, PTL DEF TokenSpec

-----------------------------------------------------------------------------
(* Who asks for a token found the expiry passed, until it is written anew. *)
Passed == tokenExpired = NoToken \/ tokenExpired <= Skew
AskedInTime == ~overlapped => \A c \in Callers : Issuing(c) => Passed

(* A token under way for less than an hour is good, and one found fresh    *)
(* still is.                                                               *)
Good(t) == t = NoToken \/ t > 0
GoodOnTheWay(c) ==
  /\ doing[c] = "take" => LooksFresh
  /\ doing[c] \in {"keep", "stamp"} => Good(grant[c])
  /\ doing[c] = "send" => Good(carried[c])
DeniedExplained ==
  Skew < 0 \/ overlapped \/ \A c \in Callers : outcome[c] # "denied" /\ (c \in slow \/ GoodOnTheWay(c))

(* Until the broker refuses a token there is one in every request.         *)
Furnished(c) ==
  /\ doing[c] = "take" => accessToken # NoToken
  /\ doing[c] \in {"keep", "stamp"} => grant[c] # NoToken
  /\ doing[c] = "send" => carried[c] # NoToken
  /\ outcome[c] # "tokenless"
TokenlessExplained == refusals > 0 \/ \A c \in Callers : Furnished(c)

(* No days or a page of them have come when the next answer is asked for.  *)
DaysExplained(c) ==
  /\ outcome[c] # "none" => doing[c] = "idle"
  /\ listing[c] # NoHistory =>
       /\ doing[c] # "idle" => days[c] = 0 \/ (days[c] = Page /\ listing[c] >= Page)
       /\ outcome[c] = "answered" =>
            days[c] = IF listing[c] < 2 * Page THEN listing[c] ELSE 2 * Page
       /\ outcome[c] = "empty" => listing[c] \in {0, Page}

ExplainInv ==
  /\ AskedInTime /\ DeniedExplained /\ TokenlessExplained
  /\ \A c \in Callers : DaysExplained(c)

CallerStep(c) == Proceed(c) \/ Refused(c) \/ AskFails(c) \/ RequestFails(c)

(* A caller's own step leaves what the others have under way.              *)
RestStays(c) ==
  /\ \A d \in Callers \ {c} :
       /\ UNCHANGED <<doing[d], grant[d], carried[d], listing[d], days[d], outcome[d]>>
       /\ d \in slow' <=> d \in slow
  /\ overlapped => overlapped'
  /\ refusals > 0 => refusals' > 0

LEMMA StepsApart ==
  ASSUME TypesInv, NEW c \in Callers, CallerStep(c)
  PROVE  RestStays(c)
<1>1. refusals \in Nat
  BY DEF TypesInv, Shapes
<1>2. CASE Call(c)
  <2>1. PICK k \in Listings \cup {NoHistory} : Query(c, k)
    BY <1>2, CallsAreQueries
  <2>2. QED
    BY <2>1 DEF Query, Step, TypesInv, Shapes, RestStays
<1>3. CASE Check(c) \/ UseToken(c) \/ Granted(c) \/ Keep(c) \/ Stamp(c) \/ Refused(c)
  <2>1. \A d \in Callers \ {c} :
          /\ UNCHANGED <<doing[d], grant[d], carried[d], listing[d], days[d], outcome[d]>>
          /\ d \in slow' <=> d \in slow
    BY <1>3 DEF Check, UseToken, Granted, Keep, Stamp, Refused, Step, request, TypesInv, Shapes
  <2>2. overlapped => overlapped'
    BY <1>3 DEF Check, UseToken, Granted, Keep, Stamp, Refused
  <2>3. refusals > 0 => refusals' > 0
    BY <1>1, <1>3 DEF Check, UseToken, Granted, Keep, Stamp, Refused, Mishap
  <2>4. QED
    BY <2>1, <2>2, <2>3 DEF RestStays
<1>4. CASE AnswerQuery(c)
  <2>1. /\ UNCHANGED <<listing, refusals, overlapped>>
        /\ \A d \in Callers \ {c} : days'[d] = days[d]
    BY <1>4 DEF AnswerQuery, TypesInv, Shapes
  <2>2. \/ \E o \in Outcomes : Return(c, o)
        \/ Step(c, "check") /\ carried' = [carried EXCEPT ![c] = NoToken] /\ UNCHANGED <<grant, slow, outcome>>
    BY <1>4 DEF AnswerQuery, Outcomes
  <2>3. QED
    BY <2>1, <2>2 DEF Return, Step, TypesInv, Shapes, RestStays
<1>5. CASE Denied(c) \/ AskFails(c) \/ RequestFails(c)
  BY <1>1, <1>5 DEF Denied, AskFails, RequestFails, Return, Mishap, Step, TypesInv, Shapes, RestStays
<1>6. QED
  BY <1>2, <1>3, <1>4, <1>5 DEF CallerStep, Proceed

LEMMA Expiries ==
  ASSUME TypesInv
  PROVE  /\ Skew \in Int /\ tokenExpired \in Tokens /\ (tokenExpired # NoToken => tokenExpired \in Int)
         /\ Passed => ~LooksFresh
  BY HourFacts, TokensAge DEF TypesInv, Shapes, Passed, LooksFresh

LEMMA AskedInTimeKept ==
  ASSUME TypesInv, overlapped \/ OneAsks, AskedInTime, [TokenNext]_tokenVars
  PROVE  AskedInTime'
<1>1. ASSUME NEW c \in Callers, CallerStep(c), ~overlapped', NEW d \in Callers, Issuing(d)'
      PROVE  Passed'
  <2>1. RestStays(c) /\ ~overlapped
    BY <1>1, StepsApart DEF RestStays
  <2>2. OneAsks /\ (Issuing(d) => Passed)
    BY <2>1 DEF AskedInTime
  <2>3. CASE Stamp(c)
    <3>1. Issuing(c) /\ doing'[c] = "send"
      BY <2>3 DEF Stamp, Issuing, Step, TypesInv, Shapes
    <3>2. d = c
      BY <1>1, <2>1, <2>2, <3>1 DEF OneAsks, Issuing, RestStays
    <3>3. QED
      BY <1>1, <3>1, <3>2 DEF Issuing
  <2>4. CASE Check(c) /\ ~LooksFresh /\ d = c
    <3>1. \A e \in Callers : ~Issuing(e)
      BY <1>1, <2>4 DEF Check
    <3>2. accessToken = tokenExpired /\ UNCHANGED tokenExpired
      BY <2>2, <2>4, <3>1 DEF OneAsks, Check, fields
    <3>3. Passed
      BY <2>4, <3>2, Expiries, HourFacts DEF LooksFresh, Passed
    <3>4. QED
      BY <3>2, <3>3 DEF Passed
  <2>5. CASE ~Stamp(c) /\ ~(Check(c) /\ ~LooksFresh /\ d = c)
    <3>1. UNCHANGED tokenExpired
      <4>1. CASE Call(c)
        BY <4>1, CallsAreQueries DEF Query, fields
      <4>2. QED
        BY <1>1, <2>5, <4>1 DEF CallerStep, Proceed, Check, UseToken, Granted, Keep, AnswerQuery, Denied,
           Refused, AskFails, RequestFails, fields
    <3>2. Issuing(d)
      <4>1. CASE d # c
        BY <1>1, <2>1, <4>1 DEF RestStays, Issuing
      <4>2. CASE d = c
        <5>1. CASE Call(c)
          BY <1>1, <4>2, <5>1, CallsAreQueries DEF Query, Step, Issuing, TypesInv, Shapes
        <5>2. CASE Check(c)
          BY <1>1, <2>5, <4>2, <5>2 DEF Check, Step, Issuing, TypesInv, Shapes
        <5>3. CASE UseToken(c) \/ Granted(c) \/ Keep(c) \/ Refused(c)
          BY <1>1, <4>2, <5>3 DEF UseToken, Granted, Keep, Refused, Step, Issuing, TypesInv, Shapes
        <5>4. CASE AnswerQuery(c) \/ Denied(c) \/ AskFails(c) \/ RequestFails(c)
          BY <1>1, <4>2, <5>4 DEF AnswerQuery, Denied, AskFails, RequestFails, Return, Step, Issuing,
             TypesInv, Shapes
        <5>5. QED
          BY <1>1, <2>5, <5>1, <5>2, <5>3, <5>4 DEF CallerStep, Proceed
      <4>3. QED
        BY <4>1, <4>2
    <3>3. QED
      BY <2>2, <3>1, <3>2 DEF Passed
  <2>6. QED
    BY <2>3, <2>4, <2>5
<1>2. CASE Hour
  <2>1. /\ doing' = doing /\ overlapped' = overlapped /\ tokenExpired' = Older(tokenExpired)
        /\ tokenExpired \in Tokens
    BY <1>2 DEF Hour, TypesInv, Shapes
  <2>2. Passed => Passed'
    BY <2>1, TokensAge DEF Passed
  <2>3. QED
    BY <2>1, <2>2 DEF AskedInTime, Issuing
<1>3. CASE Restart
  BY <1>3 DEF Restart, AskedInTime, Issuing
<1>4. CASE UNCHANGED tokenVars
  BY <1>4 DEF tokenVars, fields, AskedInTime, Issuing, Passed
<1>5. QED
  BY <1>1, <1>2, <1>3, <1>4 DEF AskedInTime, TokenNext, CallerStep

(* A token found fresh is not replaced while it is on its way.             *)
LEMMA DeniedKept ==
  ASSUME TypesInv, overlapped \/ OneAsks, AskedInTime, DeniedExplained, [TokenNext]_tokenVars
  PROVE  DeniedExplained'
<1> SUFFICES ASSUME ~(Skew < 0), ~overlapped', NEW c \in Callers
             PROVE  (outcome[c] # "denied")' /\ (c \in slow' \/ GoodOnTheWay(c)')
  BY DEF DeniedExplained
<1>1. CASE Hour
  <2>1. doing' = doing /\ outcome' = outcome /\ slow' = Underway /\ ~overlapped
    BY <1>1 DEF Hour
  <2>2. QED
    BY <2>1 DEF DeniedExplained, Underway, GoodOnTheWay
<1>2. CASE Restart
  BY <1>2 DEF Restart, GoodOnTheWay
<1>3. CASE UNCHANGED tokenVars
  BY <1>3 DEF tokenVars, fields, request, DeniedExplained, GoodOnTheWay, LooksFresh, Good
<1>4. ASSUME NEW d \in Callers, CallerStep(d)
      PROVE  outcome'[c] # "denied" /\ (c \in slow' \/ GoodOnTheWay(c)')
  <2>1. RestStays(d) /\ ~overlapped /\ OneAsks
    BY <1>4, StepsApart DEF RestStays
  <2>2. \A e \in Callers : outcome[e] # "denied" /\ (e \in slow \/ GoodOnTheWay(e))
    BY <2>1 DEF DeniedExplained
  <2>3. \A e \in Callers : Issuing(e) => ~LooksFresh
    BY <2>1, Expiries DEF AskedInTime
  <2>4. CASE c # d
    <3>1. (\A e \in Callers : ~Issuing(e)) => UNCHANGED fields
      <4>1. CASE Call(d)
        BY <4>1, CallsAreQueries DEF Query
      <4>2. QED
        BY <1>4, <4>1 DEF CallerStep, Proceed, Check, UseToken, Granted, Keep, Stamp, AnswerQuery, Denied,
           Refused, AskFails, RequestFails, Issuing
    <3>2. UNCHANGED <<doing[c], grant[c], carried[c], outcome[c]>> /\ (c \in slow' <=> c \in slow)
      BY <2>1, <2>4 DEF RestStays
    <3>3. LooksFresh => LooksFresh'
      BY <2>3, <3>1 DEF LooksFresh, fields
    <3>4. QED
      BY <2>2, <3>2, <3>3 DEF GoodOnTheWay, Good
  <2>5. CASE c = d
    <3>1. CASE Call(d)
      BY <2>5, <3>1, CallsAreQueries DEF Query, Step, GoodOnTheWay, TypesInv, Shapes
    <3>2. CASE Check(d)
      BY <2>2, <2>5, <3>2 DEF Check, Step, GoodOnTheWay, LooksFresh, fields, TypesInv, Shapes
    <3>3. CASE UseToken(d)
      <4>1. /\ doing[c] = "take" /\ doing'[c] = "send" /\ carried'[c] = accessToken
            /\ UNCHANGED <<slow, outcome>>
        BY <2>5, <3>3 DEF UseToken, Step, TypesInv, Shapes
      <4>2. ASSUME c \notin slow PROVE Good(accessToken)
        <5>1. LooksFresh
          BY <2>2, <4>1, <4>2 DEF GoodOnTheWay
        <5>2. accessToken = tokenExpired
          BY <2>1, <2>3, <5>1 DEF OneAsks
        <5>3. QED
          BY <5>1, <5>2, Expiries, HourFacts DEF LooksFresh, Good
      <4>3. QED
        BY <2>2, <4>1, <4>2 DEF GoodOnTheWay, Good
    <3>4. CASE Granted(d) \/ Refused(d)
      <4>1. /\ doing[c] = "ask" /\ doing'[c] = "keep" /\ UNCHANGED <<slow, outcome>>
            /\ grant'[c] = Life \/ grant'[c] = grant[c]
        BY <2>5, <3>4 DEF Granted, Refused, request, Step, TypesInv, Shapes
      <4>2. grant[c] = NoToken
        BY <4>1 DEF TypesInv, Holds
      <4>3. Good(grant'[c])
        BY <4>1, <4>2, HourFacts DEF Good
      <4>4. QED
        BY <2>2, <4>1, <4>3 DEF GoodOnTheWay, Good
    <3>5. CASE Keep(d) \/ Stamp(d)
      <4>1. /\ doing[c] \in {"keep", "stamp"} /\ UNCHANGED <<slow, outcome>>
            /\ \/ doing'[c] = "stamp" /\ grant'[c] = grant[c]
               \/ doing'[c] = "send" /\ carried'[c] = grant[c]
        BY <2>5, <3>5 DEF Keep, Stamp, request, Step, TypesInv, Shapes
      <4>2. QED
        BY <2>2, <4>1 DEF GoodOnTheWay, Good
    <3>6. CASE AnswerQuery(d) \/ AskFails(d) \/ RequestFails(d)
      <4>1. doing'[c] \in {"idle", "check"} /\ outcome'[c] \in {outcome[c], "answered", "empty", "failed"}
        BY <2>5, <3>6 DEF AnswerQuery, AskFails, RequestFails, Return, Step, TypesInv, Shapes
      <4>2. QED
        BY <2>2, <4>1 DEF GoodOnTheWay
    <3>7. CASE Denied(d)
      <4>1. /\ doing[c] = "send" /\ doing'[c] = "idle" /\ carried[c] \in Tokens /\ ~Valid(carried[c])
            /\ outcome'[c] = IF carried[c] = NoToken THEN "tokenless"
                             ELSE IF c \in slow THEN "late" ELSE "denied"
        BY <2>5, <3>7 DEF Denied, Return, Step, TypesInv, Shapes
      <4>2. c \in slow \/ carried[c] = NoToken
        BY <2>2, <4>1 DEF GoodOnTheWay, Good, Valid
      <4>3. QED
        BY <4>1, <4>2 DEF GoodOnTheWay
    <3>8. QED
      BY <1>4, <3>1, <3>2, <3>3, <3>4, <3>5, <3>6, <3>7 DEF CallerStep, Proceed
  <2>6. QED
    BY <2>4, <2>5
<1>5. QED
  BY <1>1, <1>2, <1>3, <1>4 DEF TokenNext, CallerStep

LEMMA TokenlessKept ==
  ASSUME TypesInv, TypesInv', TokenlessExplained, [TokenNext]_tokenVars
  PROVE  TokenlessExplained'
<1> SUFFICES ASSUME ~(refusals' > 0), NEW c \in Callers PROVE Furnished(c)'
  BY DEF TokenlessExplained
<1>1. refusals \in Nat /\ refusals' \in Nat
  BY DEF TypesInv, Shapes
<1>2. CASE Hour
  <2>1. refusals = 0
    BY <1>1, <1>2 DEF Hour, Mishap
  <2>2. Furnished(c) /\ accessToken \in Tokens /\ grant[c] \in Tokens /\ carried[c] \in Tokens
    BY <2>1 DEF TokenlessExplained, TypesInv, Shapes
  <2>3. /\ doing' = doing /\ outcome' = outcome /\ accessToken' = Older(accessToken)
        /\ grant'[c] = Older(grant[c]) /\ carried'[c] = Older(carried[c])
    BY <1>2 DEF Hour
  <2>4. QED
    BY <2>2, <2>3, TokensAge DEF Furnished
<1>3. CASE Restart
  BY <1>3 DEF Restart, Furnished
<1>4. CASE UNCHANGED tokenVars
  BY <1>4 DEF tokenVars, fields, request, TokenlessExplained, Furnished
<1>5. ASSUME NEW d \in Callers, CallerStep(d) PROVE Furnished(c)'
  <2>1. RestStays(d) /\ \A e \in Callers : Furnished(e)
    BY <1>5, StepsApart DEF RestStays, TokenlessExplained
  <2>2. accessToken' = accessToken \/ (accessToken' # NoToken /\ UNCHANGED outcome)
    <3>1. CASE Call(d)
      BY <3>1, CallsAreQueries DEF Query, fields
    <3>2. CASE Keep(d)
      BY <2>1, <3>2 DEF Keep, Furnished
    <3>3. QED
      BY <1>5, <3>1, <3>2 DEF CallerStep, Proceed, Check, UseToken, Granted, Stamp, AnswerQuery, Denied,
         Refused, AskFails, RequestFails, fields
  <2>3. CASE c # d
    BY <2>1, <2>2, <2>3 DEF RestStays, Furnished
  <2>4. CASE c = d
    <3>1. CASE Call(d)
      BY <2>4, <3>1, CallsAreQueries DEF Query, Step, Furnished, TypesInv, Shapes
    <3>2. CASE Check(d)
      BY <2>1, <2>4, <3>2 DEF Check, Step, Furnished, LooksFresh, fields, TypesInv, Shapes
    <3>3. CASE UseToken(d) \/ Granted(d) \/ Keep(d) \/ Stamp(d)
      BY <2>1, <2>4, <3>3, HourFacts DEF UseToken, Granted, Keep, Stamp, request, Step, Furnished, TypesInv, Shapes
    <3>4. CASE AnswerQuery(d)
      BY <2>1, <2>4, <3>4 DEF AnswerQuery, Return, Step, Furnished, TypesInv, Shapes
    <3>5. CASE Denied(d)
      BY <2>1, <2>4, <3>5 DEF Denied, Return, Step, Furnished, TypesInv, Shapes
    <3>6. CASE Refused(d) \/ AskFails(d) \/ RequestFails(d)
      BY <1>1, <3>6 DEF Refused, AskFails, RequestFails, Mishap
    <3>7. QED
      BY <1>5, <3>1, <3>2, <3>3, <3>4, <3>5, <3>6 DEF CallerStep, Proceed
  <2>5. QED
    BY <2>3, <2>4
<1>6. QED
  BY <1>2, <1>3, <1>4, <1>5 DEF TokenNext, CallerStep

(* An average takes two answers at most.                                   *)
LEMMA DaysCome ==
  ASSUME TypesInv, NEW c \in Callers, DaysExplained(c), AnswerQuery(c)
  PROVE  DaysExplained(c)'
<1>1. doing[c] = "send" /\ outcome[c] = "none" /\ UNCHANGED listing
  BY DEF AnswerQuery, DaysExplained
<1>2. CASE listing[c] = NoHistory
  BY <1>1, <1>2 DEF AnswerQuery, DaysExplained, Return, Step, TypesInv, Shapes
<1>3. CASE listing[c] # NoHistory
  <2> DEFINE n == DaysOf(c)
  <2>1. /\ Page \in Nat \ {0} /\ listing[c] \in Nat /\ days[c] \in Nat /\ days[c] <= listing[c]
        /\ days[c] = 0 \/ (days[c] = Page /\ listing[c] >= Page)
    BY <1>1, <1>3, TokenAssumption DEF TokenAssumption, TypesInv, Shapes, Holds, DaysExplained
  <2>2. n \in Nat /\ n = IF listing[c] - days[c] < Page THEN listing[c] - days[c] ELSE Page
    BY <2>1 DEF DaysOf
  <2>3. /\ days'[c] = days[c] + n
        /\ \/ n = 0 /\ doing'[c] = "idle" /\ outcome'[c] = "empty"
           \/ n # 0 /\ days[c] + n # Page /\ doing'[c] = "idle" /\ outcome'[c] = "answered"
           \/ n # 0 /\ days[c] + n = Page /\ doing'[c] = "check" /\ outcome'[c] = outcome[c]
    BY <1>3, <2>1 DEF AnswerQuery, Return, Step, TypesInv, Shapes
  <2> HIDE DEF n
  <2>4. CASE n = 0
    <3>1. listing[c] \in {0, Page}
      BY <2>1, <2>2, <2>4
    <3>2. QED
      BY <1>1, <2>3, <2>4, <3>1 DEF DaysExplained
  <2>5. CASE n # 0 /\ days[c] + n # Page
    <3>1. days'[c] = IF listing[c] < 2 * Page THEN listing[c] ELSE 2 * Page
      BY <2>1, <2>2, <2>3, <2>5
    <3>2. QED
      BY <1>1, <2>3, <2>5, <3>1 DEF DaysExplained
  <2>6. CASE n # 0 /\ days[c] + n = Page
    <3>1. days'[c] = Page /\ listing[c] >= Page
      BY <2>1, <2>2, <2>3, <2>6
    <3>2. QED
      BY <1>1, <2>3, <2>6, <3>1 DEF DaysExplained
  <2>7. QED
    BY <2>4, <2>5, <2>6
<1>4. QED
  BY <1>2, <1>3

LEMMA DaysKept ==
  ASSUME TypesInv, \A c \in Callers : DaysExplained(c), [TokenNext]_tokenVars, NEW c \in Callers
  PROVE  DaysExplained(c)'
<1>1. CASE UNCHANGED <<doing, outcome, listing, days>>
  BY <1>1 DEF DaysExplained
<1>2. CASE Restart
  BY <1>2 DEF Restart, DaysExplained
<1>3. ASSUME NEW d \in Callers, CallerStep(d) PROVE DaysExplained(c)'
  <2>1. RestStays(d)
    BY <1>3, StepsApart
  <2>2. CASE c # d
    BY <2>1, <2>2 DEF RestStays, DaysExplained
  <2>3. CASE c = d
    <3>1. CASE Call(d)
      BY <2>3, <3>1, CallsAreQueries DEF Query, Step, DaysExplained, TypesInv, Shapes
    <3>2. CASE Check(d) \/ UseToken(d) \/ Granted(d) \/ Keep(d) \/ Stamp(d) \/ Refused(d)
      <4>1. doing[c] # "idle" /\ doing'[c] # "idle" /\ UNCHANGED <<outcome, listing, days>>
        BY <2>3, <3>2 DEF Check, UseToken, Granted, Keep, Stamp, Refused, request, Step, TypesInv, Shapes
      <4>2. QED
        BY <4>1 DEF DaysExplained
    <3>3. CASE Denied(d) \/ AskFails(d) \/ RequestFails(d)
      <4>1. /\ doing'[c] = "idle" /\ UNCHANGED <<listing, days>>
            /\ outcome'[c] \in {"tokenless", "late", "denied", "failed"}
        BY <2>3, <3>3 DEF Denied, AskFails, RequestFails, Return, Step, TypesInv, Shapes
      <4>2. QED
        BY <4>1 DEF DaysExplained
    <3>4. QED
      BY <1>3, <2>3, <3>1, <3>2, <3>3, DaysCome DEF CallerStep, Proceed
  <2>4. QED
    BY <2>2, <2>3
<1>4. QED
  BY <1>1, <1>2, <1>3 DEF TokenNext, CallerStep, Hour, tokenVars, request

LEMMA ExplainedInitially == ASSUME TokenInit PROVE ExplainInv
  BY DEF TokenInit, ExplainInv, AskedInTime, DeniedExplained, TokenlessExplained, DaysExplained, Issuing,
     GoodOnTheWay, Furnished

(* Whatever callers, refusals, hours and restarts come between: a request  *)
(* goes out without a token only after a refusal, is denied only for a     *)
(* clock behind or two that asked at once, and an average is one over the  *)
(* days there are, two pages at most (GetToken, sendRequest, ForeignAvg).  *)
THEOREM OutcomesExplained == TokenSpec => []OutcomesAreExplained
<1>1. TokenInit => SpoilInv /\ ExplainInv
  BY SpoilInitially, ExplainedInitially
<1>2. SpoilInv /\ ExplainInv /\ [TokenNext]_tokenVars => SpoilInv' /\ ExplainInv'
  <2> SUFFICES ASSUME SpoilInv, ExplainInv, [TokenNext]_tokenVars PROVE SpoilInv' /\ ExplainInv'
    OBVIOUS
  <2>1. SpoilInv' /\ TypesInv /\ TypesInv' /\ (overlapped \/ OneAsks)
    BY SpoilStep, TypesStep DEF SpoilInv
  <2>2. \A c \in Callers : DaysExplained(c)'
    BY <2>1, DaysKept DEF ExplainInv
  <2>3. AskedInTime' /\ DeniedExplained' /\ TokenlessExplained'
    BY <2>1, AskedInTimeKept, DeniedKept, TokenlessKept DEF ExplainInv
  <2>4. QED
    BY <2>1, <2>2, <2>3 DEF ExplainInv
<1>3. ExplainInv => OutcomesAreExplained
  BY DEF ExplainInv, DeniedExplained, TokenlessExplained, Furnished, DaysExplained, OutcomesAreExplained
<1>4. QED
  BY <1>1, <1>2, <1>3, PTL DEF TokenSpec


(***************************************************************************)
(* The stream                                                              *)
(***************************************************************************)
LEMMA TwoTopics ==
  /\ DOMAIN Topics = 1..2 /\ Len(Topics) = 2
  /\ \A i \in 1..2 : Topics[i] \in TopicSet
  BY DEF Topics, TopicSet

LEMMA MessageKinds ==
  ASSUME NEW m \in Messages
  PROVE  /\ m.kind = "notice" => m.order \in Orders /\ m.executed \in BOOLEAN
         /\ m.kind = "response" => m.ok \in BOOLEAN
  BY DEF Messages, Ping, Response, Notice

LEMMA Made ==
  /\ Ping \in Messages
  /\ \A t \in TopicSet, ok \in BOOLEAN : Response(t, ok) \in Messages
  /\ \A o \in Orders, b \in BOOLEAN : Notice(o, b) \in Messages
  BY DEF Messages

LEMMA OnTheWire ==
  ASSUME wire \in Seq(Messages)
  PROVE  /\ wire # <<>> => Head(wire) \in Messages /\ Tail(wire) \in Seq(Messages)
         /\ \A m \in Messages : Append(wire, m) \in Seq(Messages)
  BY HeadTailProperties

(* Whatever the pause was and however long the stream ran: the next is     *)
(* the first one again, or twice one of at most a day.                     *)
LEMMA PauseIsBounded ==
  ASSUME NEW b \in 1 .. 2 * Day, NEW up \in Uptimes
  PROVE  NextBackoff(b, up) \in 1 .. 2 * Day
<1>1. Day \in Nat \ {0} /\ up \in Nat /\ b \in Nat
  BY StreamAssumption DEF StreamAssumption
<1>2. QED
  BY <1>1 DEF NextBackoff

Connected == {"subscribe", "response", "receive", "callback", "close"}

(* TypeOK in parts: the connection, and the rest.                          *)
Line ==
  /\ at \in Connected \cup {"start", "connect", "sleep"}
  /\ conn \in BOOLEAN /\ (conn <=> at \in Connected)
  /\ link \in {"none", "up", "dead"} /\ (link = "none" <=> ~conn)
  /\ (conn /\ opened = 1) \/ (~conn /\ opened = 0)
Load ==
  /\ topic \in DOMAIN Topics /\ keys \in SUBSET TopicSet
  /\ hand \in Orders \cup {None} /\ (hand # None <=> at = "callback")
  /\ asked \in TopicSet \cup {None} /\ serving \in SUBSET TopicSet
  /\ wire \in Seq(Messages)
  /\ pings \in Nat /\ faults \in Nat
  /\ fate \in [Orders -> {"new", "placed", "executed", "given"}]
  /\ backoff \in 1 .. 2 * Day

LEMMA InParts == TypeOK <=> Line /\ Load
<1>1. TypeOK => Line
  BY DEF TypeOK, Line, Connected
<1>2. TypeOK => Load
  BY DEF TypeOK, Load
<1>3. Line /\ Load => TypeOK
  BY DEF TypeOK, Line, Load, Connected
<1>4. QED
  BY <1>1, <1>2, <1>3

LEMMA StreamTypesInitially == ASSUME Init PROVE TypeOK
<1>1. Line
  BY DEF Init, Line, Connected
<1>2. Day \in Nat \ {0} /\ None \notin Orders
  BY StreamAssumption DEF StreamAssumption
<1>3. wire \in Seq(Messages) /\ topic \in DOMAIN Topics /\ backoff \in 1 .. 2 * Day
  BY <1>2, TwoTopics DEF Init
<1>4. Load
  BY <1>3 DEF Init, Load
<1>5. QED
  BY <1>1, <1>4, InParts

LEMMA ConnectingTypes ==
  ASSUME TypeOK, Start \/ Connect \/ ConnectFails \/ KeyPanics \/ Subscribe \/ SubscribeFails
  PROVE  TypeOK'
<1>1. CASE Start
  <2>1. at = "start" /\ UNCHANGED <<conn, link, opened>>
    BY <1>1 DEF Start, broker, ghosts
  <2>2. ~conn /\ at' = "connect"
    BY <1>1, <2>1, InParts DEF Start, Goto, Line, Connected
  <2>3. Line'
    BY <2>1, <2>2, InParts DEF Line, Connected
  <2>4. Load'
    BY <1>1, <2>2, TwoTopics, InParts DEF Start, Load, broker, bounds, ghosts
  <2>5. QED
    BY <2>3, <2>4 DEF TypeOK, Line, Load, Connected
<1>2. CASE Connect
  <2>1. ~conn /\ opened = 0
    BY <1>2, InParts DEF Connect, Line, Connected
  <2>2. Line'
    BY <1>2, <2>1 DEF Connect, Goto, Line, Connected
  <2>3. Load'
    BY <1>2, InParts DEF Connect, Goto, Load, bounds
  <2>4. QED
    BY <2>2, <2>3 DEF TypeOK, Line, Load, Connected
<1>3. CASE ConnectFails
  BY <1>3, StreamAssumption DEF ConnectFails, TypeOK, Goto, Fault, StreamAssumption, broker, ghosts
<1>4. CASE Subscribe
  BY <1>4, TwoTopics DEF Subscribe, TypeOK, Goto, bounds, ghosts
<1>5. CASE SubscribeFails
  BY <1>5 DEF SubscribeFails, TypeOK, Goto, broker, bounds, ghosts
<1>6. CASE KeyPanics
  <2>1. topic' \in DOMAIN Topics /\ backoff' \in 1 .. 2 * Day
    BY <1>6, TwoTopics, StreamAssumption DEF KeyPanics, StreamAssumption
  <2>2. QED
    BY <1>6, <2>1 DEF KeyPanics, TypeOK, Goto, Fault, broker, ghosts
<1>7. QED
  BY <1>1, <1>2, <1>3, <1>4, <1>5, <1>6

LEMMA ReadingTypes ==
  ASSUME TypeOK, ReadResponse \/ Receive \/ Take \/ ReadFails
  PROVE  TypeOK'
<1>1. CASE ReadResponse
  <2>1. wire' \in Seq(Messages)
    BY <1>1, OnTheWire DEF ReadResponse, TypeOK
  <2>2. CASE Accepted
    BY <1>1, <2>1, <2>2, TwoTopics DEF ReadResponse, Accepted, TypeOK, Goto, bounds, ghosts
  <2>3. CASE Goto("close") /\ UNCHANGED <<topic, keys>>
    BY <1>1, <2>1, <2>3 DEF ReadResponse, TypeOK, Goto, bounds, ghosts
  <2>4. QED
    BY <1>1, <2>2, <2>3 DEF ReadResponse
<1>2. CASE Receive
  <2>1. wire' \in Seq(Messages) /\ Head(wire) \in Messages
    BY <1>2, OnTheWire DEF Receive, TypeOK
  <2>2. CASE UNCHANGED <<at, hand>>
    BY <1>2, <2>1, <2>2 DEF Receive, TypeOK, bounds, ghosts
  <2>3. CASE Goto("callback") /\ hand' = Head(wire).order /\ Head(wire).kind = "notice"
    <3>1. hand' \in Orders /\ None \notin Orders
      BY <2>1, <2>3, MessageKinds, StreamAssumption DEF StreamAssumption
    <3>2. QED
      BY <1>2, <2>1, <2>3, <3>1 DEF Receive, TypeOK, Goto, bounds, ghosts
  <2>4. QED
    BY <1>2, <2>2, <2>3 DEF Receive
<1>3. CASE Take
  <2>1. fate' \in [Orders -> {"new", "placed", "executed", "given"}]
    BY <1>3 DEF Take, TypeOK
  <2>2. QED
    BY <1>3, <2>1 DEF Take, TypeOK, Goto, broker, bounds
<1>4. CASE ReadFails
  BY <1>4 DEF ReadFails, TypeOK, Goto, broker, bounds, ghosts
<1>5. QED
  BY <1>1, <1>2, <1>3, <1>4

LEMMA ClosingTypes ==
  ASSUME TypeOK, CloseWebSocket \/ \E up \in Uptimes : Sleep(up)
  PROVE  TypeOK'
<1>1. CASE CloseWebSocket
  <2>1. conn /\ opened = 1
    BY <1>1, InParts DEF CloseWebSocket, Line, Connected
  <2>2. Line'
    <3>1. ~conn' /\ conn' \in BOOLEAN /\ at' = "sleep" /\ link' = "none"
      BY <1>1 DEF CloseWebSocket, Goto
    <3>2. opened' = 0
      BY <1>1, <2>1 DEF CloseWebSocket
    <3>3. QED
      BY <3>1, <3>2 DEF Line, Connected
  <2>3. Load'
    BY <1>1, InParts DEF CloseWebSocket, Goto, Load, bounds
  <2>4. QED
    BY <2>2, <2>3 DEF TypeOK, Line, Load, Connected
<1>2. ASSUME NEW up \in Uptimes, Sleep(up) PROVE TypeOK'
  <2>1. backoff' \in 1 .. 2 * Day
    BY <1>2, PauseIsBounded DEF Sleep, TypeOK
  <2>2. QED
    BY <1>2, <2>1 DEF Sleep, TypeOK, Goto, broker, bounds, ghosts
<1>3. QED
  BY <1>1, <1>2

LEMMA BrokerTypes ==
  ASSUME TypeOK,
         \/ \E ok \in BOOLEAN : Answer(ok)
         \/ \E o \in Orders : Accept(o) \/ Execute(o)
         \/ Beat \/ Break
  PROVE  TypeOK'
<1>1. ASSUME NEW ok \in BOOLEAN, Answer(ok) PROVE TypeOK'
  <2>1. wire' \in Seq(Messages)
    BY <1>1, Made, OnTheWire DEF Answer, Send, TypeOK
  <2>2. serving' \in SUBSET TopicSet /\ faults' \in Nat
    BY <1>1 DEF Answer, TypeOK, Fault
  <2>3. QED
    BY <1>1, <2>1, <2>2 DEF Answer, TypeOK, client, ghosts
<1>2. ASSUME NEW o \in Orders, Accept(o) \/ Execute(o) PROVE TypeOK'
  <2>1. wire' \in Seq(Messages)
    <3>1. Report(o, TRUE) \/ Report(o, FALSE)
      BY <1>2 DEF Accept, Execute
    <3>2. QED
      BY <3>1, Made, OnTheWire DEF Report, Send, TypeOK
  <2>2. fate' \in [Orders -> {"new", "placed", "executed", "given"}]
    BY <1>2 DEF Accept, Execute, TypeOK
  <2>3. UNCHANGED <<client, link, asked, serving, bounds, given, opened>>
    BY <1>2 DEF Accept, Execute
  <2>4. QED
    BY <2>1, <2>2, <2>3 DEF TypeOK, client, bounds
<1>3. CASE Beat
  <2>1. wire' \in Seq(Messages) /\ pings' \in Nat
    BY <1>3, Made, OnTheWire DEF Beat, Send, TypeOK
  <2>2. QED
    BY <1>3, <2>1 DEF Beat, TypeOK, client, ghosts
<1>4. CASE Break
  <2>1. faults' \in Nat
    BY <1>4 DEF Break, Fault, TypeOK
  <2>2. QED
    BY <1>4, <2>1 DEF Break, TypeOK, client, ghosts
<1>5. QED
  BY <1>1, <1>2, <1>3, <1>4

(* Types of the stream, for any number of orders, faults and days: also    *)
(* that there is at most one connection, that it is held from its opening  *)
(* to its closing, and that the pause stays below two days.                *)
THEOREM StreamTypesCorrect == Spec => []TypeOK
<1>1. Init => TypeOK
  BY StreamTypesInitially
<1>2. TypeOK /\ [Next]_vars => TypeOK'
  <2> SUFFICES ASSUME TypeOK, [Next]_vars PROVE TypeOK'
    OBVIOUS
  <2>1. CASE UNCHANGED vars
    BY <2>1 DEF vars, client, broker, bounds, ghosts, TypeOK
  <2>2. QED
    BY <2>1, ConnectingTypes, ReadingTypes, ClosingTypes, BrokerTypes DEF Next, Client
<1>3. QED
  BY <1>1, <1>2, PTL DEF Spec

-----------------------------------------------------------------------------
(***************************************************************************)
(* The executions among the messages of the broker                         *)
(***************************************************************************)
Below == {ij \in Nat \X Nat : ij[1] < ij[2]}

(* Numbers have no first one that is out of a collection.                  *)
LEMMA AllNumbers ==
  ASSUME NEW M, 0 \in M, \A n \in Nat : n \in M => n + 1 \in M
  PROVE  \A n \in Nat : n \in M
<1>1. IsWellFoundedOn(Below, Nat)
  BY NatLessThanWellFounded DEF OpToRel, Below
<1> DEFINE Out == Nat \ M
<1>2. SUFFICES ASSUME Out # {} PROVE FALSE
  OBVIOUS
<1>3. Out \in SUBSET Nat
  OBVIOUS
<1>4. PICK i \in Out : \A j \in Out : <<j, i>> \notin Below
  <2> HIDE DEF Out
  <2> QED
    BY <1>1, <1>2, <1>3, WFMin
<1>5. i \in Nat \ {0} /\ i - 1 \in Nat
  OBVIOUS
<1>6. <<i - 1, i>> \in Below
  BY <1>5 DEF Below
<1>7. i - 1 \in M
  BY <1>4, <1>5, <1>6
<1>8. QED
  BY <1>5, <1>7

(* What a message adds to the executions of a topic.                       *)
With(p, m, t) == IF Tells(m, t) THEN Append(p, m.order) ELSE p

LEMMA WithOne ==
  ASSUME NEW p \in Seq(Orders), NEW m \in Messages, NEW t
  PROVE  With(p, m, t) \in Seq(Orders)
BY MessageKinds, AppendProperties DEF With, Tells

(* f has the executions under t of the beginnings of q, up to the n-th.    *)
Collects(q, t, f, n) ==
  /\ f \in [0 .. n -> Seq(Orders)]
  /\ f[0] = <<>> /\ \A i \in 1 .. n : f[i] = With(f[i - 1], q[i], t)

LEMMA CollectsAlways ==
  ASSUME NEW q \in Seq(Messages), NEW t
  PROVE  \E f : Collects(q, t, f, Len(q))
<1> DEFINE M == {n \in Nat : n <= Len(q) => \E f : Collects(q, t, f, n)}
<1>1. 0 \in M
  <2>1. <<>> \in Seq(Orders)
    OBVIOUS
  <2>2. Collects(q, t, [i \in 0 .. 0 |-> <<>>], 0)
    BY <2>1 DEF Collects
  <2>3. QED
    BY <2>2
<1>2. ASSUME NEW n \in Nat, n \in M PROVE n + 1 \in M
  <2>1. SUFFICES ASSUME n + 1 <= Len(q) PROVE \E f : Collects(q, t, f, n + 1)
    OBVIOUS
  <2>2. n <= Len(q) /\ Len(q) \in Nat
    BY <2>1
  <2>3. PICK f : Collects(q, t, f, n)
    BY <1>2, <2>2
  <2>4. q[n + 1] \in Messages
    BY <2>1, <2>2
  <2> DEFINE h == [i \in 0 .. n + 1 |-> IF i = n + 1 THEN With(f[n], q[n + 1], t) ELSE f[i]]
  <2>5. \A i \in 0 .. n : h[i] = f[i] /\ f[i] \in Seq(Orders)
    BY <2>3 DEF Collects
  <2>6. h[n + 1] = With(f[n], q[n + 1], t) /\ h \in [0 .. n + 1 -> Seq(Orders)]
    <3>1. n \in 0 .. n /\ \A i \in 0 .. n + 1 : i # n + 1 => i \in 0 .. n
      OBVIOUS
    <3>2. With(f[n], q[n + 1], t) \in Seq(Orders)
      BY <2>4, <2>5, <3>1, WithOne
    <3>3. \A i \in 0 .. n : f[i] \in Seq(Orders)
      BY <2>5
    <3>4. QED
      BY <3>1, <3>2, <3>3
  <2> HIDE DEF h
  <2>7. \A i \in 1 .. n + 1 : h[i] = With(h[i - 1], q[i], t)
    <3>1. \A i \in 1 .. n : i - 1 \in 0 .. n /\ i \in 0 .. n
      OBVIOUS
    <3>2. \A i \in 1 .. n : h[i] = With(h[i - 1], q[i], t)
      BY <2>3, <2>5, <3>1 DEF Collects
    <3>3. h[n + 1] = With(h[(n + 1) - 1], q[n + 1], t)
      BY <2>5, <2>6
    <3>4. QED
      BY <3>2, <3>3
  <2>8. h[0] = <<>>
    BY <2>3, <2>5 DEF Collects
  <2>9. Collects(q, t, h, n + 1)
    BY <2>6, <2>7, <2>8 DEF Collects
  <2>10. QED
    BY <2>9
<1>3. \A n \in Nat : n \in M
  <2> HIDE DEF M
  <2> QED
    BY <1>1, <1>2, AllNumbers
<1>4. QED
  BY <1>3

(* ... and there is no other such f.                                       *)
LEMMA CollectsOnce ==
  ASSUME NEW n \in Nat, NEW q, NEW t, NEW f, NEW g, Collects(q, t, f, n),
         g[0] = <<>>, \A i \in 1 .. n : g[i] = With(g[i - 1], q[i], t)
  PROVE  g[n] = f[n]
<1> DEFINE M == {i \in Nat : i <= n => g[i] = f[i]}
<1>1. 0 \in M
  BY DEF Collects
<1>2. ASSUME NEW i \in Nat, i \in M PROVE i + 1 \in M
  <2>1. SUFFICES ASSUME i + 1 <= n PROVE g[i + 1] = f[i + 1]
    OBVIOUS
  <2>2. g[i] = f[i] /\ i + 1 \in 1 .. n /\ (i + 1) - 1 = i
    BY <1>2, <2>1
  <2>3. /\ g[i + 1] = With(g[(i + 1) - 1], q[i + 1], t)
        /\ f[i + 1] = With(f[(i + 1) - 1], q[i + 1], t)
    BY <2>2 DEF Collects
  <2>4. QED
    BY <2>2, <2>3
<1>3. \A i \in Nat : i \in M
  <2> HIDE DEF M
  <2> QED
    BY <1>1, <1>2, AllNumbers
<1>4. QED
  BY <1>3

LEMMA ExecutionsAre ==
  ASSUME NEW q \in Seq(Messages), NEW t, NEW f, Collects(q, t, f, Len(q))
  PROVE  Executions(q, t) = f[Len(q)] /\ Executions(q, t) \in Seq(Orders)
<1> DEFINE Body(g, n) == IF n = 0 THEN <<>> ELSE IF Tells(q[n], t) THEN Append(g[n - 1], q[n].order) ELSE g[n - 1]
<1> DEFINE Is(g) == g = [n \in 0 .. Len(q) |-> Body(g, n)]
<1> DEFINE upTo == CHOOSE g : Is(g)
<1>1. Len(q) \in Nat
  OBVIOUS
<1>2. f = [n \in 0 .. Len(q) |-> Body(f, n)]
  <2>1. ASSUME NEW n \in 0 .. Len(q) PROVE f[n] = Body(f, n)
    <3>1. CASE n = 0
      BY <3>1 DEF Collects
    <3>2. CASE n # 0
      <4>1. n \in 1 .. Len(q)
        BY <1>1, <3>2
      <4>2. f[n] = With(f[n - 1], q[n], t)
        BY <4>1 DEF Collects
      <4>3. QED
        BY <3>2, <4>2 DEF With
    <3>3. QED
      BY <3>1, <3>2
  <2>2. f = [n \in 0 .. Len(q) |-> f[n]]
    BY DEF Collects
  <2> HIDE DEF Body
  <2>3. QED
    BY <2>1, <2>2
<1>3. Is(f)
  BY <1>2
<1>4. Is(upTo)
  <2> HIDE DEF Is
  <2> QED
    BY <1>3
<1>5. Executions(q, t) = upTo[Len(q)]
  BY DEF Executions
<1>6. PICK g : g = upTo
  OBVIOUS
<1> HIDE DEF upTo
<1>7. \A n \in 0 .. Len(q) : g[n] = Body(g, n)
  BY <1>4, <1>6
<1>8. g[0] = <<>> /\ \A n \in 1 .. Len(q) : g[n] = With(g[n - 1], q[n], t)
  BY <1>1, <1>7 DEF With
<1>9. g[Len(q)] = f[Len(q)]
  BY <1>1, <1>8, CollectsOnce
<1>10. QED
  BY <1>1, <1>5, <1>6, <1>9 DEF Collects

LEMMA NoExecutions == ASSUME NEW t PROVE Executions(<<>>, t) = <<>>
<1>1. <<>> \in Seq(Messages) /\ Len(<<>>) = 0 /\ <<>> \in Seq(Orders)
  OBVIOUS
<1>2. Collects(<<>>, t, [i \in 0 .. 0 |-> <<>>], 0)
  BY <1>1 DEF Collects
<1>3. QED
  BY <1>1, <1>2, ExecutionsAre

LEMMA ExecutionsTyped ==
  ASSUME NEW q \in Seq(Messages), NEW t PROVE Executions(q, t) \in Seq(Orders)
BY CollectsAlways, ExecutionsAre

(* One more message, at the end.                                           *)
LEMMA ExecutionsAppend ==
  ASSUME NEW q \in Seq(Messages), NEW m \in Messages, NEW t
  PROVE  Executions(Append(q, m), t) = With(Executions(q, t), m, t)
<1> DEFINE n == Len(q)
           r == Append(q, m)
<1>1. /\ n \in Nat /\ r \in Seq(Messages) /\ Len(r) = n + 1 /\ r[n + 1] = m
      /\ \A i \in 1 .. n : r[i] = q[i]
  BY AppendProperties, LenProperties
<1>2. PICK f : Collects(q, t, f, n)
  BY CollectsAlways
<1>3. PICK g : Collects(r, t, g, n + 1)
  BY <1>1, CollectsAlways
<1> HIDE DEF n, r
<1>4. g[0] = <<>> /\ \A i \in 1 .. n : g[i] = With(g[i - 1], q[i], t)
  BY <1>1, <1>3 DEF Collects
<1>5. g[n] = f[n]
  BY <1>1, <1>2, <1>4, CollectsOnce
<1>6. g[n + 1] = With(g[n], m, t)
  <2>1. n + 1 \in 1 .. n + 1 /\ (n + 1) - 1 = n
    BY <1>1
  <2>2. g[n + 1] = With(g[(n + 1) - 1], r[n + 1], t)
    BY <1>3, <2>1 DEF Collects
  <2>3. QED
    BY <1>1, <2>1, <2>2
<1>7. Executions(q, t) = f[n]
  BY <1>2, ExecutionsAre DEF n
<1>8. Executions(r, t) = g[n + 1]
  BY <1>1, <1>3, ExecutionsAre
<1>9. QED
  BY <1>5, <1>6, <1>7, <1>8 DEF r

On(p, o) == \E i \in 1 .. Len(p) : p[i] = o
Distinct(p) == \A i, j \in 1 .. Len(p) : p[i] = p[j] => i = j

LEMMA FirstAndRest ==
  ASSUME NEW T, NEW q \in Seq(T), q # <<>>
  PROVE  /\ Head(q) \in T /\ Head(q) = q[1] /\ Tail(q) \in Seq(T)
         /\ Len(q) \in Nat \ {0} /\ Len(Tail(q)) = Len(q) - 1
         /\ \A i \in 1 .. Len(Tail(q)) : Tail(q)[i] = q[i + 1]
  BY HeadTailProperties, EmptySeq, LenProperties

LEMMA EmptyHasNone == Distinct(<<>>) /\ \A o : ~On(<<>>, o)
  BY EmptySeq DEF On, Distinct

LEMMA OneMore ==
  ASSUME NEW p \in Seq(Orders), NEW x \in Orders
  PROVE  /\ Append(p, x) \in Seq(Orders)
         /\ \A o : On(Append(p, x), o) <=> On(p, o) \/ o = x
         /\ Distinct(p) /\ ~On(p, x) => Distinct(Append(p, x))
<1>1. /\ Len(p) \in Nat /\ Append(p, x) \in Seq(Orders) /\ Len(Append(p, x)) = Len(p) + 1
      /\ \A i \in 1 .. Len(p) : Append(p, x)[i] = p[i]
      /\ Append(p, x)[Len(p) + 1] = x
  BY AppendProperties, LenProperties
<1>2. \A i : i \in 1 .. Len(p) + 1 <=> i \in 1 .. Len(p) \/ i = Len(p) + 1
  BY <1>1
<1>3. ASSUME NEW o PROVE On(Append(p, x), o) <=> On(p, o) \/ o = x
  BY <1>1, <1>2 DEF On
<1>4. ASSUME Distinct(p), ~On(p, x) PROVE Distinct(Append(p, x))
  BY <1>1, <1>2, <1>4 DEF On, Distinct
<1>5. QED
  BY <1>1, <1>3, <1>4

LEMMA AppendBehind ==
  ASSUME NEW p \in Seq(Orders), NEW q \in Seq(Orders), NEW x \in Orders
  PROVE  Append(p \o q, x) = p \o Append(q, x)
<1>1. <<x>> \in Seq(Orders) /\ p \o q \in Seq(Orders)
  BY ConcatProperties
<1>2. Append(p \o q, x) = (p \o q) \o <<x>> /\ Append(q, x) = q \o <<x>>
  BY <1>1, AppendIsConcat
<1>3. (p \o q) \o <<x>> = p \o (q \o <<x>>)
  BY <1>1, ConcatAssociative
<1>4. QED
  BY <1>2, <1>3

(* One before all others.                                                  *)
LEMMA OneBefore ==
  ASSUME NEW p \in Seq(Orders), NEW x \in Orders
  PROVE  /\ <<>> \o p = p
         /\ <<x>> \o p \in Seq(Orders) /\ <<x>> \o p # <<>>
         /\ Head(<<x>> \o p) = x /\ Tail(<<x>> \o p) = p
         /\ \A o \in Orders : Append(<<x>> \o p, o) = <<x>> \o Append(p, o)
         /\ \A o : On(<<x>> \o p, o) <=> o = x \/ On(p, o)
         /\ Distinct(<<x>> \o p) => Distinct(p) /\ ~On(p, x)
<1>1. <<x>> \in Seq(Orders) /\ Len(<<x>>) = 1 /\ <<x>>[1] = x
  OBVIOUS
<1> DEFINE r == <<x>> \o p
<1>2. r \in Seq(Orders) /\ Len(r) = Len(p) + 1 /\ r[1] = x /\ Len(p) \in Nat
  BY <1>1, ConcatProperties, LenProperties
<1>3. r # <<>>
  BY <1>2, EmptySeq
<1>4. \A i \in 1 .. Len(p) : r[i + 1] = p[i] /\ i + 1 \in 1 .. Len(r) /\ i + 1 # 1
  <2>1. ASSUME NEW i \in 1 .. Len(p) PROVE r[i + 1] = p[i] /\ i + 1 \in 1 .. Len(r) /\ i + 1 # 1
    <3>1. i + 1 \in 1 .. Len(r) /\ ~(i + 1 <= 1) /\ (i + 1) - 1 = i
      BY <1>2
    <3>2. r[i + 1] = p[(i + 1) - 1]
      BY <1>1, <1>2, <3>1, ConcatProperties
    <3>3. QED
      BY <3>1, <3>2
  <2>2. QED
    BY <2>1
<1>5. \A i \in 1 .. Len(r) : i = 1 \/ (i - 1 \in 1 .. Len(p) /\ r[i] = p[i - 1])
  <2>1. ASSUME NEW i \in 1 .. Len(r), i # 1 PROVE i - 1 \in 1 .. Len(p) /\ r[i] = p[i - 1]
    <3>1. i - 1 \in 1 .. Len(p) /\ (i - 1) + 1 = i
      BY <1>2, <2>1
    <3>2. QED
      BY <1>4, <3>1
  <2>2. QED
    BY <2>1
<1>6. Head(r) = x /\ Tail(r) = p
  <2>1. Head(r) = r[1] /\ Tail(r) \in Seq(Orders) /\ Len(Tail(r)) = Len(r) - 1
        /\ \A i \in 1 .. Len(Tail(r)) : Tail(r)[i] = r[i + 1]
    BY <1>2, <1>3, FirstAndRest
  <2>2. Len(Tail(r)) = Len(p)
    BY <1>2, <2>1
  <2>3. \A i \in 1 .. Len(p) : Tail(r)[i] = p[i]
    BY <1>4, <2>1, <2>2
  <2>4. QED
    BY <1>2, <2>1, <2>2, <2>3, SeqEqual
<1>7. ASSUME NEW o \in Orders PROVE Append(r, o) = <<x>> \o Append(p, o)
  BY <1>1, AppendBehind
<1>8. 1 \in 1 .. Len(r)
  BY <1>2
<1> HIDE DEF r
<1>9. ASSUME NEW o PROVE On(r, o) <=> o = x \/ On(p, o)
  BY <1>2, <1>4, <1>5, <1>8 DEF On
<1>10. ASSUME Distinct(r) PROVE Distinct(p) /\ ~On(p, x)
  <2>1. ~On(p, x)
    BY <1>2, <1>4, <1>8, <1>10 DEF On, Distinct
  <2>2. ASSUME NEW i \in 1 .. Len(p), NEW j \in 1 .. Len(p), p[i] = p[j] PROVE i = j
    <3>1. i + 1 = j + 1
      BY <1>4, <1>10, <2>2 DEF Distinct
    <3>2. QED
      BY <1>2, <3>1
  <2>3. QED
    BY <2>1, <2>2 DEF Distinct
<1>11. QED
  BY <1>2, <1>3, <1>6, <1>7, <1>9, <1>10, ConcatEmptySeq DEF r

(* The first message of all.                                               *)
LEMMA ExecutionsFirst ==
  ASSUME NEW q \in Seq(Messages), q # <<>>, NEW t
  PROVE  Executions(q, t) = IF Tells(Head(q), t) THEN <<Head(q).order>> \o Executions(Tail(q), t)
                            ELSE Executions(Tail(q), t)
<1> DEFINE m == Head(q)
           r == Tail(q)
           n == Len(r)
           pre == IF Tells(m, t) THEN <<m.order>> ELSE <<>>
<1>1. /\ m = q[1] /\ m \in Messages /\ r \in Seq(Messages) /\ n \in Nat /\ Len(q) = n + 1
      /\ \A i \in 1 .. n : r[i] = q[i + 1]
  BY FirstAndRest
<1>2. pre \in Seq(Orders) /\ pre = With(<<>>, m, t)
  BY <1>1, MessageKinds DEF With, Tells
<1>3. PICK f : Collects(q, t, f, n + 1)
  BY <1>1, CollectsAlways
<1>4. PICK g : Collects(r, t, g, n)
  BY <1>1, CollectsAlways
<1> HIDE DEF m, r, n, pre
<1> DEFINE M == {i \in Nat : i <= n => f[i + 1] = pre \o g[i]}
<1>5. 0 \in M
  <2>1. 1 \in 1 .. n + 1 /\ 1 - 1 = 0 /\ 0 + 1 = 1
    BY <1>1
  <2>2. f[1] = With(<<>>, m, t)
    <3>1. f[1] = With(f[1 - 1], q[1], t) /\ f[0] = <<>>
      BY <1>3, <2>1 DEF Collects
    <3>2. QED
      BY <1>1, <2>1, <3>1
  <2>3. g[0] = <<>>
    BY <1>4 DEF Collects
  <2>4. pre \o <<>> = pre
    BY <1>2, ConcatEmptySeq
  <2>5. QED
    BY <1>2, <2>1, <2>2, <2>3, <2>4
<1>6. ASSUME NEW i \in Nat, i \in M PROVE i + 1 \in M
  <2>1. SUFFICES ASSUME i + 1 <= n PROVE f[(i + 1) + 1] = pre \o g[i + 1]
    OBVIOUS
  <2>2. /\ f[i + 1] = pre \o g[i] /\ i + 1 \in 1 .. n /\ (i + 1) - 1 = i /\ i \in 0 .. n
        /\ (i + 1) + 1 \in 1 .. n + 1 /\ ((i + 1) + 1) - 1 = i + 1
    BY <1>1, <1>6, <2>1
  <2>3. g[i] \in Seq(Orders) /\ r[i + 1] \in Messages /\ r[i + 1] = q[(i + 1) + 1]
    <3>1. g[i] \in Seq(Orders)
      BY <1>4, <2>2 DEF Collects
    <3>2. n = Len(r)
      BY DEF n
    <3>3. r[i + 1] \in Messages
      BY <1>1, <2>2, <3>2, ElementOfSeq
    <3>4. QED
      BY <1>1, <2>2, <3>1, <3>3
  <2>4. g[i + 1] = With(g[(i + 1) - 1], r[i + 1], t)
    BY <1>4, <2>2 DEF Collects
  <2>5. f[(i + 1) + 1] = With(f[((i + 1) + 1) - 1], q[(i + 1) + 1], t)
    BY <1>3, <2>2 DEF Collects
  <2>6. f[(i + 1) + 1] = With(pre \o g[i], r[i + 1], t) /\ g[i + 1] = With(g[i], r[i + 1], t)
    BY <2>2, <2>3, <2>4, <2>5
  <2>7. With(pre \o g[i], r[i + 1], t) = pre \o With(g[i], r[i + 1], t)
    <3>1. CASE ~Tells(r[i + 1], t)
      BY <3>1 DEF With
    <3>2. CASE Tells(r[i + 1], t)
      <4>1. r[i + 1].order \in Orders
        BY <2>3, <3>2, MessageKinds DEF Tells
      <4>2. QED
        BY <1>2, <2>3, <3>2, <4>1, AppendBehind DEF With
    <3>3. QED
      BY <3>1, <3>2
  <2>8. QED
    BY <2>6, <2>7
<1>7. \A i \in Nat : i \in M
  <2> HIDE DEF M
  <2> QED
    BY <1>5, <1>6, AllNumbers
<1>8. f[n + 1] = pre \o g[n]
  BY <1>1, <1>7
<1>9. Executions(q, t) = f[n + 1] /\ Executions(r, t) = g[n] /\ g[n] \in Seq(Orders)
  <2>1. Executions(r, t) = g[n] /\ Executions(r, t) \in Seq(Orders)
    BY <1>1, <1>4, ExecutionsAre DEF n
  <2>2. Executions(q, t) = f[n + 1]
    BY <1>1, <1>3, ExecutionsAre
  <2>3. QED
    BY <2>1, <2>2
<1>10. QED
  BY <1>8, <1>9, ConcatEmptySeq DEF pre, m, r

(***************************************************************************)
(* Feeds                                                                   *)
(***************************************************************************)
LEMMA TopicsDiffer ==
  /\ Domestic # Overseas /\ None \notin Orders /\ None \notin TopicSet
  /\ Topics[1] = Domestic /\ Topics[2] = Overseas /\ TopicSet = {Domestic, Overseas}
  /\ \A o \in Orders : TopicOf[o] \in TopicSet
  BY StreamAssumption DEF StreamAssumption, Topics, TopicSet

(* A stream that has got to its receive loop has the key of each topic; an *)
(* execution on the wire or in hand is there once, and not handed over.    *)
KeysHeld ==
  /\ at = "connect" => topic = 1
  /\ at \in {"subscribe", "response"} /\ topic = 2 => Domestic \in keys
  /\ at \in {"receive", "callback"} => keys = TopicSet
Carried ==
  /\ \A t \in TopicSet : Distinct(OnWire(t))
  /\ \A t \in TopicSet, o \in Orders :
       On(OnWire(t), o) => TopicOf[o] = t /\ fate[o] = "executed" /\ hand # o
  /\ hand # None => fate[hand] = "executed"
  /\ link = "none" => wire = <<>>
Signed == \A o \in Orders : given[o] = IF fate[o] = "given" THEN Sign(o) ELSE 0
FeedInv == KeysHeld /\ Carried /\ (given \in [Orders -> Int] /\ Signed)

LEMMA FeedInitially == ASSUME Init PROVE FeedInv
<1>1. \A t : OnWire(t) = <<>>
  BY NoExecutions DEF Init, OnWire
<1>2. Carried
  BY <1>1, EmptyHasNone DEF Init, Carried
<1>3. KeysHeld /\ given \in [Orders -> Int] /\ Signed
  BY DEF Init, KeysHeld, Signed
<1>4. QED
  BY <1>2, <1>3 DEF FeedInv

(* The messages are the same as far as executions go.                      *)
LEMMA CarriedStays ==
  ASSUME Carried, \A t \in TopicSet : OnWire(t)' = OnWire(t) \/ OnWire(t)' = <<>>,
         UNCHANGED hand, \A o \in Orders : fate'[o] = fate[o] \/ fate[o] = "new",
         hand \in Orders \cup {None}, link' = "none" => wire' = <<>>
  PROVE  Carried'
<1>1. \A t \in TopicSet : Distinct(OnWire(t)')
  BY EmptyHasNone DEF Carried
<1>2. ASSUME NEW t \in TopicSet, NEW o \in Orders, On(OnWire(t)', o)
      PROVE  TopicOf[o] = t /\ fate'[o] = "executed" /\ hand' # o
  <2>1. On(OnWire(t), o)
    BY <1>2, EmptyHasNone
  <2>2. QED
    BY <2>1 DEF Carried
<1>3. hand' # None => fate'[hand'] = "executed"
  BY DEF Carried
<1>4. QED
  BY <1>1, <1>2, <1>3 DEF Carried

(* What the steps do to the wire.                                          *)
LEMMA OtherSent ==
  ASSUME TypeOK, NEW m \in Messages, \A t \in TopicSet : ~Tells(m, t), Send(m)
  PROVE  \A t \in TopicSet : OnWire(t)' = OnWire(t)
BY ExecutionsAppend DEF Send, OnWire, TypeOK, With

LEMMA NotTelling ==
  /\ \A t : ~Tells(Ping, t)
  /\ \A t, s, ok : ~Tells(Response(s, ok), t)
  /\ \A t, o : ~Tells(Notice(o, FALSE), t)
  /\ \A t, o : (Tells(Notice(o, TRUE), t) <=> TopicOf[o] = t) /\ Notice(o, TRUE).order = o
  BY DEF Tells, Ping, Response, Notice

LEMMA WireEmptied == ASSUME wire' = <<>> PROVE \A t : OnWire(t)' = <<>>
  BY NoExecutions DEF OnWire

LEMMA WireTyped ==
  ASSUME TypeOK PROVE wire \in Seq(Messages) /\ \A t : OnWire(t) \in Seq(Orders)
  BY ExecutionsTyped DEF TypeOK, OnWire

LEMMA FirstRead ==
  ASSUME TypeOK, wire # <<>>, wire' = Tail(wire), NEW t
  PROVE  /\ Head(wire) \in Messages
         /\ ~Tells(Head(wire), t) => OnWire(t)' = OnWire(t)
         /\ Tells(Head(wire), t) => /\ Head(wire).order \in Orders
                                    /\ OnWire(t) = <<Head(wire).order>> \o OnWire(t)'
                                    /\ OnWire(t)' \in Seq(Orders)
<1>1. /\ wire \in Seq(Messages) /\ Head(wire) \in Messages /\ Tail(wire) \in Seq(Messages)
  BY OnTheWire DEF TypeOK
<1>2. Tells(Head(wire), t) => Head(wire).order \in Orders
  BY <1>1, MessageKinds DEF Tells
<1>3. OnWire(t)' \in Seq(Orders)
  BY <1>1, ExecutionsTyped DEF OnWire
<1>4. QED
  BY <1>1, <1>2, <1>3, ExecutionsFirst DEF OnWire

LEMMA ReadLeaves ==
  ASSUME TypeOK, Carried, wire # <<>>, wire' = Tail(wire), NEW t \in TopicSet
  PROVE  /\ Distinct(OnWire(t)')
         /\ \A o \in Orders : On(OnWire(t)', o) => On(OnWire(t), o)
         /\ Tells(Head(wire), t) => /\ On(OnWire(t), Head(wire).order)
                                    /\ ~On(OnWire(t)', Head(wire).order)
<1>1. Distinct(OnWire(t))
  BY DEF Carried
<1>2. CASE ~Tells(Head(wire), t)
  BY <1>1, <1>2, FirstRead
<1>3. CASE Tells(Head(wire), t)
  <2>1. PICK p \in Seq(Orders) : p = OnWire(t)'
    BY <1>3, FirstRead
  <2>2. PICK x \in Orders : x = Head(wire).order
    BY <1>3, FirstRead
  <2>3. OnWire(t) = <<x>> \o p
    BY <1>3, <2>1, <2>2, FirstRead
  <2>4. Distinct(p) /\ ~On(p, x) /\ \A o : On(OnWire(t), o) <=> o = x \/ On(p, o)
    BY <1>1, <2>3, OneBefore
  <2>5. QED
    BY <2>1, <2>2, <2>4
<1>4. QED
  BY <1>2, <1>3

LEMMA KeysKept == ASSUME TypeOK, FeedInv, [Next]_vars PROVE KeysHeld'
<1>1. KeysHeld /\ topic \in {1, 2} /\ keys \in SUBSET TopicSet /\ (conn <=> at \in Connected)
      /\ (hand # None <=> at = "callback")
  BY TwoTopics, InParts DEF FeedInv, TypeOK, Line
<1>2. CASE Start
  BY <1>1, <1>2 DEF Start, KeysHeld, Goto, Connected
<1>3. CASE Connect
  BY <1>1, <1>3 DEF Connect, KeysHeld, Goto
<1>4. CASE ConnectFails \/ KeyPanics \/ SubscribeFails \/ ReadFails \/ CloseWebSocket \/ \E up \in Uptimes : Sleep(up)
  BY <1>4 DEF ConnectFails, KeyPanics, SubscribeFails, ReadFails, CloseWebSocket, Sleep, KeysHeld, Goto
<1>5. CASE Subscribe
  BY <1>1, <1>5 DEF Subscribe, KeysHeld, Goto
<1>6. CASE ReadResponse
  <2>1. CASE Accepted
    BY <1>1, <1>6, <2>1, TopicsDiffer, TwoTopics DEF ReadResponse, Accepted, KeysHeld, Goto
  <2>2. CASE Goto("close")
    BY <2>2 DEF KeysHeld, Goto
  <2>3. QED
    BY <1>6, <2>1, <2>2 DEF ReadResponse
<1>7. CASE Receive
  <2>1. at = "receive" /\ at' \in {"receive", "callback"} /\ keys' = keys
    BY <1>7 DEF Receive, Goto
  <2>2. QED
    BY <1>1, <2>1 DEF KeysHeld
<1>8. CASE Take
  BY <1>1, <1>8 DEF Take, KeysHeld, Goto
<1>9. ASSUME UNCHANGED client PROVE KeysHeld'
  BY <1>1, <1>9 DEF client, KeysHeld
<1>10. CASE \/ \E ok \in BOOLEAN : Answer(ok)
            \/ \E o \in Orders : Accept(o) \/ Execute(o)
            \/ Beat \/ Break \/ UNCHANGED vars
  BY <1>9, <1>10 DEF Answer, Accept, Execute, Beat, Break, vars
<1>11. QED
  BY <1>2, <1>3, <1>4, <1>5, <1>6, <1>7, <1>8, <1>10 DEF Next, Client

LEMMA SignsKept ==
  ASSUME TypeOK, FeedInv, [Next]_vars PROVE given' \in [Orders -> Int] /\ Signed'
<1>1. Signed /\ given \in [Orders -> Int] /\ fate \in [Orders -> {"new", "placed", "executed", "given"}]
  BY DEF FeedInv, TypeOK
<1>2. CASE Take
  <2>1. hand \in Orders
    BY <1>2 DEF Take, TypeOK
  <2>2. /\ fate'[hand] = "given" /\ given'[hand] = Sign(hand) /\ given' \in [Orders -> Int]
        /\ \A o \in Orders \ {hand} : fate'[o] = fate[o] /\ given'[o] = given[o]
    BY <1>1, <1>2, <2>1 DEF Take, Sign
  <2>3. QED
    BY <1>1, <2>2 DEF Signed
<1>3. ASSUME NEW o \in Orders, Accept(o) \/ Execute(o) PROVE given' \in [Orders -> Int] /\ Signed'
  <2>1. /\ fate[o] # "given" /\ fate'[o] # "given" /\ given' = given
        /\ \A x \in Orders \ {o} : fate'[x] = fate[x]
    BY <1>1, <1>3 DEF Accept, Execute
  <2>2. QED
    BY <1>1, <2>1 DEF Signed
<1>4. ASSUME UNCHANGED <<fate, given>> PROVE given' \in [Orders -> Int] /\ Signed'
  BY <1>1, <1>4 DEF Signed
<1>5. CASE Start \/ Connect \/ ConnectFails \/ KeyPanics \/ Subscribe \/ SubscribeFails \/ ReadResponse
  BY <1>4, <1>5 DEF Start, Connect, ConnectFails, KeyPanics, Subscribe, SubscribeFails, ReadResponse, ghosts
<1>6. CASE Receive \/ ReadFails \/ CloseWebSocket \/ \E up \in Uptimes : Sleep(up)
  BY <1>4, <1>6 DEF Receive, ReadFails, CloseWebSocket, Sleep, ghosts
<1>7. CASE (\E ok \in BOOLEAN : Answer(ok)) \/ Beat \/ Break \/ UNCHANGED vars
  BY <1>4, <1>7 DEF Answer, Beat, Break, vars, ghosts
<1>8. QED
  BY <1>2, <1>3, <1>5, <1>6, <1>7 DEF Next, Client

LEMMA CarriedKept == ASSUME TypeOK, FeedInv, [Next]_vars PROVE Carried'
<1>1. /\ Carried /\ hand \in Orders \cup {None} /\ (hand # None <=> at = "callback")
      /\ fate \in [Orders -> {"new", "placed", "executed", "given"}] /\ (link = "none" <=> ~conn)
      /\ \A t \in TopicSet : OnWire(t) \in Seq(Orders)
  BY WireTyped DEF FeedInv, TypeOK
<1>2. ASSUME UNCHANGED <<wire, hand, fate, link>> PROVE Carried'
  BY <1>1, <1>2, CarriedStays DEF OnWire, Carried
<1>3. CASE Start \/ ConnectFails \/ KeyPanics \/ SubscribeFails \/ ReadFails \/ \E up \in Uptimes : Sleep(up)
  BY <1>2, <1>3 DEF Start, ConnectFails, KeyPanics, SubscribeFails, ReadFails, Sleep, broker, ghosts
<1>4. CASE Subscribe \/ UNCHANGED vars
  BY <1>2, <1>4 DEF Subscribe, vars, client, broker, ghosts
<1>5. CASE Connect \/ CloseWebSocket
  <2>1. wire' = <<>> /\ UNCHANGED <<hand, fate>>
    BY <1>5 DEF Connect, CloseWebSocket
  <2>2. QED
    BY <1>1, <2>1, WireEmptied, CarriedStays
<1>6. CASE ReadResponse
  <2>1. wire # <<>> /\ wire' = Tail(wire) /\ UNCHANGED <<hand, fate, link>> /\ hand = None
    BY <1>1, <1>6 DEF ReadResponse, ghosts
  <2>2. Carried => (link' = "none" => wire' = <<>>)
    BY <2>1 DEF Carried
  <2>3. \A t \in TopicSet : /\ Distinct(OnWire(t)')
                            /\ \A o \in Orders : On(OnWire(t)', o) => On(OnWire(t), o)
    BY <1>1, <2>1, ReadLeaves
  <2>4. QED
    BY <1>1, <2>1, <2>2, <2>3 DEF Carried
<1>7. CASE Receive
  <2>1. wire # <<>> /\ wire' = Tail(wire) /\ UNCHANGED <<fate, link>> /\ hand = None
    BY <1>1, <1>7 DEF Receive, ghosts
  <2>2. link' = "none" => wire' = <<>>
    BY <1>1, <2>1 DEF Carried
  <2> DEFINE x == Head(wire).order
  <2>3. \A t \in TopicSet : /\ Distinct(OnWire(t)')
                            /\ \A o \in Orders : On(OnWire(t)', o) => On(OnWire(t), o)
                            /\ Tells(Head(wire), t) => On(OnWire(t), x) /\ ~On(OnWire(t)', x)
    BY <1>1, <2>1, ReadLeaves
  <2>4. CASE hand' = hand
    BY <1>1, <2>1, <2>2, <2>3, <2>4 DEF Carried
  <2>5. CASE hand' # hand
    <3>1. hand' = x /\ Head(wire).kind = "notice" /\ Head(wire).executed
      BY <1>7, <2>5 DEF Receive
    <3>2. x \in Orders
      BY <2>1, <3>1, FirstRead, MessageKinds
    <3>3. PICK s \in TopicSet : TopicOf[x] = s /\ Tells(Head(wire), s)
      BY <3>1, <3>2, TopicsDiffer DEF Tells
    <3>4. fate[x] = "executed" /\ ~On(OnWire(s)', x)
      BY <1>1, <2>3, <3>2, <3>3 DEF Carried
    <3>5. ASSUME NEW t \in TopicSet, On(OnWire(t)', x) PROVE FALSE
      <4>1. On(OnWire(t), x)
        BY <2>3, <3>2, <3>5
      <4>2. t = s
        BY <1>1, <3>2, <3>3, <4>1 DEF Carried
      <4>3. QED
        BY <3>4, <3>5, <4>2
    <3> HIDE DEF x
    <3>6. QED
      BY <1>1, <2>1, <2>2, <2>3, <3>1, <3>4, <3>5 DEF Carried
  <2>6. QED
    BY <2>4, <2>5
<1>8. CASE Take
  <2>1. /\ hand \in Orders /\ hand' = None /\ UNCHANGED <<wire, link>>
        /\ \A o \in Orders \ {hand} : fate'[o] = fate[o]
    BY <1>1, <1>8 DEF Take, broker
  <2>2. \A t \in TopicSet : OnWire(t)' = OnWire(t)
    BY <2>1 DEF OnWire
  <2>3. QED
    BY <1>1, <2>1, <2>2, TopicsDiffer DEF Carried
<1>9. ASSUME NEW ok \in BOOLEAN, Answer(ok) PROVE Carried'
  <2>1. Response(asked, ok) \in Messages /\ Send(Response(asked, ok)) /\ UNCHANGED <<hand, fate, link>> /\ link = "up"
    BY <1>9, Made DEF Answer, TypeOK, client, ghosts
  <2>2. \A t \in TopicSet : OnWire(t)' = OnWire(t)
    BY <2>1, OtherSent, NotTelling
  <2>3. QED
    BY <1>1, <2>1, <2>2, CarriedStays
<1>10. CASE Beat
  <2>1. Ping \in Messages /\ Send(Ping) /\ UNCHANGED <<hand, fate, link>> /\ link = "up"
    BY <1>10, Made DEF Beat, client, ghosts
  <2>2. \A t \in TopicSet : OnWire(t)' = OnWire(t)
    BY <2>1, OtherSent, NotTelling
  <2>3. QED
    BY <1>1, <2>1, <2>2, CarriedStays
<1>11. CASE Break
  BY <1>1, <1>11, CarriedStays DEF Break, client, ghosts, OnWire
<1>12. ASSUME NEW o \in Orders, Accept(o) PROVE Carried'
  <2>1. /\ Notice(o, FALSE) \in Messages /\ ((Send(Notice(o, FALSE)) /\ link = "up") \/ wire' = wire)
        /\ UNCHANGED <<hand, link>> /\ \A x \in Orders : fate'[x] = fate[x] \/ fate[x] = "new"
    BY <1>1, <1>12, Made DEF Accept, Report, client
  <2>2. \A t \in TopicSet : OnWire(t)' = OnWire(t)
    BY <2>1, OtherSent, NotTelling DEF OnWire
  <2>3. link' = "none" => wire' = <<>>
    BY <1>1, <2>1 DEF Carried
  <2>4. QED
    BY <1>1, <2>1, <2>2, <2>3, CarriedStays
<1>13. ASSUME NEW o \in Orders, Execute(o) PROVE Carried'
  <2>1. /\ fate[o] = "placed" /\ fate'[o] = "executed" /\ \A x \in Orders \ {o} : fate'[x] = fate[x]
        /\ UNCHANGED <<hand, link>>
    BY <1>1, <1>13 DEF Execute, client
  <2>2. hand # o /\ \A t \in TopicSet : ~On(OnWire(t), o)
    BY <1>1, <2>1, TopicsDiffer DEF Carried
  <2>3. \A t \in TopicSet : OnWire(t)' = OnWire(t) \/ (t = TopicOf[o] /\ OnWire(t)' = Append(OnWire(t), o))
    <3>1. CASE wire' = wire
      BY <3>1 DEF OnWire
    <3>2. CASE Send(Notice(o, TRUE))
      <4>1. wire \in Seq(Messages) /\ Notice(o, TRUE) \in Messages /\ wire' = Append(wire, Notice(o, TRUE))
        BY <3>2, Made, WireTyped DEF Send
      <4>2. \A t : OnWire(t)' = With(OnWire(t), Notice(o, TRUE), t)
        BY <4>1, ExecutionsAppend DEF OnWire
      <4>3. QED
        BY <4>2, NotTelling DEF With
    <3>3. QED
      BY <1>13, <3>1, <3>2 DEF Execute, Report
  <2>4. link' = "none" => wire' = <<>>
    BY <1>1, <1>13, <2>1 DEF Carried, Execute, Report
  <2>5. \A t \in TopicSet : Distinct(OnWire(t)')
    <3>1. ASSUME NEW t \in TopicSet PROVE Distinct(OnWire(t)')
      <4>1. PICK p \in Seq(Orders) : p = OnWire(t) /\ Distinct(p) /\ ~On(p, o)
        BY <1>1, <2>2 DEF Carried
      <4>2. Distinct(Append(p, o))
        BY <4>1, OneMore
      <4>3. QED
        BY <2>3, <4>1, <4>2
    <3>2. QED
      BY <3>1
  <2>6. \A t \in TopicSet, x \in Orders : On(OnWire(t)', x) => On(OnWire(t), x) \/ (x = o /\ t = TopicOf[o])
    BY <1>1, <2>3, OneMore
  <2>7. QED
    BY <1>1, <2>1, <2>2, <2>4, <2>5, <2>6, TopicsDiffer DEF Carried
<1>14. QED
  BY <1>3, <1>4, <1>5, <1>6, <1>7, <1>8, <1>9, <1>10, <1>11, <1>12, <1>13 DEF Next, Client

LEMMA FeedAlways == Spec => []FeedInv
<1>1. Init => FeedInv
  BY FeedInitially
<1>2. TypeOK /\ FeedInv /\ [Next]_vars => FeedInv'
  BY KeysKept, CarriedKept, SignsKept DEF FeedInv
<1>3. QED
  BY <1>1, <1>2, StreamTypesCorrect, PTL DEF Spec


(* What the two topics are shown to be, for any of them.                   *)
Feed(t) == INSTANCE OrderFeed WITH
  Orders <- OrdersOf(t), open <- Standing(t), pending <- Pending(t), fate <- Fate(t)

FeedStep(t) == Feed(t)!Next \/ UNCHANGED <<Standing(t), Pending(t), Fate(t)>>

(* What is pending under a topic, and what its feed says of an order.      *)
PendingFits ==
  \A t \in TopicSet :
    /\ OnWire(t) \in Seq(Orders) /\ Pending(t) \in Seq(Orders) /\ Len(Pending(t)) \in Nat
    /\ Pending(t) = IF at = "close" THEN <<>>
                    ELSE IF hand # None /\ TopicOf[hand] = t THEN <<hand>> \o OnWire(t)
                    ELSE OnWire(t)
    /\ \A o \in Orders : On(Pending(t), o) => TopicOf[o] = t /\ fate[o] = "executed"
Shown(f, p, o) ==
  IF f \in {"new", "placed"} THEN "placed"
  ELSE IF f = "given" THEN "given" ELSE IF On(p, o) THEN "pending" ELSE "lost"
FateFits == \A t \in TopicSet : Fate(t) = [o \in OrdersOf(t) |-> Shown(fate[o], Pending(t), o)]
Fits == TypeOK /\ FeedInv /\ PendingFits /\ FateFits

LEMMA PendingIs == ASSUME TypeOK, FeedInv PROVE PendingFits
<1>1. Carried /\ hand \in Orders \cup {None} /\ (hand # None <=> at = "callback")
  BY DEF FeedInv, TypeOK
<1>2. SUFFICES ASSUME NEW t \in TopicSet
      PROVE  /\ OnWire(t) \in Seq(Orders) /\ Pending(t) \in Seq(Orders) /\ Len(Pending(t)) \in Nat
             /\ Pending(t) = IF at = "close" THEN <<>>
                             ELSE IF hand # None /\ TopicOf[hand] = t THEN <<hand>> \o OnWire(t)
                             ELSE OnWire(t)
             /\ \A o \in Orders : On(Pending(t), o) => TopicOf[o] = t /\ fate[o] = "executed"
  BY DEF PendingFits
<1>3. PICK p \in Seq(Orders) : p = OnWire(t)
  BY WireTyped
<1>4. \A o \in Orders : On(p, o) => TopicOf[o] = t /\ fate[o] = "executed"
  BY <1>1, <1>3 DEF Carried
<1>5. CASE hand # None /\ TopicOf[hand] = t
  <2>1. PICK x \in Orders : x = hand /\ fate[x] = "executed" /\ TopicOf[x] = t
    BY <1>1, <1>5 DEF Carried
  <2>2. Pending(t) = <<x>> \o p /\ at # "close"
    BY <1>1, <1>3, <1>5, <2>1 DEF Pending, InHand
  <2>3. /\ <<x>> \o p \in Seq(Orders)
        /\ \A o : On(<<x>> \o p, o) <=> o = x \/ On(p, o)
    BY OneBefore
  <2>4. QED
    BY <1>3, <1>4, <1>5, <2>1, <2>2, <2>3, LenProperties
<1>6. CASE ~(hand # None /\ TopicOf[hand] = t)
  <2>1. <<>> \in Seq(Orders) /\ <<>> \o p = p /\ <<>> \o <<>> = <<>>
    BY ConcatEmptySeq
  <2>2. Pending(t) = IF at = "close" THEN <<>> ELSE p
    BY <1>3, <1>6, <2>1 DEF Pending, InHand
  <2>3. QED
    BY <1>3, <1>4, <1>6, <2>1, <2>2, EmptyHasNone, LenProperties
<1>7. QED
  BY <1>5, <1>6

LEMMA FateIs == ASSUME TypeOK, FeedInv, PendingFits PROVE FateFits
<1>1. Signed /\ fate \in [Orders -> {"new", "placed", "executed", "given"}]
  BY DEF FeedInv, TypeOK
<1>2. SUFFICES ASSUME NEW t \in TopicSet
      PROVE  Fate(t) = [o \in OrdersOf(t) |-> Shown(fate[o], Pending(t), o)]
  BY DEF FateFits
<1>3. \A o \in OrdersOf(t) : o \in Orders
  BY DEF OrdersOf
<1>4. \A o \in Orders : GivenRight(o) <=> fate[o] = "given"
  BY <1>1 DEF GivenRight, Signed, Sign
<1>5. \A o : o \in ToSet(Pending(t)) <=> On(Pending(t), o)
  BY LenProperties DEF ToSet, On, PendingFits
<1>6. QED
  BY <1>3, <1>4, <1>5 DEF Fate, Shown

LEMMA AlwaysFits == Spec => []Fits
<1>1. TypeOK /\ FeedInv => Fits
  BY PendingIs, FateIs DEF Fits
<1>2. QED
  BY <1>1, StreamTypesCorrect, FeedAlways, PTL

LEMMA Fates ==
  ASSUME Fits, Fits', NEW t \in TopicSet
  PROVE  /\ Fate(t) = [o \in OrdersOf(t) |-> Shown(fate[o], Pending(t), o)]
         /\ Fate(t)' = [o \in OrdersOf(t) |-> Shown(fate'[o], Pending(t)', o)]
         /\ \A o \in OrdersOf(t) : o \in Orders /\ TopicOf[o] = t
<1>1. Fate(t)' = [o \in OrdersOf(t) |-> Shown(fate[o], Pending(t), o)]'
  BY DEF Fits, FateFits
<1>2. QED
  BY <1>1 DEF Fits, FateFits, OrdersOf

(* Whatever leaves a topic alone is no step of its feed.                   *)
LEMMA Rests ==
  ASSUME Fits, Fits', NEW t \in TopicSet, Standing(t)' <=> Standing(t), Pending(t)' = Pending(t),
         \A o \in OrdersOf(t) : \/ fate'[o] = fate[o]
                                \/ fate[o] \in {"new", "placed"} /\ fate'[o] \in {"new", "placed"}
  PROVE  FeedStep(t)
<1>1. Fate(t)' = Fate(t)
  <2>1. \A o \in OrdersOf(t) : Shown(fate'[o], Pending(t)', o) = Shown(fate[o], Pending(t), o)
    BY DEF Shown
  <2>2. QED
    BY <2>1, Fates
<1>2. Standing(t)' = Standing(t)
  BY DEF Standing
<1>3. QED
  BY <1>1, <1>2 DEF FeedStep

(* What is pending is lost, and no more is taken.                          *)
LEMMA Forgets ==
  ASSUME Fits, Fits', NEW t \in TopicSet, ~Standing(t)', Pending(t)' = <<>>, fate' = fate
  PROVE  FeedStep(t)
<1>1. SubSeq(Pending(t), 1, 0) = <<>> /\ Len(Pending(t)) \in Nat
  BY SubSeqEmpty DEF Fits, PendingFits
<1>2. Fate(t)' = [o \in OrdersOf(t) |->
                    IF \E i \in 0 + 1 .. Len(Pending(t)) : Pending(t)[i] = o THEN "lost" ELSE Fate(t)[o]]
  <2>1. \A o \in OrdersOf(t) : o \in Orders /\ TopicOf[o] = t
    BY DEF OrdersOf
  <2>2. \A o \in OrdersOf(t) : /\ On(Pending(t), o) => fate[o] = "executed"
                               /\ ~On(Pending(t)', o)
    BY <2>1, EmptyHasNone DEF Fits, PendingFits
  <2>3. \A o : (\E i \in 0 + 1 .. Len(Pending(t)) : Pending(t)[i] = o) <=> On(Pending(t), o)
    BY DEF On
  <2>4. \A o \in OrdersOf(t) :
          /\ Fate(t)[o] = Shown(fate[o], Pending(t), o)
          /\ Shown(fate'[o], Pending(t)', o)
               = IF On(Pending(t), o) THEN "lost" ELSE Shown(fate[o], Pending(t), o)
    BY <2>2, Fates DEF Shown
  <2>5. QED
    BY <2>3, <2>4, Fates
<1>3. Feed(t)!Keep(0) /\ 0 \in 0 .. Len(Pending(t))
  BY <1>1, <1>2 DEF Feed!Keep
<1>4. Standing(t)' = FALSE /\ (Standing(t) \/ Standing(t) = FALSE)
  BY DEF Standing
<1>5. Feed(t)!Close \/ Feed(t)!Forget
  BY <1>3, <1>4 DEF Feed!Close, Feed!Forget
<1>6. QED
  BY <1>5 DEF FeedStep, Feed!Next

(* What the client does before it reads, and after it is through.          *)
LEMMA ConnectingFeeds ==
  ASSUME Fits, Fits', NEW t \in TopicSet,
         \/ Start \/ Connect \/ ConnectFails \/ KeyPanics \/ Subscribe \/ SubscribeFails \/ ReadFails
         \/ CloseWebSocket \/ \E up \in Uptimes : Sleep(up)
  PROVE  FeedStep(t)
<1>1. /\ hand # None <=> at = "callback" /\ (link = "none" <=> ~conn) /\ (conn <=> at \in Connected)
      /\ PendingFits /\ PendingFits'
  BY InParts DEF Fits, TypeOK, Line
<1>2. ASSUME at \in {"start", "connect", "subscribe", "sleep"}, at' \notin {"close", "callback"},
             UNCHANGED <<hand, link, serving, wire, fate>>
      PROVE  FeedStep(t)
  <2>1. OnWire(t)' = OnWire(t)
    BY <1>2 DEF OnWire
  <2>2. Pending(t)' = Pending(t)
    BY <1>1, <1>2, <2>1 DEF PendingFits
  <2>3. Standing(t)' <=> Standing(t)
    BY <1>2 DEF Standing
  <2>4. QED
    BY <1>2, <2>2, <2>3, Rests
<1>3. CASE Start \/ ConnectFails \/ KeyPanics \/ Subscribe \/ \E up \in Uptimes : Sleep(up)
  BY <1>2, <1>3 DEF Start, ConnectFails, KeyPanics, Subscribe, Sleep, Goto, broker, ghosts
<1>4. CASE SubscribeFails \/ ReadFails
  <2>1. link # "up" /\ at' = "close" /\ link' = link /\ fate' = fate
    BY <1>4 DEF SubscribeFails, ReadFails, Goto, broker, ghosts
  <2>2. ~Standing(t)' /\ Pending(t)' = <<>>
    BY <1>1, <2>1 DEF Standing, PendingFits
  <2>3. QED
    BY <2>1, <2>2, Forgets
<1>5. CASE Connect \/ CloseWebSocket
  <2>1. serving' = {} /\ wire' = <<>> /\ fate' = fate /\ hand' = hand /\ hand = None
    BY <1>1, <1>5 DEF Connect, CloseWebSocket
  <2>2. ~Standing(t)' /\ OnWire(t)' = <<>>
    BY <2>1, WireEmptied DEF Standing
  <2>3. Pending(t)' = <<>>
    BY <1>1, <2>1, <2>2 DEF PendingFits
  <2>4. QED
    BY <2>1, <2>2, <2>3, Forgets
<1>6. QED
  BY <1>3, <1>4, <1>5

LEMMA ReadingFeeds ==
  ASSUME Fits, Fits', NEW t \in TopicSet, ReadResponse \/ Receive
  PROVE  FeedStep(t)
<1>1. /\ TypeOK /\ FeedInv /\ (hand # None <=> at = "callback") /\ PendingFits /\ PendingFits'
      /\ hand = None /\ wire # <<>> /\ wire' = Tail(wire) /\ UNCHANGED <<link, serving, fate>>
  BY DEF Fits, TypeOK, ReadResponse, Receive, ghosts
<1>2. Pending(t) = OnWire(t) /\ at # "close"
  BY <1>1 DEF PendingFits, ReadResponse, Receive
<1>3. CASE ReadResponse
  <2>1. CASE at' = "close"
    <3>1. ~Standing(t)' /\ Pending(t)' = <<>>
      BY <1>1, <2>1 DEF Standing, PendingFits
    <3>2. QED
      BY <1>1, <3>1, Forgets
  <2>2. CASE at' # "close"
    <3>1. Head(wire).kind = "response" /\ hand' = hand
      BY <1>3, <2>2 DEF ReadResponse, Goto
    <3>2. OnWire(t)' = OnWire(t)
      BY <1>1, <3>1, FirstRead DEF Tells
    <3>3. Pending(t)' = Pending(t)
      BY <1>1, <1>2, <2>2, <3>1, <3>2 DEF PendingFits
    <3>4. Standing(t)' <=> Standing(t)
      BY <1>1, <1>2, <2>2 DEF Standing
    <3>5. QED
      BY <1>1, <3>3, <3>4, Rests
  <2>3. QED
    BY <2>1, <2>2
<1>4. CASE Receive
  <2>1. at' # "close" /\ keys = TopicSet
    BY <1>1, <1>4 DEF Receive, Goto, FeedInv, KeysHeld
  <2>2. Standing(t)' <=> Standing(t)
    BY <1>1, <1>2, <2>1 DEF Standing
  <2> DEFINE x == Head(wire).order
  <2>3. CASE Tells(Head(wire), t)
    <3>1. hand' = x /\ x \in Orders /\ x # None /\ TopicOf[x] = t
      BY <1>1, <1>4, <2>1, <2>3, FirstRead, TopicsDiffer DEF Receive, Tells
    <3>2. OnWire(t) = <<x>> \o OnWire(t)'
      BY <1>1, <2>3, FirstRead
    <3>3. Pending(t)' = <<x>> \o OnWire(t)'
      BY <1>1, <2>1, <3>1 DEF PendingFits
    <3>4. QED
      BY <1>1, <1>2, <2>2, <3>2, <3>3, Rests
  <2>4. CASE ~Tells(Head(wire), t)
    <3>1. hand' = None \/ TopicOf[hand'] # t
      BY <1>1, <1>4, <2>4 DEF Receive, Tells
    <3>2. OnWire(t)' = OnWire(t)
      BY <1>1, <2>4, FirstRead
    <3>3. Pending(t)' = Pending(t)
      BY <1>1, <1>2, <2>1, <3>1, <3>2 DEF PendingFits
    <3>4. QED
      BY <1>1, <2>2, <3>3, Rests
  <2>5. QED
    BY <2>3, <2>4
<1>5. QED
  BY <1>3, <1>4

LEMMA TakeFeeds == ASSUME Fits, Fits', NEW t \in TopicSet, Take PROVE FeedStep(t)
<1>1. PICK x \in Orders : x = hand /\ x # None /\ fate[x] = "executed"
  BY TopicsDiffer DEF Take, Fits, TypeOK, FeedInv, Carried
<1>2. /\ PendingFits /\ PendingFits' /\ at = "callback" /\ at' = "receive" /\ hand' = None
      /\ fate'[x] = "given" /\ (\A o \in Orders \ {x} : fate'[o] = fate[o])
      /\ UNCHANGED <<link, serving, wire>>
  BY <1>1 DEF Take, Fits, TypeOK, Goto, broker
<1>3. OnWire(t)' = OnWire(t) /\ (Standing(t)' <=> Standing(t)) /\ Pending(t)' = OnWire(t)
  BY <1>2 DEF OnWire, Standing, PendingFits
<1>4. CASE TopicOf[x] # t
  <2>1. Pending(t) = OnWire(t)
    BY <1>1, <1>2, <1>4 DEF PendingFits
  <2>2. \A o \in OrdersOf(t) : fate'[o] = fate[o]
    BY <1>2, <1>4 DEF OrdersOf
  <2>3. QED
    BY <1>3, <2>1, <2>2, Rests
<1>5. CASE TopicOf[x] = t
  <2>1. PICK p \in Seq(Orders) : p = OnWire(t)
    BY <1>2 DEF PendingFits
  <2>2. Pending(t) = <<x>> \o p
    BY <1>1, <1>2, <1>5, <2>1 DEF PendingFits
  <2>3. /\ Pending(t) # <<>> /\ Head(Pending(t)) = x /\ Tail(Pending(t)) = p
        /\ \A o : On(Pending(t), o) <=> o = x \/ On(p, o)
    BY <2>2, OneBefore
  <2>4. Pending(t)' = Tail(Pending(t)) /\ \A o : On(Pending(t)', o) <=> On(p, o)
    BY <1>3, <2>1, <2>3
  <2>5. Fate(t)' = [Fate(t) EXCEPT ![x] = "given"]
    <3>1. x \in OrdersOf(t) /\ \A o \in OrdersOf(t) : o \in Orders
      BY <1>5 DEF OrdersOf
    <3>2. \A o \in OrdersOf(t) \ {x} : fate'[o] = fate[o] /\ (On(Pending(t)', o) <=> On(Pending(t), o))
      BY <1>2, <2>3, <2>4, <3>1
    <3>3. OrdersOf(t)' = OrdersOf(t)
      BY DEF OrdersOf
    <3>4. QED
      BY <1>2, <3>1, <3>2, <3>3, Fates DEF Shown
  <2>6. Standing(t)' = Standing(t)
    BY <1>3 DEF Standing
  <2>7. Feed(t)!Give
    BY <2>3, <2>4, <2>5, <2>6 DEF Feed!Give
  <2>8. QED
    BY <2>7 DEF FeedStep, Feed!Next
<1>6. QED
  BY <1>4, <1>5

LEMMA ExecuteFeeds ==
  ASSUME Fits, Fits', NEW o \in Orders, Execute(o), NEW t \in TopicSet
  PROVE  FeedStep(t)
<1>1. /\ PendingFits /\ PendingFits' /\ TypeOK /\ UNCHANGED <<at, hand, link, serving>>
      /\ fate[o] = "placed" /\ fate'[o] = "executed" /\ \A x \in Orders \ {o} : fate'[x] = fate[x]
  BY DEF Execute, Fits, TypeOK, client
<1>2. Standing(t)' = Standing(t)
  BY <1>1 DEF Standing
<1>3. PICK p \in Seq(Orders) : p = OnWire(t)
  BY <1>1 DEF PendingFits
<1>4. OnWire(t)' = IF link = "up" /\ TopicOf[o] \in serving /\ TopicOf[o] = t THEN Append(p, o) ELSE p
  <2>1. CASE link = "up" /\ TopicOf[o] \in serving
    <3>1. wire \in Seq(Messages) /\ Notice(o, TRUE) \in Messages /\ wire' = Append(wire, Notice(o, TRUE))
      BY <2>1, Made, WireTyped, <1>1 DEF Execute, Report, Send
    <3>2. OnWire(t)' = With(OnWire(t), Notice(o, TRUE), t)
      BY <3>1, ExecutionsAppend DEF OnWire
    <3>3. QED
      BY <1>3, <2>1, <3>2, NotTelling DEF With
  <2>2. CASE ~(link = "up" /\ TopicOf[o] \in serving)
    BY <1>3, <2>2 DEF Execute, Report, OnWire
  <2>3. QED
    BY <2>1, <2>2
<1>5. CASE TopicOf[o] # t
  <2>1. Pending(t)' = Pending(t)
    BY <1>1, <1>3, <1>4, <1>5 DEF PendingFits
  <2>2. \A x \in OrdersOf(t) : fate'[x] = fate[x]
    BY <1>1, <1>5 DEF OrdersOf
  <2>3. QED
    BY <1>2, <2>1, <2>2, Rests
<1>6. CASE TopicOf[o] = t
  <2>1. o \in OrdersOf(t) /\ OrdersOf(t)' = OrdersOf(t) /\ \A x \in OrdersOf(t) : x \in Orders
    BY <1>6 DEF OrdersOf
  <2>2. Fate(t)[o] = "placed" /\ ~On(Pending(t), o)
    BY <1>1, <2>1, Fates DEF PendingFits, Shown
  <2>3. CASE ~Standing(t)
    <3>1. Pending(t)' = Pending(t)
      <4>1. CASE at = "close"
        BY <1>1, <4>1 DEF PendingFits
      <4>2. CASE at # "close"
        <5>1. OnWire(t)' = p
          BY <1>4, <1>6, <2>3, <4>2 DEF Standing
        <5>2. QED
          BY <1>1, <1>3, <5>1 DEF Pending, InHand
      <4>3. QED
        BY <4>1, <4>2
    <3>2. Fate(t)' = [Fate(t) EXCEPT ![o] = "lost"]
      BY <1>1, <2>1, <2>2, <3>1, Fates DEF Shown
    <3>3. Feed(t)!Execute(o)
      BY <1>2, <2>2, <2>3, <3>1, <3>2 DEF Feed!Execute
    <3>4. QED
      BY <2>1, <3>3 DEF FeedStep, Feed!Next
  <2>4. CASE Standing(t)
    <3>1. OnWire(t)' = Append(p, o) /\ at # "close"
      BY <1>4, <1>6, <2>4 DEF Standing
    <3>2. Pending(t)' = Append(Pending(t), o)
      <4>1. CASE hand # None /\ TopicOf[hand] = t
        <5>1. PICK x \in Orders : x = hand
          BY <1>1, <4>1 DEF TypeOK
        <5>2. Pending(t) = <<x>> \o p /\ Pending(t)' = <<x>> \o Append(p, o)
          BY <1>1, <1>3, <3>1, <4>1, <5>1 DEF PendingFits
        <5>3. QED
          BY <5>2, OneBefore
      <4>2. CASE ~(hand # None /\ TopicOf[hand] = t)
        BY <1>1, <1>3, <3>1, <4>2 DEF PendingFits
      <4>3. QED
        BY <4>1, <4>2
    <3>3. Fate(t)' = [Fate(t) EXCEPT ![o] = "pending"]
      <4>1. PICK r \in Seq(Orders) : r = Pending(t)
        BY <1>1 DEF PendingFits
      <4>2. \A x \in Orders : On(Pending(t)', x) <=> On(Pending(t), x) \/ x = o
        BY <3>2, <4>1, OneMore
      <4>3. QED
        BY <1>1, <2>1, <2>2, <4>2, Fates DEF Shown
    <3>4. Feed(t)!Execute(o)
      BY <1>2, <2>2, <2>4, <3>2, <3>3 DEF Feed!Execute
    <3>5. QED
      BY <2>1, <3>4 DEF FeedStep, Feed!Next
  <2>5. QED
    BY <2>3, <2>4
<1>7. QED
  BY <1>5, <1>6

LEMMA BrokerFeeds ==
  ASSUME Fits, Fits', NEW t \in TopicSet,
         \/ \E ok \in BOOLEAN : Answer(ok)
         \/ \E o \in Orders : Accept(o)
         \/ Beat \/ Break
  PROVE  FeedStep(t)
<1>1. /\ PendingFits /\ PendingFits' /\ TypeOK /\ UNCHANGED <<at, hand>>
      /\ \A o \in OrdersOf(t) : \/ fate'[o] = fate[o]
                                \/ fate[o] \in {"new", "placed"} /\ fate'[o] \in {"new", "placed"}
  <2>1. CASE \E o \in Orders : Accept(o)
    BY <2>1 DEF Accept, Fits, TypeOK, client, OrdersOf
  <2>2. CASE (\E ok \in BOOLEAN : Answer(ok)) \/ Beat \/ Break
    BY <2>2 DEF Answer, Beat, Break, Fits, client, ghosts
  <2>3. QED
    BY <2>1, <2>2
<1>2. OnWire(t)' = OnWire(t)
  <2>1. ASSUME NEW m \in Messages, \A s \in TopicSet : ~Tells(m, s), Send(m)
        PROVE  OnWire(t)' = OnWire(t)
    BY <1>1, <2>1, OtherSent
  <2>2. ASSUME wire' = wire PROVE OnWire(t)' = OnWire(t)
    BY <2>2 DEF OnWire
  <2>3. ASSUME NEW ok \in BOOLEAN, Answer(ok) PROVE OnWire(t)' = OnWire(t)
    <3>1. Response(asked, ok) \in Messages /\ Send(Response(asked, ok))
      BY <1>1, <2>3, Made DEF Answer, TypeOK
    <3>2. QED
      BY <2>1, <3>1, NotTelling
  <2>4. ASSUME NEW o \in Orders, Accept(o) PROVE OnWire(t)' = OnWire(t)
    <3>1. Notice(o, FALSE) \in Messages /\ (Send(Notice(o, FALSE)) \/ wire' = wire)
      BY <2>4, Made DEF Accept, Report
    <3>2. QED
      BY <2>1, <2>2, <3>1, NotTelling
  <2>5. ASSUME Beat PROVE OnWire(t)' = OnWire(t)
    <3>1. Ping \in Messages /\ Send(Ping)
      BY <2>5, Made DEF Beat
    <3>2. QED
      BY <2>1, <3>1, NotTelling
  <2>6. ASSUME Break PROVE OnWire(t)' = OnWire(t)
    BY <2>2, <2>6 DEF Break
  <2>7. QED
    BY <2>3, <2>4, <2>5, <2>6
<1>3. Pending(t)' = Pending(t)
  BY <1>1, <1>2 DEF Pending, InHand
<1>4. ASSUME Standing(t)' <=> Standing(t) PROVE FeedStep(t)
  BY <1>1, <1>3, <1>4, Rests
<1>5. CASE (\E o \in Orders : Accept(o)) \/ Beat
  <2>1. UNCHANGED <<link, serving>>
    BY <1>5 DEF Accept, Beat
  <2>2. QED
    BY <1>1, <1>4, <2>1 DEF Standing
<1>6. ASSUME \/ \E ok \in BOOLEAN : Answer(ok)
             \/ Break
      PROVE  fate' = fate
  BY <1>6 DEF Answer, Break, ghosts
<1>7. ASSUME fate' = fate PROVE Fate(t)' = Fate(t)
  BY <1>3, <1>7, Fates
<1>8. ASSUME NEW ok \in BOOLEAN, Answer(ok), ~(Standing(t)' <=> Standing(t)) PROVE FeedStep(t)
  <2>1. Standing(t) = FALSE /\ Standing(t)' = TRUE
    BY <1>1, <1>8 DEF Answer, Standing
  <2>2. Feed(t)!Open
    BY <1>3, <1>6, <1>7, <1>8, <2>1 DEF Feed!Open
  <2>3. QED
    BY <2>2 DEF FeedStep, Feed!Next
<1>9. ASSUME Break, ~(Standing(t)' <=> Standing(t)) PROVE FeedStep(t)
  <2>1. Standing(t) /\ Standing(t)' = FALSE
    BY <1>1, <1>9 DEF Break, Standing
  <2>2. PICK p \in Seq(Orders) : p = Pending(t)
    BY <1>1 DEF PendingFits
  <2>3. SubSeq(p, 1, Len(p)) = p /\ Len(p) \in Nat
    BY SubSeqFull, LenProperties
  <2>4. Fate(t) = [o \in OrdersOf(t) |-> Fate(t)[o]]
    BY DEF Fate
  <2>5. Feed(t)!Keep(Len(p))
    BY <1>3, <1>6, <1>7, <1>9, <2>2, <2>3, <2>4 DEF Feed!Keep
  <2>6. Feed(t)!Close
    BY <2>1, <2>2, <2>3, <2>5 DEF Feed!Close
  <2>7. QED
    BY <2>6 DEF FeedStep, Feed!Next
<1>10. QED
  BY <1>4, <1>5, <1>8, <1>9

LEMMA StepsFeed == ASSUME Fits, Fits', [Next]_vars, NEW t \in TopicSet PROVE FeedStep(t)
<1>1. CASE UNCHANGED vars
  <2>1. UNCHANGED <<Standing(t), Pending(t), Fate(t)>>
    BY <1>1 DEF vars, client, broker, ghosts, Standing, Pending, InHand, OnWire, Fate, GivenRight
  <2>2. QED
    BY <2>1 DEF FeedStep
<1>2. QED
  BY <1>1, ConnectingFeeds, ReadingFeeds, TakeFeeds, ExecuteFeeds, BrokerFeeds DEF Next, Client

(* Each topic hands its executions over in the order they happened, each   *)
(* once and with the sign of a sale, and loses one only when it is not     *)
(* subscribed to or its connection ends: whatever came between the two     *)
(* subscriptions, and whatever other messages there are (kis_ws.go).       *)
THEOREM TopicsFeed == Spec => TopicsAreFeeds
<1>1. Init => D!Init /\ O!Init
  <2>1. SUFFICES ASSUME Init PROVE D!Init /\ O!Init
    OBVIOUS
  <2>2. \A t : OnWire(t) = <<>>
    BY <2>1, NoExecutions DEF Init, OnWire
  <2>3. <<>> \o <<>> = <<>> /\ <<>> \in Seq(Orders)
    BY ConcatEmptySeq
  <2>4. \A t : Pending(t) = <<>>
    BY <2>1, <2>2, <2>3 DEF Init, Pending, InHand
  <2>5. \A t : Standing(t) = FALSE /\ Fate(t) = [o \in OrdersOf(t) |-> "placed"]
    BY <2>1 DEF Init, Standing, Fate, OrdersOf
  <2>6. QED
    BY <2>4, <2>5 DEF D!Init, O!Init
<1>2. Fits /\ Fits' /\ [Next]_vars
        => [D!Next]_<<Standing(Domestic), Pending(Domestic), Fate(Domestic)>>
  BY StepsFeed, TopicsDiffer DEF FeedStep, Feed!Next, Feed!Execute, Feed!Give, Feed!Open, Feed!Close,
     Feed!Forget, Feed!Keep, D!Next, D!Execute, D!Give, D!Open, D!Close, D!Forget, D!Keep
<1>3. Fits /\ Fits' /\ [Next]_vars
        => [O!Next]_<<Standing(Overseas), Pending(Overseas), Fate(Overseas)>>
  BY StepsFeed, TopicsDiffer DEF FeedStep, Feed!Next, Feed!Execute, Feed!Give, Feed!Open, Feed!Close,
     Feed!Forget, Feed!Keep, O!Next, O!Execute, O!Give, O!Open, O!Close, O!Forget, O!Keep
<1>4. QED
  BY <1>1, <1>2, <1>3, AlwaysFits, PTL DEF Spec, TopicsAreFeeds, D!Spec, O!Spec

-----------------------------------------------------------------------------
(***************************************************************************)
(* Both                                                                    *)
(***************************************************************************)
(* The program at the broker's is each of its parts.                       *)
THEOREM ApiIsBoth == SpecApi => Spec /\ TokenSpec
<1>1. InitApi => Init /\ TokenInit
  BY DEF InitApi
<1>2. [NextApi]_api => [Next]_vars /\ [TokenNext]_tokenVars
  BY DEF NextApi, OfStream, OfToken, api
<1>3. QED
  BY <1>1, <1>2, PTL DEF SpecApi, Spec, TokenSpec

(* Everything is well typed when both run.                                 *)
THEOREM ApiTypesCorrect == SpecApi => []TypesOK
<1>1. TypeOK /\ TokenTypeOK => TypesOK
  BY DEF TypesOK
<1>2. QED
  BY <1>1, ApiIsBoth, StreamTypesCorrect, TokenTypesCorrect, PTL

(* A token is spoilt by overlaps only, when both run.                      *)
THEOREM ApiOverlapsSpoil == SpecApi => []OnlyOverlapsSpoil
  BY ApiIsBoth, OverlapsSpoil

(* Requests end for the stated causes, when both run.                      *)
THEOREM ApiOutcomesExplained == SpecApi => []OutcomesAreExplained
  BY ApiIsBoth, OutcomesExplained

(* Each topic is a feed of the orders, when both run.                      *)
THEOREM ApiTopicsFeed == SpecApi => TopicsAreFeeds
  BY ApiIsBoth, TopicsFeed
=============================================================================
