-------------------------- MODULE ChainTraderProofs --------------------------
(***************************************************************************)
(* Any number of runs, swaps and faults: swaps fail over a nonce or a      *)
(* permit for the named causes, what moved is accounted for, an advice     *)
(* is lost or wrong for the stated causes only, and the arithmetic of a    *)
(* position agrees with itself for every tick and amount.                  *)
(***************************************************************************)
EXTENDS ChainTrader, SequenceTheorems, FiniteSetTheorems, TLAPS

(***************************************************************************)
(* Swaps: types                                                            *)
(***************************************************************************)
Steps == {"idle", "grant", "nonce", "send", "poll"}
Grants == [left : 0..Cover, live : BOOLEAN, nonce : Nat]
Txs == [in : Tokens, permit : Nat \cup {NoPermit}, res : {"pending", "ok", "reverted"}]
Running == {j \in Jobs : pc[j] # "idle"}
Risks == {"nonce"} \cup PermitRisks

(* TypeOK in parts.  The runs under way are finitely many, as launches are.*)
JobTypes ==
  /\ pc \in [Jobs -> Steps]
  /\ leg \in [Jobs -> 0..Legs] /\ nonce \in [Jobs -> Nat]
  /\ permit \in [Jobs -> Nat \cup {NoPermit}]
  /\ tries \in [Jobs -> 0..(Polls - 1)] /\ tx \in [Jobs -> Nat]
  /\ IsFiniteSet(Running) /\ told \in Nat
JobHolds(j) ==
  /\ IF pc[j] = "poll" THEN tx[j] \in 1..Len(sent) /\ sent[tx[j]].in = TokenIn(j) ELSE tx[j] = 0
  /\ pc[j] = "idle" <=> leg[j] = 0
ChainTypes ==
  /\ sent \in Seq(Txs)
  /\ mined \in 0..Len(sent)
  /\ \A i \in 1..Len(sent) : sent[i].res = "pending" <=> i > mined
  /\ grant \in [Tokens -> Grants]

SwapTypes == JobTypes /\ (\A j \in Jobs : JobHolds(j)) /\ ChainTypes

LEMMA SwapTypesInParts == SwapTypes => TypeOK
  BY DEF SwapTypes, JobTypes, JobHolds, ChainTypes, TypeOK, Steps, Grants, Txs

LEMMA SwapConstants ==
  /\ Legs \in Nat \ {0} /\ Legs % 2 = 0 /\ Polls \in Nat \ {0} /\ Cover \in Nat \ {0}
  /\ NoPermit \notin Nat /\ Cron \subseteq Jobs
  BY SwapAssumption DEF SwapAssumption

(* An odd swap is not the last one.                                        *)
LEMMA OddGoesOn == \A n \in 0..Legs : n % 2 = 1 => n < Legs
  BY SwapConstants

LEMMA TokenInTypes == \A j \in Jobs : TokenIn(j) \in Tokens
  BY DEF TokenIn, Tokens

LEMMA SwapTypesInitially == ASSUME Init PROVE SwapTypes
<1>1. JobTypes
  <2>1. Running = {}
    BY DEF Init, Running
  <2>2. IsFiniteSet(Running)
    BY <2>1, FS_EmptySet
  <2>3. QED
    BY <2>2, SwapConstants DEF Init, JobTypes, Steps
<1>2. \A j \in Jobs : JobHolds(j)
  BY DEF Init, JobHolds
<1>3. ChainTypes
  BY SwapConstants, EmptySeq DEF Init, ChainTypes, Grants, Tokens
<1>4. QED
  BY <1>1, <1>2, <1>3 DEF SwapTypes

(* A step of one job leaves the others as they are.                        *)
OthersStay(j) ==
  \A k \in Jobs \ {j} : pc'[k] = pc[k] /\ leg'[k] = leg[k] /\ permit'[k] = permit[k]
                        /\ nonce'[k] = nonce[k] /\ tx'[k] = tx[k]

(* The transactions sent so far stay as they are, but for their result.    *)
SentStays ==
  /\ Len(sent) <= Len(sent')
  /\ \A i \in 1..Len(sent) : sent'[i].in = sent[i].in /\ sent'[i].permit = sent[i].permit

LEMMA OneJob ==
  ASSUME SwapTypes, NEW j \in Jobs, JobTypes', ChainTypes', SentStays, JobHolds(j)', OthersStay(j)
  PROVE  SwapTypes'
<1>1. Len(sent) \in Nat /\ Len(sent') \in Nat
  BY LenProperties DEF SwapTypes, ChainTypes
<1>2. ASSUME NEW k \in Jobs \ {j} PROVE JobHolds(k)'
  <2>1. JobHolds(k) /\ UNCHANGED <<pc[k], leg[k], tx[k]>>
    BY DEF SwapTypes, OthersStay
  <2>2. QED
    BY <1>1, <2>1 DEF JobHolds, SentStays, TokenIn
<1>3. QED
  BY <1>2 DEF SwapTypes

(* Running stays finite.                                                   *)
LEMMA RunningFinite ==
  ASSUME SwapTypes, NEW j \in Jobs, \A k \in Jobs \ {j} : pc'[k] \in {pc[k], "idle"}
  PROVE  IsFiniteSet(Running')
<1>1. IsFiniteSet(Running \cup {j})
  BY FS_AddElement DEF SwapTypes, JobTypes
<1>2. Running' \subseteq Running \cup {j}
  BY DEF Running
<1>3. QED
  BY <1>1, <1>2, FS_Subset

LEMMA LegEnds ==
  ASSUME SwapTypes, NEW j \in Jobs, NEW b \in BOOLEAN, EndLeg(j, b), pc[j] # "idle"
  PROVE  /\ JobTypes' /\ OthersStay(j)
         /\ pc'[j] = IF leg[j] < Legs THEN "grant" ELSE "idle"
         /\ leg'[j] = IF leg[j] < Legs THEN leg[j] + 1 ELSE 0
         /\ pc'[j] = "idle" <=> leg'[j] = 0
         /\ tx'[j] = 0
         /\ told' = IF b THEN told + 1 ELSE told
<1>1. leg[j] \in 1..Legs
  BY DEF SwapTypes, JobTypes, JobHolds
<1>2. IsFiniteSet(Running')
  BY RunningFinite DEF EndLeg, SwapTypes, JobTypes
<1>3. pc' \in [Jobs -> Steps] /\ leg' \in [Jobs -> 0..Legs]
  BY <1>1, SwapConstants DEF EndLeg, SwapTypes, JobTypes, Steps
<1>4. /\ nonce' \in [Jobs -> Nat] /\ permit' \in [Jobs -> Nat \cup {NoPermit}]
      /\ tries' \in [Jobs -> 0..(Polls - 1)] /\ tx' \in [Jobs -> Nat] /\ told' \in Nat
  BY SwapConstants DEF EndLeg, SwapTypes, JobTypes
<1>5. JobTypes'
  BY <1>2, <1>3, <1>4 DEF JobTypes
<1>6. OthersStay(j)
  BY DEF OthersStay, EndLeg, SwapTypes, JobTypes
<1>7. /\ pc'[j] = IF leg[j] < Legs THEN "grant" ELSE "idle"
      /\ leg'[j] = IF leg[j] < Legs THEN leg[j] + 1 ELSE 0
      /\ tx'[j] = 0 /\ told' = IF b THEN told + 1 ELSE told
  BY DEF EndLeg, SwapTypes, JobTypes
<1>8. leg[j] + 1 # 0
  BY <1>1, SwapConstants
<1>9. pc'[j] = "idle" <=> leg'[j] = 0
  BY <1>7, <1>8
<1>10. QED
  BY <1>5, <1>6, <1>7, <1>9

LEMMA ChainUntouched ==
  ASSUME SwapTypes, UNCHANGED chain
  PROVE  ChainTypes' /\ SentStays
<1>1. Len(sent) \in Nat
  BY LenProperties DEF SwapTypes, ChainTypes
<1>2. QED
  BY <1>1 DEF SwapTypes, ChainTypes, SentStays, chain

(* Another transaction waits.                                              *)
LEMMA SentMore ==
  ASSUME SwapTypes, NEW j \in Jobs, sent' = Append(sent, Signed(j)), UNCHANGED <<mined, grant>>
  PROVE  /\ ChainTypes' /\ SentStays /\ Len(sent) \in Nat /\ Len(sent') = Len(sent) + 1
         /\ sent'[Len(sent')] = Signed(j)
         /\ \A i \in 1..Len(sent) : sent'[i] = sent[i]
<1>1. Signed(j) \in Txs /\ Signed(j).res = "pending"
  BY TokenInTypes DEF Signed, Txs, SwapTypes, JobTypes
<1>2. /\ sent' \in Seq(Txs) /\ Len(sent) \in Nat /\ Len(sent') = Len(sent) + 1
      /\ \A i \in 1..Len(sent) : sent'[i] = sent[i]
      /\ sent'[Len(sent) + 1] = Signed(j)
  BY <1>1, AppendProperties, LenProperties DEF SwapTypes, ChainTypes
<1>3. mined \in 0..Len(sent) /\ mined' = mined /\ grant' \in [Tokens -> Grants]
  BY DEF SwapTypes, ChainTypes
<1>4. \A i \in 1..Len(sent') : sent'[i].res = "pending" <=> i > mined'
  <2>1. ASSUME NEW i \in 1..Len(sent'), i # Len(sent) + 1
        PROVE  sent'[i].res = "pending" <=> i > mined'
    <3>1. i \in 1..Len(sent)
      BY <1>2, <2>1
    <3>2. QED
      BY <1>2, <1>3, <3>1 DEF SwapTypes, ChainTypes
  <2>2. sent'[Len(sent) + 1].res = "pending" /\ Len(sent) + 1 > mined'
    BY <1>1, <1>2, <1>3
  <2>3. QED
    BY <2>1, <2>2
<1>5. ChainTypes'
  BY <1>2, <1>3, <1>4 DEF ChainTypes
<1>6. SentStays
  BY <1>2 DEF SentStays
<1>7. QED
  BY <1>2, <1>5, <1>6

LEMMA LaunchTypes == ASSUME SwapTypes, NEW j \in Jobs, Launch(j) PROVE SwapTypes'
<1>1. IsFiniteSet(Running')
  BY RunningFinite DEF Launch, SwapTypes, JobTypes
<1>2. JobTypes'
  BY <1>1, SwapConstants DEF Launch, SwapTypes, JobTypes, Steps, ghosts
<1>3. JobHolds(j)' /\ OthersStay(j)
  BY DEF Launch, SwapTypes, JobTypes, JobHolds, OthersStay
<1>4. QED
  BY <1>2, <1>3, OneJob, ChainUntouched DEF Launch

LEMMA ReadTypes ==
  ASSUME SwapTypes, NEW j \in Jobs, ReadGrant(j) \/ ReadNonce(j)
  PROVE  SwapTypes'
<1>1. IsFiniteSet(Running')
  BY RunningFinite DEF ReadGrant, ReadNonce, SwapTypes, JobTypes
<1>2. grant[TokenIn(j)].nonce \in Nat /\ Len(sent) \in Nat
  BY TokenInTypes, LenProperties DEF SwapTypes, ChainTypes, Grants
<1>3. JobTypes'
  BY <1>1, <1>2, ZenonT(60) DEF ReadGrant, ReadNonce, SwapTypes, JobTypes, Steps
<1>4. JobHolds(j)' /\ OthersStay(j)
  BY DEF ReadGrant, ReadNonce, SwapTypes, JobTypes, JobHolds, OthersStay, chain
<1>5. QED
  BY <1>3, <1>4, OneJob, ChainUntouched DEF ReadGrant, ReadNonce

(* A swap is over and nothing more was sent.                               *)
LEMMA LegEndTypes ==
  ASSUME SwapTypes, NEW j \in Jobs, NEW b \in BOOLEAN, EndLeg(j, b), pc[j] # "idle",
         ChainTypes', SentStays
  PROVE  SwapTypes'
<1>1. JobTypes' /\ OthersStay(j) /\ JobHolds(j)'
  BY LegEnds DEF JobHolds
<1>2. QED
  BY <1>1, OneJob

LEMMA SendTypes == ASSUME SwapTypes, NEW j \in Jobs, Send(j) PROVE SwapTypes'
<1>1. CASE nonce[j] = Len(sent)
  <2>1. /\ sent' = Append(sent, Signed(j)) /\ UNCHANGED <<mined, grant, leg, permit, nonce, told>>
        /\ pc[j] = "send" /\ pc' = [pc EXCEPT ![j] = "poll"]
        /\ tx' = [tx EXCEPT ![j] = Len(sent')] /\ tries' = [tries EXCEPT ![j] = 0]
    BY <1>1 DEF Send, Submit
  <2>2. ChainTypes' /\ SentStays /\ Len(sent) \in Nat /\ Len(sent') = Len(sent) + 1
        /\ sent'[Len(sent')] = Signed(j)
    BY <2>1, SentMore
  <2>3. IsFiniteSet(Running')
    BY <2>1, RunningFinite DEF SwapTypes, JobTypes
  <2>4. JobTypes'
    BY <2>1, <2>2, <2>3, SwapConstants DEF SwapTypes, JobTypes, Steps
  <2>5. JobHolds(j)'
    BY <2>1, <2>2 DEF SwapTypes, JobTypes, JobHolds, Signed, TokenIn
  <2>6. OthersStay(j)
    BY <2>1 DEF OthersStay, SwapTypes, JobTypes
  <2>7. QED
    BY <2>2, <2>4, <2>5, <2>6, OneJob
<1>2. CASE nonce[j] # Len(sent)
  BY <1>2, LegEndTypes, ChainUntouched DEF Send, chain
<1>3. QED
  BY <1>1, <1>2

LEMMA SwapFailsTypes == ASSUME SwapTypes, NEW j \in Jobs, SwapFails(j) PROVE SwapTypes'
<1>1. ChainTypes' /\ SentStays
  BY ChainUntouched, SentMore DEF SwapFails, Submit, chain
<1>2. QED
  BY <1>1, LegEndTypes DEF SwapFails

LEMMA PollTypes == ASSUME SwapTypes, NEW j \in Jobs, Receipt(j) \/ NotFound(j) PROVE SwapTypes'
<1>1. ChainTypes' /\ SentStays /\ pc[j] = "poll"
  BY ChainUntouched DEF Receipt, NotFound
<1>2. ASSUME NEW b \in BOOLEAN, EndLeg(j, b) PROVE SwapTypes'
  BY <1>1, <1>2, LegEndTypes
<1>3. ASSUME tries' = [tries EXCEPT ![j] = @ + 1], tries[j] + 1 < Polls,
             UNCHANGED <<pc, leg, permit, nonce, tx, told>>
      PROVE  SwapTypes'
  <2>1. JobTypes'
    BY <1>3, SwapConstants DEF SwapTypes, JobTypes, Running
  <2>2. OthersStay(j)
    BY <1>3 DEF OthersStay
  <2>3. JobHolds(j)'
    BY <1>1, <1>3, LenProperties, SMTT(60) DEF SwapTypes, ChainTypes, JobHolds, TokenIn, SentStays
  <2>4. QED
    BY <1>1, <2>1, <2>2, <2>3, OneJob
<1>4. QED
  BY <1>2, <1>3 DEF Receipt, NotFound

(* Those a panic takes down.                                               *)
Lost(j) == IF j \in Cron THEN {j} ELSE Running

LEMMA PollFailsLoses ==
  ASSUME SwapTypes, NEW j \in Jobs, PollFails(j)
  PROVE  /\ IsFiniteSet(Lost(j)) /\ Cardinality(Lost(j)) \in Nat /\ Lost(j) \subseteq Running
         /\ told' = told + Cardinality(Lost(j))
         /\ \A k \in Lost(j) : pc'[k] = "idle" /\ leg'[k] = 0 /\ tx'[k] = 0
         /\ \A k \in Jobs \ Lost(j) : pc'[k] = pc[k] /\ leg'[k] = leg[k] /\ tx'[k] = tx[k]
                                      /\ permit'[k] = permit[k] /\ nonce'[k] = nonce[k]
         /\ \A k \in Jobs \ Lost(j) : risks'[k] = risks[k]
         /\ JobTypes' /\ UNCHANGED <<chain, launches, carried, clash>>
<1>1. j \in Running
  BY DEF PollFails, Running
<1>2. IsFiniteSet(Lost(j)) /\ Cardinality(Lost(j)) \in Nat /\ Lost(j) \subseteq Running
  BY <1>1, FS_Singleton, FS_CardinalityType DEF Lost, SwapTypes, JobTypes
<1>3. /\ pc' = [k \in Jobs |-> IF k \in Lost(j) THEN "idle" ELSE pc[k]]
      /\ leg' = [k \in Jobs |-> IF k \in Lost(j) THEN 0 ELSE leg[k]]
      /\ permit' = [k \in Jobs |-> IF k \in Lost(j) THEN NoPermit ELSE permit[k]]
      /\ nonce' = [k \in Jobs |-> IF k \in Lost(j) THEN 0 ELSE nonce[k]]
      /\ tx' = [k \in Jobs |-> IF k \in Lost(j) THEN 0 ELSE tx[k]]
      /\ tries' = [k \in Jobs |-> IF k \in Lost(j) THEN 0 ELSE tries[k]]
      /\ risks' = [k \in Jobs |-> IF k \in Lost(j) THEN {} ELSE risks[k]]
      /\ told' = told + Cardinality(Lost(j))
      /\ UNCHANGED <<chain, launches, carried, clash>>
  BY DEF PollFails, Lost, Running
<1>4. IsFiniteSet(Running')
  <2>1. Running' \subseteq Running
    BY <1>3 DEF Running
  <2>2. QED
    BY <2>1, FS_Subset DEF SwapTypes, JobTypes
<1>5. JobTypes'
  BY <1>2, <1>3, <1>4, SwapConstants DEF SwapTypes, JobTypes, Steps
<1>6. QED
  BY <1>2, <1>3, <1>5 DEF Running

LEMMA PollFailsTypes == ASSUME SwapTypes, NEW j \in Jobs, PollFails(j) PROVE SwapTypes'
<1>1. JobTypes' /\ ChainTypes' /\ sent' = sent
  BY PollFailsLoses, ChainUntouched DEF chain
<1>2. ASSUME NEW k \in Jobs PROVE JobHolds(k)'
  BY <1>1, PollFailsLoses DEF SwapTypes, JobHolds, TokenIn
<1>3. QED
  BY <1>1, <1>2 DEF SwapTypes

(* The chain moves, and no job does.                                       *)
LEMMA JobsUntouched ==
  ASSUME SwapTypes, UNCHANGED <<job, told>>, ChainTypes', SentStays
  PROVE  SwapTypes'
<1>1. Len(sent) \in Nat /\ Len(sent') \in Nat
  BY LenProperties DEF SwapTypes, ChainTypes
<1>2. JobTypes'
  BY DEF SwapTypes, JobTypes, job, Running
<1>3. ASSUME NEW k \in Jobs PROVE JobHolds(k)'
  BY <1>1 DEF SwapTypes, JobHolds, SentStays, TokenIn, job
<1>4. QED
  BY <1>2, <1>3 DEF SwapTypes

LEMMA MineFacts ==
  ASSUME SwapTypes, Mine
  PROVE  /\ mined + 1 \in 1..Len(sent) /\ mined' = mined + 1
         /\ sent[mined + 1] \in Txs /\ sent[mined + 1].res = "pending"
         /\ grant[sent[mined + 1].in] \in Grants /\ Len(sent') = Len(sent)
         /\ \E r \in {"ok", "reverted"} : sent' = [sent EXCEPT ![mined + 1].res = r]
         /\ \A i \in 1..Len(sent) \ {mined + 1} : sent'[i] = sent[i]
         /\ sent'[mined + 1].in = sent[mined + 1].in /\ sent'[mined + 1].permit = sent[mined + 1].permit
         /\ sent'[mined + 1].res \in {"ok", "reverted"}
         /\ sent' \in Seq(Txs)
<1>1. mined \in 0..Len(sent) /\ Len(sent) \in Nat /\ mined < Len(sent) /\ mined' = mined + 1
  BY LenProperties DEF SwapTypes, ChainTypes, Mine
<1>2. mined + 1 \in 1..Len(sent)
  BY <1>1
<1>3. sent[mined + 1] \in Txs /\ sent[mined + 1].res = "pending"
  <2>1. sent[mined + 1] \in Txs
    BY <1>2, ElementOfSeq DEF SwapTypes, ChainTypes
  <2>2. QED
    BY <1>1, <1>2, <2>1 DEF SwapTypes, ChainTypes
<1>4. grant[sent[mined + 1].in] \in Grants
  BY <1>3 DEF SwapTypes, ChainTypes, Txs
<1>5. PICK r \in {"ok", "reverted"} : sent' = [sent EXCEPT ![mined + 1].res = r]
  BY DEF Mine
<1>6. sent' = [sent EXCEPT ![mined + 1] = [sent[mined + 1] EXCEPT !.res = r]]
  BY <1>5
<1>7. [sent[mined + 1] EXCEPT !.res = r] \in Txs
  BY <1>3, <1>5 DEF Txs
<1>8. /\ sent' \in Seq(Txs) /\ Len(sent') = Len(sent)
      /\ \A i \in 1..Len(sent) :
           sent'[i] = IF i = mined + 1 THEN [sent[mined + 1] EXCEPT !.res = r] ELSE sent[i]
  BY <1>2, <1>6, <1>7, ExceptSeq DEF SwapTypes, ChainTypes
<1>9. sent'[mined + 1] = [sent[mined + 1] EXCEPT !.res = r]
  BY <1>2, <1>8
<1>10. /\ sent'[mined + 1].in = sent[mined + 1].in /\ sent'[mined + 1].permit = sent[mined + 1].permit
       /\ sent'[mined + 1].res = r
  BY <1>3, <1>9 DEF Txs
<1>11. QED
  BY <1>1, <1>2, <1>3, <1>4, <1>5, <1>8, <1>10

(* A permission in force, or renewed, covers a swap.                       *)
LEMMA RenewedUse ==
  ASSUME NEW t \in Txs, NEW g \in Grants, ~Stale(t, g)
  PROVE  [Renewed(t, g) EXCEPT !.left = @ - 1] \in Grants
<1>1. Renewed(t, g) \in Grants /\ Renewed(t, g).left >= 1
  <2>1. CASE t.permit = NoPermit
    BY <2>1 DEF Stale, Renewed, NeedsPermit, Grants
  <2>2. CASE t.permit # NoPermit
    <3>1. Renewed(t, g) = [left |-> Cover, live |-> TRUE, nonce |-> g.nonce + 1]
      BY <2>2 DEF Renewed
    <3>2. QED
      BY <3>1, SwapConstants DEF Grants
  <2>3. QED
    BY <2>1, <2>2
<1>2. QED
  BY <1>1, SwapConstants DEF Grants

LEMMA MineTypes == ASSUME SwapTypes, Mine PROVE SwapTypes'
<1> DEFINE t == sent[mined + 1]
           g == grant[t.in]
<1>1. t \in Txs /\ g \in Grants /\ Len(sent) \in Nat
  BY MineFacts, LenProperties DEF SwapTypes, ChainTypes
<1>2. ~Stale(t, g) => [Renewed(t, g) EXCEPT !.left = @ - 1] \in Grants
  BY <1>1, RenewedUse
<1>3. grant' \in [Tokens -> Grants]
  <2>1. CASE UNCHANGED grant
    BY <2>1 DEF SwapTypes, ChainTypes
  <2>2. CASE ~Stale(t, g) /\ grant' = [grant EXCEPT ![t.in] = [Renewed(t, g) EXCEPT !.left = @ - 1]]
    BY <1>2, <2>2 DEF SwapTypes, ChainTypes
  <2>3. QED
    BY <2>1, <2>2 DEF Mine
<1>4. \A i \in 1..Len(sent') : sent'[i].res = "pending" <=> i > mined'
  <2>1. ASSUME NEW i \in 1..Len(sent), i # mined + 1 PROVE sent'[i].res = "pending" <=> i > mined'
    <3>1. (sent[i].res = "pending" <=> i > mined) /\ mined \in 0..Len(sent)
      BY DEF SwapTypes, ChainTypes
    <3>2. i > mined <=> i > mined + 1
      BY <1>1, <2>1, <3>1
    <3>3. QED
      BY <2>1, <3>1, <3>2, MineFacts
  <2>2. sent'[mined + 1].res # "pending" /\ ~(mined + 1 > mined')
    BY <1>1, MineFacts
  <2>3. QED
    BY <2>1, <2>2, MineFacts
<1>5. ChainTypes'
  BY <1>1, <1>3, <1>4, MineFacts DEF ChainTypes
<1>6. SentStays
  <2>1. \A i \in 1..Len(sent) : sent'[i].in = sent[i].in /\ sent'[i].permit = sent[i].permit
    BY MineFacts
  <2>2. QED
    BY <1>1, <2>1, MineFacts DEF SentStays
<1>7. QED
  BY <1>5, <1>6, JobsUntouched DEF Mine

LEMMA ExpireTypes == ASSUME SwapTypes, NEW t \in Tokens, Expire(t) PROVE SwapTypes'
<1>1. ChainTypes'
  BY DEF SwapTypes, ChainTypes, Expire, Grants
<1>2. SentStays
  BY LenProperties DEF SwapTypes, ChainTypes, SentStays, Expire
<1>3. QED
  BY <1>1, <1>2, JobsUntouched DEF Expire

LEMMA SwapTypesKept == ASSUME SwapTypes, [Next]_vars PROVE SwapTypes'
<1>1. CASE UNCHANGED vars
  BY <1>1, JobsUntouched, ChainUntouched DEF vars, ghosts, chain
<1>2. ASSUME NEW j \in Jobs, Launch(j) \/ Step(j) \/ SwapFails(j) \/ PollFails(j)
      PROVE  SwapTypes'
  BY <1>2, LaunchTypes, ReadTypes, SendTypes, SwapFailsTypes, PollTypes, PollFailsTypes DEF Step
<1>3. CASE Mine \/ \E t \in Tokens : Expire(t)
  BY <1>3, MineTypes, ExpireTypes
<1>4. QED
  BY <1>1, <1>2, <1>3 DEF Next, Done

LEMMA SwapTypesAlways == Spec => []SwapTypes
<1>1. Init => SwapTypes
  BY SwapTypesInitially
<1>2. SwapTypes /\ [Next]_vars => SwapTypes'
  BY SwapTypesKept
<1>3. QED
  BY <1>1, <1>2, PTL DEF Spec

(* A job asks for the receipt of a transaction that was sent, for its own  *)
(* token, and one in a block has its result, whatever failed or was mined  *)
(* out of turn (CheckTxSuccess, send).                                     *)
THEOREM SwapTypesCorrect == Spec => []TypeOK
  BY SwapTypesAlways, SwapTypesInParts, PTL

(***************************************************************************)
(* Swaps: clashes                                                          *)
(***************************************************************************)

(* A job about to send whose nonce is at no risk is the only one, and its  *)
(* nonce is the next;                                                      *)
NonceFits ==
  \A j \in Sending : "nonce" \notin risks[j] =>
    nonce[j] = Len(sent) /\ \A k \in Sending : k = j

(* a swap of a token that is prepared and whose permit is at no risk is    *)
(* the only one under way, and fits the permission as it is;               *)
PreparedFits(t) ==
  \A j \in Preparing(t) : risks[j] \cap PermitRisks = {} =>
    /\ Pending(t) = {} /\ \A k \in Preparing(t) : k = j
    /\ ~Stale(Signed(j), grant[t])

(* and one that waits for its block is the first, and fits it as well.     *)
SentFits(t) ==
  \A i \in Pending(t) : RisksOf(i) = {} =>
    (\A h \in Pending(t) : i <= h) /\ ~Stale(sent[i], grant[t])

Fits(t) == PreparedFits(t) /\ SentFits(t)
PermitFits == \A t \in Tokens : Fits(t)

ClashInv == ClashesAreExplained /\ NonceFits /\ PermitFits /\ risks \in [Jobs -> SUBSET Risks]

LEMMA ClashInitially == ASSUME Init PROVE ClashInv
<1>1. \A t \in Tokens : Pending(t) = {} /\ Preparing(t) = {}
  BY EmptySeq DEF Init, Pending, Preparing
<1>2. PermitFits
  BY <1>1 DEF PermitFits, Fits, PreparedFits, SentFits
<1>3. QED
  BY <1>2 DEF Init, ClashInv, ClashesAreExplained, NonceFits, Sending

LEMMA SignedPermit == \A j \in Jobs : Signed(j).permit = permit[j] /\ Signed(j).in = TokenIn(j)
  BY DEF Signed

(* Nothing new waits or is prepared for a token, and no risk is forgotten. *)
LEMMA FitsShrinks ==
  ASSUME NEW t \in Tokens, Fits(t), grant'[t] = grant[t],
         Pending(t)' \subseteq Pending(t), Preparing(t)' \subseteq Preparing(t),
         \A i \in Pending(t)' : sent'[i].permit = sent[i].permit /\ RisksOf(i) \subseteq RisksOf(i)',
         \A j \in Preparing(t)' : permit'[j] = permit[j] /\ risks[j] \subseteq risks'[j]
  PROVE  Fits(t)'
<1>1. ASSUME NEW i \in Pending(t)', RisksOf(i)' = {}
      PROVE  (\A h \in Pending(t)' : i <= h) /\ ~Stale(sent[i], grant[t])'
  <2>1. RisksOf(i) = {} /\ i \in Pending(t)
    BY <1>1
  <2>2. QED
    BY <2>1 DEF Fits, SentFits, Stale
<1>2. ASSUME NEW j \in Preparing(t)', risks'[j] \cap PermitRisks = {}
      PROVE  /\ Pending(t)' = {} /\ \A k \in Preparing(t)' : k = j
             /\ ~Stale(Signed(j), grant[t])'
  <2>1. risks[j] \cap PermitRisks = {} /\ j \in Preparing(t)
    BY <1>2
  <2>2. ~Stale(Signed(j), grant[t]) /\ Signed(j).permit = permit[j] /\ Signed(j)'.permit = permit'[j]
    BY <2>1 DEF Fits, PreparedFits, Signed
  <2>3. ~Stale(Signed(j), grant[t])'
    BY <2>2 DEF Stale
  <2>4. QED
    BY <2>1, <2>3 DEF Fits, PreparedFits
<1>3. QED
  BY <1>1, <1>2 DEF Fits, PreparedFits, SentFits

(* A step of a job that sends and prepares nothing.                        *)
LEMMA PermitStays ==
  ASSUME SwapTypes, PermitFits, NEW S \in SUBSET Jobs, UNCHANGED <<chain, carried>>,
         \A j \in Jobs \ S : pc'[j] = pc[j] /\ leg'[j] = leg[j] /\ permit'[j] = permit[j],
         \A j \in S : \/ pc'[j] \notin {"nonce", "send"}
                      \/ pc[j] = "nonce" /\ pc'[j] = "send" /\ leg'[j] = leg[j] /\ permit'[j] = permit[j],
         \A j \in Jobs : pc'[j] \in {"nonce", "send"} => risks[j] \subseteq risks'[j]
  PROVE  PermitFits'
<1>1. SUFFICES ASSUME NEW t \in Tokens PROVE Fits(t)'
  BY DEF PermitFits
<1>2. Fits(t)
  BY DEF PermitFits
<1>3. /\ Pending(t)' = Pending(t) /\ grant'[t] = grant[t] /\ sent' = sent
      /\ \A i \in Pending(t) : RisksOf(i)' = RisksOf(i)
  BY DEF Pending, RisksOf, chain
<1>4. ASSUME NEW j \in Preparing(t)'
      PROVE  j \in Preparing(t) /\ permit'[j] = permit[j] /\ risks[j] \subseteq risks'[j]
  <2>1. j \in Jobs /\ pc'[j] \in {"nonce", "send"} /\ TokenIn(j)' = t
    BY DEF Preparing
  <2>2. leg'[j] = leg[j] /\ permit'[j] = permit[j] /\ pc[j] \in {"nonce", "send"}
    BY <2>1
  <2>3. QED
    BY <2>1, <2>2 DEF Preparing, TokenIn
<1>5. QED
  BY <1>2, <1>3, <1>4, FitsShrinks

LEMMA PermitRests ==
  ASSUME PermitFits, UNCHANGED <<chain, pc, leg, permit, risks, carried>>
  PROVE  PermitFits'
<1>1. ASSUME NEW t \in Tokens, Fits(t) PROVE Fits(t)'
  <2>1. /\ Pending(t)' = Pending(t) /\ Preparing(t)' = Preparing(t)
        /\ \A i \in Pending(t) : RisksOf(i)' = RisksOf(i)
    BY DEF Pending, Preparing, TokenIn, RisksOf, chain
  <2>2. QED
    BY <1>1, <2>1, FitsShrinks DEF chain
<1>2. QED
  BY <1>1 DEF PermitFits

LEMMA NonceStays ==
  ASSUME SwapTypes, NonceFits, UNCHANGED sent, NEW S \in SUBSET Jobs,
         \A j \in Jobs \ S : pc'[j] = pc[j] /\ nonce'[j] = nonce[j] /\ risks'[j] = risks[j],
         \A j \in S : pc'[j] # "send"
  PROVE  NonceFits'
<1>1. Sending' \subseteq Sending
  BY DEF Sending
<1>2. \A j \in Sending' : nonce'[j] = nonce[j] /\ risks'[j] = risks[j]
  BY DEF Sending
<1>3. QED
  BY <1>1, <1>2 DEF NonceFits

LEMMA LegEndRisks ==
  ASSUME ClashInv, NEW j \in Jobs, NEW b \in BOOLEAN, EndLeg(j, b)
  PROVE  /\ risks' \in [Jobs -> SUBSET Risks]
         /\ \A k \in Jobs \ {j} : risks'[k] = risks[k]
  BY DEF ClashInv, EndLeg

LEMMA LegEndFits ==
  ASSUME SwapTypes, ClashInv, NEW j \in Jobs, NEW b \in BOOLEAN, EndLeg(j, b), pc[j] # "idle",
         UNCHANGED <<chain, carried>>
  PROVE  NonceFits' /\ PermitFits' /\ risks' \in [Jobs -> SUBSET Risks]
<1>1. /\ OthersStay(j) /\ pc'[j] \in {"grant", "idle"} /\ {j} \in SUBSET Jobs
      /\ risks' \in [Jobs -> SUBSET Risks] /\ \A k \in Jobs \ {j} : risks'[k] = risks[k]
  BY LegEnds, LegEndRisks
<1>2. NonceFits'
  BY <1>1, NonceStays DEF ClashInv, OthersStay, chain
<1>3. \A k \in Jobs : pc'[k] \in {"nonce", "send"} => risks[k] \subseteq risks'[k]
  BY <1>1
<1>4. PermitFits'
  BY <1>1, <1>3, PermitStays DEF ClashInv, OthersStay
<1>5. QED
  BY <1>1, <1>2, <1>4

LEMMA LaunchFits == ASSUME SwapTypes, ClashInv, NEW j \in Jobs, Launch(j) PROVE ClashInv'
<1>1. /\ pc'[j] = "grant" /\ UNCHANGED <<chain, risks, carried, clash>> /\ {j} \in SUBSET Jobs
      /\ \A k \in Jobs \ {j} : pc'[k] = pc[k] /\ leg'[k] = leg[k] /\ permit'[k] = permit[k] /\ nonce'[k] = nonce[k]
  BY DEF Launch, SwapTypes, JobTypes, ghosts
<1>2. NonceFits'
  BY <1>1, NonceStays DEF ClashInv, chain
<1>3. PermitFits'
  BY <1>1, PermitStays DEF ClashInv
<1>4. QED
  BY <1>1, <1>2, <1>3 DEF ClashInv, ClashesAreExplained

(* Who is put at risk keeps the risks it has.                              *)
LEMMA RisksGrow ==
  ASSUME ClashInv, NEW S \in SUBSET Jobs, NEW r \in Risks, AtRisk(S, r)
  PROVE  /\ risks' \in [Jobs -> SUBSET Risks]
         /\ \A k \in Jobs : risks[k] \subseteq risks'[k]
         /\ \A k \in S : r \in risks'[k]
         /\ \A k \in Jobs \ S : risks'[k] = risks[k]
  BY DEF ClashInv, AtRisk

LEMMA ReadGrantFits == ASSUME SwapTypes, ClashInv, NEW j \in Jobs, ReadGrant(j) PROVE ClashInv'
<1> DEFINE u == TokenIn(j)
<1>1. /\ pc[j] = "grant" /\ pc'[j] = "nonce" /\ UNCHANGED <<chain, carried, clash, leg, nonce>>
      /\ permit'[j] = IF NeedsPermit(grant[u]) THEN grant[u].nonce ELSE NoPermit
      /\ \A k \in Jobs \ {j} : pc'[k] = pc[k] /\ permit'[k] = permit[k]
      /\ IF Pending(u) = {} /\ Preparing(u) = {} THEN UNCHANGED risks
         ELSE AtRisk(Preparing(u) \cup {j}, "beside")
  BY DEF ReadGrant, SwapTypes, JobTypes
<1>2. /\ risks' \in [Jobs -> SUBSET Risks]
      /\ \A k \in Jobs : risks[k] \subseteq risks'[k]
      /\ \/ Pending(u) = {} /\ Preparing(u) = {}
         \/ \A k \in Preparing(u) \cup {j} : "beside" \in risks'[k]
      /\ \A k \in Jobs : "nonce" \in risks'[k] <=> "nonce" \in risks[k]
  <2>1. Preparing(u) \cup {j} \in SUBSET Jobs /\ "beside" \in Risks
    BY DEF Preparing, Risks, PermitRisks
  <2>2. CASE UNCHANGED risks
    BY <1>1, <2>1, <2>2, RisksGrow DEF ClashInv
  <2>3. CASE AtRisk(Preparing(u) \cup {j}, "beside")
    <3>1. \A k \in Jobs : "nonce" \in risks'[k] <=> "nonce" \in risks[k]
      BY <2>3 DEF AtRisk
    <3> HIDE DEF u
    <3>2. QED
      BY <2>1, <2>3, <3>1, RisksGrow
  <2>4. QED
    BY <1>1, <2>2, <2>3
<1>3. NonceFits'
  <2>1. Sending' = Sending /\ j \notin Sending
    BY <1>1 DEF Sending
  <2>2. QED
    BY <1>1, <1>2, <2>1 DEF ClashInv, NonceFits, chain, Sending
<1>4. PermitFits'
  <2>1. SUFFICES ASSUME NEW t \in Tokens PROVE Fits(t)'
    BY DEF PermitFits
  <2>2. Fits(t) /\ Fits(u)
    BY TokenInTypes DEF ClashInv, PermitFits
  <2>3. /\ Pending(t)' = Pending(t) /\ grant' = grant /\ sent' = sent
        /\ \A i \in Pending(t) : RisksOf(i)' = RisksOf(i)
    BY <1>1 DEF Pending, RisksOf, chain
  <2>4. \A k \in Jobs : TokenIn(k)' = TokenIn(k)
    BY <1>1 DEF TokenIn
  <2>5. CASE t # u
    <3>1. \A k \in Preparing(t)' : k \in Preparing(t) /\ permit'[k] = permit[k] /\ risks[k] \subseteq risks'[k]
      BY <1>1, <1>2, <2>4, <2>5 DEF Preparing
    <3>2. QED
      BY <2>2, <2>3, <3>1, FitsShrinks
  <2>6. CASE t = u
    <3>1. Preparing(t)' = Preparing(u) \cup {j}
      BY <1>1, <2>4, <2>6 DEF Preparing
    <3>2. ~Stale(Signed(j), grant[t])'
      <4>1. Signed(j)'.permit = permit'[j]
        BY DEF Signed
      <4>2. grant[t] \in Grants
        BY DEF SwapTypes, ChainTypes
      <4>3. QED
        BY <1>1, <2>3, <2>6, <4>1, <4>2, SwapConstants DEF Stale, NeedsPermit, Grants
    <3>3. ASSUME NEW k \in Preparing(t)', risks'[k] \cap PermitRisks = {}
          PROVE  /\ Pending(t)' = {} /\ (\A l \in Preparing(t)' : l = k)
                 /\ ~Stale(Signed(k), grant[t])'
      <4>1. "beside" \notin risks'[k]
        BY <3>3 DEF PermitRisks
      <4>2. Pending(u) = {} /\ Preparing(u) = {}
        BY <1>2, <3>1, <4>1
      <4>3. k = j /\ Preparing(t)' = {j}
        BY <3>1, <4>2
      <4>4. QED
        BY <2>3, <2>6, <3>2, <4>2, <4>3
    <3>4. SentFits(t)'
      BY <2>2, <2>3 DEF Fits, SentFits
    <3>5. QED
      BY <3>3, <3>4 DEF Fits, PreparedFits
  <2>7. QED
    BY <2>5, <2>6
<1>5. QED
  BY <1>1, <1>2, <1>3, <1>4 DEF ClashInv, ClashesAreExplained

LEMMA ReadNonceFits == ASSUME SwapTypes, ClashInv, NEW j \in Jobs, ReadNonce(j) PROVE ClashInv'
<1>1. /\ pc[j] = "nonce" /\ pc'[j] = "send" /\ UNCHANGED <<chain, carried, clash, leg, permit>>
      /\ nonce'[j] = Len(sent) /\ \A k \in Jobs \ {j} : pc'[k] = pc[k] /\ nonce'[k] = nonce[k]
      /\ IF Sending = {} THEN UNCHANGED risks ELSE AtRisk(Sending \cup {j}, "nonce")
  BY DEF ReadNonce, SwapTypes, JobTypes
<1>2. /\ risks' \in [Jobs -> SUBSET Risks]
      /\ \A k \in Jobs : risks[k] \subseteq risks'[k]
      /\ Sending = {} \/ \A k \in Sending \cup {j} : "nonce" \in risks'[k]
  <2>1. Sending \cup {j} \in SUBSET Jobs /\ "nonce" \in Risks
    BY DEF Sending, Risks
  <2>2. QED
    BY <1>1, <2>1, RisksGrow DEF ClashInv
<1>3. NonceFits'
  <2>1. Sending' = Sending \cup {j}
    BY <1>1 DEF Sending
  <2>2. ASSUME NEW k \in Sending', "nonce" \notin risks'[k]
        PROVE  nonce'[k] = Len(sent') /\ \A l \in Sending' : l = k
    BY <1>1, <1>2, <2>1, <2>2 DEF chain
  <2>3. QED
    BY <2>2 DEF NonceFits
<1>4. PermitFits'
  <2>1. {j} \in SUBSET Jobs
    OBVIOUS
  <2>2. QED
    BY <1>1, <1>2, <2>1, PermitStays DEF ClashInv
<1>5. QED
  BY <1>1, <1>2, <1>3, <1>4 DEF ClashInv, ClashesAreExplained

(* The transaction of a job takes its place among those that wait.         *)
LEMMA SubmitFits ==
  ASSUME SwapTypes, ClashInv, NEW j \in Jobs, pc[j] = "send",
         Submit(j), UNCHANGED <<mined, grant>>,
         \A k \in Jobs \ {j} : pc'[k] = pc[k] /\ leg'[k] = leg[k] /\ permit'[k] = permit[k]
                               /\ nonce'[k] = nonce[k] /\ risks'[k] = risks[k],
         pc'[j] \notin {"nonce", "send"}
  PROVE  NonceFits' /\ PermitFits'
<1> DEFINE u == TokenIn(j)
<1>0. PICK n \in Nat : n = Len(sent) + 1
  BY LenProperties DEF SwapTypes, ChainTypes
<1>1. /\ Len(sent) \in Nat /\ n = Len(sent) + 1 /\ Len(sent') = n /\ sent'[n] = Signed(j)
      /\ \A i \in 1..Len(sent) : sent'[i] = sent[i]
      /\ carried' = carried \cup ({n} \X (risks[j] \cap PermitRisks))
  BY <1>0, SentMore DEF Submit
<1>2. NonceFits'
  <2>1. Sending' = Sending \ {j} /\ j \in Sending
    BY DEF Sending
  <2>2. \A k \in Sending' : risks'[k] = risks[k]
    BY <2>1 DEF Sending
  <2>3. QED
    BY <2>1, <2>2 DEF ClashInv, NonceFits
<1>3. PermitFits'
  <2>1. SUFFICES ASSUME NEW t \in Tokens PROVE Fits(t)'
    BY DEF PermitFits
  <2>2. Fits(t) /\ Fits(u) /\ j \in Preparing(u) /\ u \in Tokens
    BY TokenInTypes DEF ClashInv, PermitFits, Preparing
  <2>3. \A k \in Preparing(t)' : k \in Preparing(t) /\ permit'[k] = permit[k] /\ k # j /\ risks'[k] = risks[k]
    BY DEF Preparing, TokenIn
  <2>4. \A i : i \in (mined + 1)..n <=> i \in (mined + 1)..Len(sent) \/ i = n
    BY <1>1 DEF SwapTypes, ChainTypes
  <2>5. \A i \in (mined + 1)..Len(sent) : sent'[i] = sent[i] /\ i < n
    BY <1>1 DEF SwapTypes, ChainTypes
  <2>6. Pending(t)' = IF t = u THEN Pending(t) \cup {n} ELSE Pending(t)
    <3>1. \A i : i \in Pending(t)' <=> i \in (mined + 1)..n /\ sent'[i].in = t
      BY <1>1 DEF Pending
    <3>2. sent'[n].in = u
      BY <1>1, SignedPermit
    <3>3. n \in (mined + 1)..n
      BY <1>1 DEF SwapTypes, ChainTypes
    <3>4. \A i : i \in Pending(t)' <=> i \in Pending(t) \/ (i = n /\ t = u)
      BY <2>4, <2>5, <3>1, <3>2, <3>3 DEF Pending
    <3>5. QED
      BY <3>4
  <2>7. /\ \A i \in Pending(t) : RisksOf(i) \subseteq RisksOf(i)'
        /\ \A r \in risks[j] \cap PermitRisks : r \in RisksOf(n)'
        /\ n \in Nat /\ sent'[n] = Signed(j)
    <3>1. \A r \in risks[j] \cap PermitRisks : r \in PermitRisks /\ <<n, r>> \in carried'
      BY <1>1
    <3>2. carried \subseteq carried'
      BY <1>1
    <3>3. QED
      BY <1>1, <3>1, <3>2 DEF RisksOf
  <2>8. CASE t # u
    <3>1. /\ \A i \in Pending(t)' : sent'[i].permit = sent[i].permit /\ RisksOf(i) \subseteq RisksOf(i)'
          /\ Pending(t)' \subseteq Pending(t) /\ Preparing(t)' \subseteq Preparing(t)
      BY <2>3, <2>5, <2>6, <2>7, <2>8 DEF Pending
    <3>2. QED
      BY <2>2, <2>3, <3>1, FitsShrinks
  <2>9. CASE t = u
    <3>1. Pending(t)' = Pending(u) \cup {n} /\ \A i \in Pending(u) : i <= n
      <4>1. \A i \in (mined + 1)..Len(sent) : i < n /\ i \in Int
        BY <2>5
      <4>2. \A i \in (mined + 1)..Len(sent) : i <= n
        BY <2>7, <4>1
      <4>3. QED
        BY <2>6, <2>9, <4>2 DEF Pending
    <3>2. ASSUME NEW k \in Preparing(t)', risks'[k] \cap PermitRisks = {}
          PROVE  FALSE
      BY <2>2, <2>3, <2>9, <3>2 DEF Fits, PreparedFits
    <3>3. ASSUME NEW i \in Pending(u), RisksOf(i)' = {}
          PROVE  (\A h \in Pending(t)' : i <= h) /\ ~Stale(sent[i], grant[t])'
      <4>1. RisksOf(i) = {}
        BY <2>7, <2>9, <3>3
      <4>2. (\A h \in Pending(u) : i <= h) /\ ~Stale(sent[i], grant[u])
        BY <2>2, <4>1 DEF Fits, SentFits
      <4>3. sent'[i] = sent[i] /\ grant' = grant
        BY <2>5 DEF Pending
      <4>4. \A h \in Pending(t)' : i <= h
        BY <3>1, <4>2
      <4>5. QED
        BY <2>9, <4>2, <4>3, <4>4
    <3>4. ASSUME RisksOf(n)' = {}
          PROVE  (\A h \in Pending(t)' : n <= h) /\ ~Stale(sent[n], grant[t])'
      <4>1. Pending(u) = {} /\ ~Stale(Signed(j), grant[u])
        BY <2>2, <2>7, <3>4 DEF Fits, PreparedFits
      <4>2. Pending(t)' = {n}
        BY <3>1, <4>1
      <4>3. n <= n
        BY <2>7
      <4>4. QED
        BY <2>7, <2>9, <4>1, <4>2, <4>3
    <3>5. QED
      BY <3>1, <3>2, <3>3, <3>4 DEF Fits, PreparedFits, SentFits
  <2>10. QED
    BY <2>8, <2>9
<1>4. QED
  BY <1>2, <1>3

LEMMA SendFits == ASSUME SwapTypes, ClashInv, NEW j \in Jobs, Send(j) PROVE ClashInv'
<1>1. CASE nonce[j] = Len(sent)
  <2>1. /\ pc[j] = "send" /\ Submit(j) /\ UNCHANGED <<mined, grant, clash>>
        /\ pc'[j] = "poll"
        /\ \A k \in Jobs \ {j} : pc'[k] = pc[k] /\ leg'[k] = leg[k] /\ permit'[k] = permit[k]
                                 /\ nonce'[k] = nonce[k] /\ risks'[k] = risks[k]
        /\ risks' \in [Jobs -> SUBSET Risks]
    BY <1>1 DEF Send, SwapTypes, JobTypes, ClashInv
  <2>2. NonceFits' /\ PermitFits'
    BY <2>1, SubmitFits
  <2>3. QED
    BY <2>1, <2>2 DEF ClashInv, ClashesAreExplained
<1>2. CASE nonce[j] # Len(sent)
  <2>1. /\ pc[j] = "send" /\ EndLeg(j, TRUE) /\ UNCHANGED <<chain, carried>>
        /\ clash' = clash \cup {[over |-> "nonce", risks |-> risks[j]]}
    BY <1>2 DEF Send, chain
  <2>2. "nonce" \in risks[j]
    BY <1>2, <2>1 DEF ClashInv, NonceFits, Sending
  <2>3. NonceFits' /\ PermitFits' /\ risks' \in [Jobs -> SUBSET Risks]
    BY <2>1, LegEndFits
  <2>4. ClashesAreExplained'
    BY <2>1, <2>2 DEF ClashInv, ClashesAreExplained
  <2>5. QED
    BY <2>3, <2>4 DEF ClashInv
<1>3. QED
  BY <1>1, <1>2

LEMMA SwapFailsFits == ASSUME SwapTypes, ClashInv, NEW j \in Jobs, SwapFails(j) PROVE ClashInv'
<1>1. EndLeg(j, TRUE) /\ pc[j] # "idle" /\ UNCHANGED <<mined, grant, clash>>
  BY DEF SwapFails
<1>2. NonceFits' /\ PermitFits' /\ risks' \in [Jobs -> SUBSET Risks]
  <2>1. CASE UNCHANGED <<sent, carried>>
    BY <1>1, <2>1, LegEndFits DEF chain
  <2>2. CASE pc[j] = "send" /\ Submit(j)
    <3>1. /\ OthersStay(j) /\ pc'[j] \in {"grant", "idle"}
          /\ risks' \in [Jobs -> SUBSET Risks] /\ \A k \in Jobs \ {j} : risks'[k] = risks[k]
      BY <1>1, LegEnds, LegEndRisks
    <3>2. QED
      BY <1>1, <2>2, <3>1, SubmitFits DEF OthersStay
  <2>3. QED
    BY <2>1, <2>2 DEF SwapFails
<1>3. QED
  BY <1>1, <1>2 DEF ClashInv, ClashesAreExplained

LEMMA PollFits ==
  ASSUME SwapTypes, ClashInv, NEW j \in Jobs, Receipt(j) \/ NotFound(j)
  PROVE  ClashInv'
<1>1. UNCHANGED <<chain, carried, clash>> /\ pc[j] # "idle"
  BY DEF Receipt, NotFound
<1>2. \/ \E b \in BOOLEAN : EndLeg(j, b)
      \/ UNCHANGED <<pc, leg, permit, nonce, tx, risks, told>>
  BY DEF Receipt, NotFound
<1>3. NonceFits' /\ PermitFits' /\ risks' \in [Jobs -> SUBSET Risks]
  <2>1. CASE UNCHANGED <<pc, leg, permit, nonce, tx, risks, told>>
    <3>1. NonceFits'
      BY <1>1, <2>1 DEF ClashInv, NonceFits, Sending, chain
    <3>2. PermitFits'
      BY <1>1, <2>1, PermitRests DEF ClashInv
    <3>3. QED
      BY <2>1, <3>1, <3>2 DEF ClashInv
  <2>2. QED
    BY <1>1, <1>2, <2>1, LegEndFits
<1>4. QED
  BY <1>1, <1>3 DEF ClashInv, ClashesAreExplained

LEMMA PollFailsFits == ASSUME SwapTypes, ClashInv, NEW j \in Jobs, PollFails(j) PROVE ClashInv'
<1>1. Lost(j) \in SUBSET Jobs
  BY PollFailsLoses DEF Running
<1>2. /\ UNCHANGED <<chain, carried, clash>>
      /\ \A k \in Jobs \ Lost(j) : pc'[k] = pc[k] /\ leg'[k] = leg[k] /\ permit'[k] = permit[k]
                                   /\ nonce'[k] = nonce[k] /\ risks'[k] = risks[k]
      /\ \A k \in Lost(j) : pc'[k] = "idle"
  BY PollFailsLoses
<1>3. risks' \in [Jobs -> SUBSET Risks]
  BY DEF PollFails, ClashInv
<1>4. NonceFits'
  BY <1>1, <1>2, NonceStays DEF ClashInv, chain
<1>5. \A k \in Jobs : pc'[k] \in {"nonce", "send"} => risks[k] \subseteq risks'[k]
  BY <1>2
<1>6. PermitFits'
  BY <1>1, <1>2, <1>5, PermitStays DEF ClashInv
<1>7. QED
  BY <1>2, <1>3, <1>4, <1>6 DEF ClashInv, ClashesAreExplained

LEMMA MineFits == ASSUME SwapTypes, ClashInv, Mine PROVE ClashInv'
<1>0. PICK t \in Txs, g \in Grants : t = sent[mined + 1] /\ g = grant[t.in]
  BY MineFacts
<1>1. /\ t.in \in Tokens /\ Len(sent) \in Nat /\ mined \in Nat
      /\ mined + 1 \in 1..Len(sent) /\ mined' = mined + 1 /\ Len(sent') = Len(sent)
      /\ \A i \in 1..Len(sent) : i # mined + 1 => sent'[i] = sent[i]
      /\ UNCHANGED <<job, risks>>
      /\ \A i \in 1..Len(sent) : i # mined + 1 => RisksOf(i)' = RisksOf(i)
  <2>1. /\ UNCHANGED <<job, risks>>
        /\ \A i \in 1..Len(sent) : i # mined + 1 => RisksOf(i)' = RisksOf(i)
    BY DEF Mine, RisksOf
  <2>2. QED
    BY <1>0, <2>1, MineFacts, LenProperties DEF SwapTypes, ChainTypes, Txs
<1>2. \A u \in Tokens : Pending(u)' = Pending(u) \ {mined + 1} /\ Preparing(u)' = Preparing(u)
  <2>1. SUFFICES ASSUME NEW u \in Tokens
                 PROVE  Pending(u)' = Pending(u) \ {mined + 1} /\ Preparing(u)' = Preparing(u)
    OBVIOUS
  <2>2. \A i : i \in (mined + 1 + 1)..Len(sent) <=> i \in (mined + 1)..Len(sent) /\ i # mined + 1
    BY <1>1
  <2>3. \A i \in (mined + 1 + 1)..Len(sent) : sent'[i] = sent[i]
    BY <1>1
  <2>4. Pending(u)' = Pending(u) \ {mined + 1}
    BY <1>1, <2>2, <2>3 DEF Pending
  <2>5. QED
    BY <1>1, <2>4 DEF Preparing, TokenIn, job
<1>3. mined + 1 \in Pending(t.in) /\ \A u \in Tokens : \A h \in Pending(u)' : h > mined + 1
  <2>1. mined + 1 \in Pending(t.in)
    BY <1>0, <1>1 DEF Pending
  <2>2. QED
    BY <1>1, <1>2, <2>1 DEF Pending
<1>4. Stale(t, g) => RisksOf(mined + 1) # {}
  BY <1>0, <1>1, <1>3 DEF ClashInv, PermitFits, Fits, SentFits
<1>5. \A u \in Tokens : u # t.in => grant'[u] = grant[u]
  BY <1>0, <1>1 DEF Mine, SwapTypes, ChainTypes
<1>6. PermitFits'
  <2>1. SUFFICES ASSUME NEW u \in Tokens PROVE Fits(u)'
    BY DEF PermitFits
  <2>2. Fits(u)
    BY DEF ClashInv, PermitFits
  <2>3. CASE u = t.in
    <3>1. ASSUME NEW j \in Preparing(u)', risks'[j] \cap PermitRisks = {}
          PROVE  FALSE
      BY <1>1, <1>2, <1>3, <2>2, <2>3, <3>1 DEF Fits, PreparedFits
    <3>2. ASSUME NEW i \in Pending(u)', RisksOf(i)' = {}
          PROVE  FALSE
      <4>1. i \in Pending(u) /\ i > mined + 1 /\ RisksOf(i) = {}
        BY <1>1, <1>2, <1>3, <3>2 DEF Pending
      <4>2. i <= mined + 1 /\ i \in Int
        BY <1>1, <1>3, <2>2, <2>3, <4>1 DEF Fits, SentFits, Pending
      <4>3. QED
        BY <1>1, <4>1, <4>2
    <3>3. QED
      BY <3>1, <3>2 DEF Fits, PreparedFits, SentFits
  <2>4. CASE u # t.in
    <3>1. grant'[u] = grant[u]
      BY <1>5, <2>4
    <3>2. \A i \in Pending(u)' : sent'[i] = sent[i] /\ RisksOf(i)' = RisksOf(i)
      BY <1>1, <1>2 DEF Pending
    <3>3. permit' = permit /\ Pending(u)' \subseteq Pending(u) /\ Preparing(u)' = Preparing(u)
      BY <1>1, <1>2 DEF job
    <3>4. QED
      BY <1>1, <2>2, <3>1, <3>2, <3>3, FitsShrinks
  <2>5. QED
    BY <2>3, <2>4
<1>7. NonceFits'
  BY <1>1 DEF ClashInv, NonceFits, Sending, job
<1>8. ClashesAreExplained'
  <2>1. CASE UNCHANGED clash
    BY <2>1 DEF ClashInv, ClashesAreExplained
  <2>2. CASE Stale(t, g) /\ clash' = clash \cup {[over |-> "permit", risks |-> RisksOf(mined + 1)]}
    BY <1>4, <2>2 DEF ClashInv, ClashesAreExplained
  <2>3. QED
    BY <1>0, <2>1, <2>2 DEF Mine
<1>9. QED
  BY <1>1, <1>6, <1>7, <1>8 DEF ClashInv

LEMMA ExpireFits == ASSUME SwapTypes, ClashInv, NEW u \in Tokens, Expire(u) PROVE ClashInv'
<1>1. /\ UNCHANGED <<job, sent, mined, clash>> /\ \A t \in Tokens : t # u => grant'[t] = grant[t]
      /\ AtRisk(Preparing(u), "lapse") /\ carried' = carried \cup (Pending(u) \X {"lapse"})
  BY DEF Expire, SwapTypes, ChainTypes
<1>2. /\ \A t \in Tokens : Pending(t)' = Pending(t) /\ Preparing(t)' = Preparing(t)
      /\ Sending' = Sending
  BY <1>1 DEF Pending, Preparing, Sending, TokenIn, job
<1>3. /\ risks' \in [Jobs -> SUBSET Risks]
      /\ \A k \in Jobs : risks[k] \subseteq risks'[k]
      /\ \A k \in Preparing(u) : "lapse" \in risks'[k]
  <2>1. Preparing(u) \in SUBSET Jobs /\ "lapse" \in Risks
    BY DEF Preparing, Risks, PermitRisks
  <2>2. QED
    BY <1>1, <2>1, RisksGrow
<1>4. /\ \A i : RisksOf(i) \subseteq RisksOf(i)'
      /\ \A i \in Pending(u) : "lapse" \in RisksOf(i)'
  BY <1>1 DEF RisksOf, PermitRisks
<1>5. PermitFits'
  <2>1. SUFFICES ASSUME NEW t \in Tokens PROVE Fits(t)'
    BY DEF PermitFits
  <2>2. Fits(t)
    BY DEF ClashInv, PermitFits
  <2>3. CASE t = u
    <3>1. \A j \in Preparing(t)' : risks'[j] \cap PermitRisks # {}
      BY <1>2, <1>3, <2>3 DEF PermitRisks
    <3>2. \A i \in Pending(t)' : RisksOf(i)' # {}
      BY <1>2, <1>4, <2>3
    <3>3. QED
      BY <3>1, <3>2 DEF Fits, PreparedFits, SentFits
  <2>4. CASE t # u
    <3>1. /\ grant'[t] = grant[t] /\ sent' = sent /\ permit' = permit
          /\ \A j \in Preparing(t)' : j \in Jobs
      BY <1>1, <2>4 DEF job, Preparing
    <3>2. QED
      BY <1>2, <1>3, <1>4, <2>2, <3>1, FitsShrinks
  <2>5. QED
    BY <2>3, <2>4
<1>6. NonceFits'
  BY <1>1, <1>2, <1>3 DEF ClashInv, NonceFits, Sending, job
<1>7. QED
  BY <1>1, <1>3, <1>5, <1>6 DEF ClashInv, ClashesAreExplained

LEMMA ClashKept == ASSUME SwapTypes, ClashInv, [Next]_vars PROVE ClashInv'
<1>1. CASE UNCHANGED vars
  <2>1. UNCHANGED <<job, chain, risks, carried, clash>>
    BY <1>1 DEF vars, ghosts
  <2>2. PermitFits'
    BY <2>1, PermitRests DEF ClashInv, job
  <2>3. QED
    BY <2>1, <2>2 DEF ClashInv, ClashesAreExplained, NonceFits, Sending, job, chain
<1>2. ASSUME NEW j \in Jobs, Launch(j) \/ Step(j) \/ SwapFails(j) \/ PollFails(j)
      PROVE  ClashInv'
  BY <1>2, LaunchFits, ReadGrantFits, ReadNonceFits, SendFits, SwapFailsFits, PollFits, PollFailsFits DEF Step
<1>3. CASE Mine \/ \E t \in Tokens : Expire(t)
  BY <1>3, MineFits, ExpireFits
<1>4. QED
  BY <1>1, <1>2, <1>3 DEF Next, Done

(* Whatever befell earlier swaps: a transaction is refused for its nonce   *)
(* only if another one read the nonce between its reading and its sending, *)
(* and reverts over its permit only if another swap of its token was under *)
(* way while it was prepared, or the permission ended between its reading  *)
(* and its block.  Swap reads both before it sends, and nothing orders the *)
(* runs (runAvalancheSwap10TxEvent).                                       *)
THEOREM ClashesExplained == Spec => []ClashesAreExplained
<1>1. Init => ClashInv
  BY ClashInitially
<1>2. SwapTypes /\ ClashInv /\ [Next]_vars => ClashInv'
  BY ClashKept
<1>3. QED
  BY <1>1, <1>2, SwapTypesAlways, PTL DEF Spec, ClashInv

(***************************************************************************)
(* Swaps: drift                                                            *)
(***************************************************************************)

(* Swaps that are done or still may be, and those done or waited for.      *)
May(t) == {i \in 1..Len(sent) : sent[i].in = t /\ sent[i].res # "reverted"}
Awaited(i) == \E j \in Jobs : pc[j] = "poll" /\ tx[j] = i
CountedOn(t) == {i \in 1..Len(sent) : sent[i].in = t /\ (sent[i].res = "ok" \/ Awaited(i))}

(* Runs that have swapped to and not back, as far as they can tell.        *)
Fro == {j \in Running : (leg[j] % 2 = 1) = (pc[j] = "poll")}

(* A swap to is balanced by one back, by a run that will do it, or by a    *)
(* failure told; a swap back, with the runs that will do one, by a swap to.*)
DriftInv ==
  /\ Cardinality(May("usdt")) <= told + Cardinality(Fro) + Cardinality(CountedOn("usdc"))
  /\ Cardinality(May("usdc")) + Cardinality(Fro) <= told + Cardinality(CountedOn("usdt"))

SumsFinite ==
  /\ \A t : /\ IsFiniteSet(May(t)) /\ Cardinality(May(t)) \in Nat
           /\ IsFiniteSet(CountedOn(t)) /\ Cardinality(CountedOn(t)) \in Nat
  /\ IsFiniteSet(Fro) /\ Cardinality(Fro) \in Nat /\ told \in Nat

LEMMA SumsAreFinite == SwapTypes => SumsFinite
<1> SUFFICES ASSUME SwapTypes PROVE SumsFinite
  OBVIOUS
<1>1. IsFiniteSet(1..Len(sent))
  <2>1. 1 \in Int /\ Len(sent) \in Int
    BY LenProperties DEF SwapTypes, ChainTypes
  <2>2. QED
    BY <2>1, FS_Interval
<1>2. ASSUME NEW t PROVE IsFiniteSet(May(t)) /\ IsFiniteSet(CountedOn(t))
  <2>1. May(t) \in SUBSET (1..Len(sent)) /\ CountedOn(t) \in SUBSET (1..Len(sent))
    BY DEF May, CountedOn
  <2>2. QED
    BY <1>1, <2>1, FS_Subset
<1>3. IsFiniteSet(Fro) /\ told \in Nat
  <2>1. Fro \in SUBSET Running
    BY DEF Fro
  <2>2. QED
    BY <2>1, FS_Subset DEF SwapTypes, JobTypes
<1>4. QED
  BY <1>2, <1>3, FS_CardinalityType DEF SumsFinite

LEMMA SumsStayFinite == SwapTypes' => SumsFinite'
  BY SumsAreFinite, PTL

LEMMA OneMore ==
  ASSUME NEW S, IsFiniteSet(S), NEW x
  PROVE  /\ \A T : T \subseteq S \cup {x} =>
              IsFiniteSet(T) /\ Cardinality(T) \in Nat /\ Cardinality(T) <= Cardinality(S) + 1
         /\ x \notin S => Cardinality(S \cup {x}) = Cardinality(S) + 1
         /\ x \in S => Cardinality(S \ {x}) = Cardinality(S) - 1
<1>1. IsFiniteSet(S \cup {x}) /\ Cardinality(S \cup {x}) <= Cardinality(S) + 1
  <2>1. Cardinality(S) \in Nat
    BY FS_CardinalityType
  <2>2. /\ IsFiniteSet(S \cup {x})
        /\ Cardinality(S \cup {x}) = IF x \in S THEN Cardinality(S) ELSE Cardinality(S) + 1
    BY FS_AddElement
  <2>3. QED
    BY <2>1, <2>2
<1>2. ASSUME NEW T, T \subseteq S \cup {x}
      PROVE  IsFiniteSet(T) /\ Cardinality(T) \in Nat /\ Cardinality(T) <= Cardinality(S) + 1
  <2>1. IsFiniteSet(T) /\ Cardinality(T) <= Cardinality(S \cup {x})
    BY <1>1, <1>2, FS_Subset
  <2>2. QED
    BY <1>1, <2>1, FS_CardinalityType
<1>3. QED
  BY <1>2, FS_AddElement, FS_RemoveElement

(* A run changes sides with each swap it begins or sends.                  *)
LEMMA FroTurns ==
  ASSUME SwapTypes, NEW j \in Jobs, NEW b \in BOOLEAN, EndLeg(j, b), pc[j] # "idle"
  PROVE  /\ pc[j] = "poll" => Fro' = Fro
         /\ pc[j] # "poll" /\ TokenIn(j) = "usdt" => j \notin Fro /\ Fro' = Fro \cup {j}
         /\ pc[j] # "poll" /\ TokenIn(j) = "usdc" => j \in Fro /\ Fro' = Fro \ {j}
<1>1. OthersStay(j) /\ leg[j] \in 0..Legs
  BY LegEnds DEF SwapTypes, JobTypes
<1>2. \A k \in Jobs \ {j} : k \in Fro' <=> k \in Fro
  BY <1>1 DEF OthersStay, Fro, Running
<1>3. j \in Fro' <=> leg[j] % 2 = 1
  <2>1. CASE leg[j] % 2 = 1
    <3>1. pc'[j] = "grant" /\ leg'[j] = leg[j] + 1
      BY <1>1, <2>1, LegEnds, OddGoesOn, SwapConstants
    <3>2. (leg[j] + 1) % 2 # 1
      BY <1>1, <2>1, SwapConstants
    <3>3. QED
      BY <2>1, <3>1, <3>2 DEF Fro, Running
  <2>2. CASE leg[j] % 2 # 1
    <3>1. (leg[j] + 1) % 2 = 1
      BY <1>1, <2>2, SwapConstants
    <3>2. /\ pc'[j] = IF leg[j] < Legs THEN "grant" ELSE "idle"
          /\ leg'[j] = IF leg[j] < Legs THEN leg[j] + 1 ELSE 0
      BY LegEnds
    <3>3. QED
      BY <2>2, <3>1, <3>2 DEF Fro, Running
  <2>3. QED
    BY <2>1, <2>2
<1>4. j \in Fro <=> (leg[j] % 2 = 1) = (pc[j] = "poll")
  BY DEF Fro, Running
<1>5. Fro \subseteq Jobs /\ Fro' \subseteq Jobs
  BY DEF Fro, Running
<1>6. TokenIn(j) = IF leg[j] % 2 = 1 THEN "usdt" ELSE "usdc"
  BY DEF TokenIn
<1>7. QED
  BY <1>2, <1>3, <1>4, <1>5, <1>6

(* Runs that stop waiting take no more with them than they waited for.     *)
LEMMA CountedStay ==
  ASSUME SwapTypes, ChainTypes', SentStays, NEW t,
         \A i \in 1..Len(sent) : sent[i].res = "ok" => sent'[i].res = "ok",
         \A k \in Jobs : pc[k] = "poll" =>
           \/ pc'[k] = "poll" /\ tx'[k] = tx[k]
           \/ tx[k] \in CountedOn(t) => sent'[tx[k]].res = "ok"
  PROVE  CountedOn(t) \subseteq CountedOn(t)'
<1>1. Len(sent) \in Nat /\ Len(sent') \in Nat
  BY LenProperties DEF SwapTypes, ChainTypes
<1>2. ASSUME NEW i \in CountedOn(t) PROVE i \in CountedOn(t)'
  <2>1. i \in 1..Len(sent) /\ i \in 1..Len(sent') /\ sent'[i].in = t
    BY <1>1 DEF CountedOn, SentStays
  <2>2. sent'[i].res = "ok" \/ Awaited(i)'
    BY <2>1 DEF CountedOn, Awaited
  <2>3. QED
    BY <2>1, <2>2 DEF CountedOn
<1>3. QED
  BY <1>2

(* Nothing is sent or told, and no run begins or ends a swap.              *)
LEMMA DriftRests ==
  ASSUME SwapTypes, ChainTypes', SentStays, DriftInv, Len(sent') = Len(sent), told' = told, Fro' = Fro,
         \A i \in 1..Len(sent) :
           /\ sent[i].res = "ok" => sent'[i].res = "ok"
           /\ sent[i].res = "reverted" => sent'[i].res = "reverted",
         \A k \in Jobs : pc[k] = "poll" =>
           \/ pc'[k] = "poll" /\ tx'[k] = tx[k]
           \/ sent'[tx[k]].res = "ok",
         SwapTypes'
  PROVE  DriftInv'
<1>1. ASSUME NEW t
      PROVE  /\ Cardinality(May(t)') <= Cardinality(May(t))
             /\ Cardinality(CountedOn(t)) <= Cardinality(CountedOn(t)')
  <2>1. May(t)' \subseteq May(t)
    BY DEF May, SentStays
  <2>2. CountedOn(t) \subseteq CountedOn(t)'
    BY CountedStay
  <2>3. IsFiniteSet(May(t)) /\ IsFiniteSet(CountedOn(t)')
    BY SumsAreFinite, SumsStayFinite DEF SumsFinite
  <2>4. QED
    BY <2>1, <2>2, <2>3, FS_Subset
<1>2. \A t : /\ Cardinality(May(t)) \in Nat /\ Cardinality(May(t)') \in Nat
             /\ Cardinality(CountedOn(t)) \in Nat /\ Cardinality(CountedOn(t)') \in Nat
  BY SumsAreFinite, SumsStayFinite DEF SumsFinite
<1>3. QED
  BY <1>1, <1>2, SumsAreFinite, SumsStayFinite, SMTT(40) DEF DriftInv, SumsFinite

(* A transaction is sent, and the run waits for it or not.                 *)
LEMMA SendSums ==
  ASSUME SwapTypes, NEW j \in Jobs, pc[j] # "poll", OthersStay(j),
         sent' = Append(sent, Signed(j)), UNCHANGED <<mined, grant>>, NEW t \in Tokens
  PROVE  /\ Len(sent) + 1 \notin May(t)
         /\ May(t)' = IF t = TokenIn(j) THEN May(t) \cup {Len(sent) + 1} ELSE May(t)
         /\ CountedOn(t) \subseteq CountedOn(t)'
         /\ Len(sent) + 1 \notin CountedOn(t)
         /\ t = TokenIn(j) /\ pc'[j] = "poll" /\ tx'[j] = Len(sent) + 1
              => Len(sent) + 1 \in CountedOn(t)'
<1>1. /\ ChainTypes' /\ SentStays /\ Len(sent) \in Nat /\ Len(sent') = Len(sent) + 1
      /\ sent'[Len(sent) + 1] = Signed(j) /\ \A i \in 1..Len(sent) : sent'[i] = sent[i]
  BY SentMore
<1>2. Signed(j).in = TokenIn(j) /\ Signed(j).res = "pending"
  BY DEF Signed
<1>3. Len(sent) + 1 \notin May(t) /\ Len(sent) + 1 \notin CountedOn(t)
  BY <1>1 DEF May, CountedOn
<1>4. \A i : i \in 1..Len(sent') <=> i \in 1..Len(sent) \/ i = Len(sent) + 1
  BY <1>1
<1>5. \A i : i \in May(t)' <=> i \in May(t) \/ (i = Len(sent) + 1 /\ t = TokenIn(j))
  BY <1>1, <1>2, <1>4 DEF May
<1>6. CountedOn(t) \subseteq CountedOn(t)'
  <2>1. \A k \in Jobs : pc[k] = "poll" => pc'[k] = "poll" /\ tx'[k] = tx[k]
    BY DEF OthersStay
  <2>2. QED
    BY <1>1, <2>1, CountedStay
<1>7. t = TokenIn(j) /\ pc'[j] = "poll" /\ tx'[j] = Len(sent) + 1 => Len(sent) + 1 \in CountedOn(t)'
  BY <1>1, <1>2, <1>4 DEF CountedOn, Awaited
<1>8. QED
  BY <1>3, <1>5, <1>6, <1>7

LEMMA SumsSent ==
  ASSUME SwapTypes, SwapTypes', NEW j \in Jobs, pc[j] # "poll", OthersStay(j),
         sent' = Append(sent, Signed(j)), UNCHANGED <<mined, grant>>, NEW t \in Tokens
  PROVE  /\ Cardinality(May(t)') = IF t = TokenIn(j) THEN Cardinality(May(t)) + 1 ELSE Cardinality(May(t))
         /\ Cardinality(CountedOn(t)) <= Cardinality(CountedOn(t)')
         /\ t = TokenIn(j) /\ pc'[j] = "poll" /\ tx'[j] = Len(sent) + 1
              => Cardinality(CountedOn(t)) + 1 <= Cardinality(CountedOn(t)')
<1>1. IsFiniteSet(May(t)) /\ IsFiniteSet(CountedOn(t)) /\ IsFiniteSet(CountedOn(t)')
  BY SumsAreFinite, SumsStayFinite DEF SumsFinite
<1>2. Cardinality(May(t)') = IF t = TokenIn(j) THEN Cardinality(May(t)) + 1 ELSE Cardinality(May(t))
  BY <1>1, SendSums, OneMore
<1>3. Cardinality(CountedOn(t)) <= Cardinality(CountedOn(t)')
  BY <1>1, SendSums, FS_Subset
<1>4. ASSUME t = TokenIn(j), pc'[j] = "poll", tx'[j] = Len(sent) + 1
      PROVE  Cardinality(CountedOn(t)) + 1 <= Cardinality(CountedOn(t)')
  <2>1. CountedOn(t) \cup {Len(sent) + 1} \subseteq CountedOn(t)' /\ Len(sent) + 1 \notin CountedOn(t)
    BY <1>4, SendSums
  <2>2. Cardinality(CountedOn(t) \cup {Len(sent) + 1}) = Cardinality(CountedOn(t)) + 1
    BY <1>1, <2>1, OneMore
  <2>3. QED
    BY <1>1, <2>1, <2>2, FS_Subset
<1>5. QED
  BY <1>2, <1>3, <1>4

LEMMA SumsOfFro ==
  ASSUME SwapTypes, NEW j \in Jobs
  PROVE  /\ j \notin Fro => Cardinality(Fro \cup {j}) = Cardinality(Fro) + 1
         /\ j \in Fro => Cardinality(Fro \ {j}) = Cardinality(Fro) - 1
  BY SumsAreFinite, SumsStayFinite, OneMore DEF SumsFinite

(* What a swap of one token does to the sums, told or not.                 *)
LEMMA Balance ==
  ASSUME SumsFinite, SumsFinite', DriftInv, NEW u \in Tokens, NEW n \in {0, 1}, NEW c \in {0, 1},
         n + c >= 1, told' = told + n,
         \A t \in Tokens : /\ Cardinality(May(t)')
                               <= IF t = u THEN Cardinality(May(t)) + 1 ELSE Cardinality(May(t))
                          /\ Cardinality(CountedOn(t)')
                               >= IF t = u THEN Cardinality(CountedOn(t)) + c ELSE Cardinality(CountedOn(t)),
         Cardinality(Fro') = IF u = "usdt" THEN Cardinality(Fro) + 1 ELSE Cardinality(Fro) - 1
  PROVE  DriftInv'
<1>1. "usdt" \in Tokens /\ "usdc" \in Tokens /\ "usdt" # "usdc" /\ (u = "usdt" \/ u = "usdc")
  BY DEF Tokens
<1>2. /\ \A t \in Tokens : /\ Cardinality(May(t)) \in Nat /\ Cardinality(May(t)') \in Nat
                           /\ Cardinality(CountedOn(t)) \in Nat /\ Cardinality(CountedOn(t)') \in Nat
      /\ Cardinality(Fro) \in Nat /\ Cardinality(Fro') \in Nat /\ told \in Nat
  BY DEF SumsFinite
<1>3. CASE u = "usdt"
  <2>1. /\ Cardinality(May("usdt")') <= Cardinality(May("usdt")) + 1
        /\ Cardinality(May("usdc")') <= Cardinality(May("usdc"))
        /\ Cardinality(CountedOn("usdt")') >= Cardinality(CountedOn("usdt")) + c
        /\ Cardinality(CountedOn("usdc")') >= Cardinality(CountedOn("usdc"))
        /\ Cardinality(Fro') = Cardinality(Fro) + 1
    BY <1>1, <1>3
  <2>2. QED
    BY <1>1, <1>2, <2>1 DEF DriftInv
<1>4. CASE u = "usdc"
  <2>1. /\ Cardinality(May("usdc")') <= Cardinality(May("usdc")) + 1
        /\ Cardinality(May("usdt")') <= Cardinality(May("usdt"))
        /\ Cardinality(CountedOn("usdc")') >= Cardinality(CountedOn("usdc")) + c
        /\ Cardinality(CountedOn("usdt")') >= Cardinality(CountedOn("usdt"))
        /\ Cardinality(Fro') = Cardinality(Fro) - 1
    BY <1>1, <1>4
  <2>2. QED
    BY <1>1, <1>2, <2>1 DEF DriftInv
<1>5. QED
  BY <1>1, <1>3, <1>4

(* A swap fails before its receipt, and its transaction may be on its way. *)
LEMMA GivenUpDrifts ==
  ASSUME SwapTypes, SwapTypes', DriftInv, NEW j \in Jobs, EndLeg(j, TRUE), pc[j] \notin {"idle", "poll"},
         UNCHANGED <<mined, grant>>, UNCHANGED sent \/ sent' = Append(sent, Signed(j))
  PROVE  DriftInv'
<1>1. OthersStay(j) /\ told' = told + 1
  BY LegEnds
<1>2. \A t \in Tokens :
        /\ Cardinality(May(t)')
             <= IF t = TokenIn(j) THEN Cardinality(May(t)) + 1 ELSE Cardinality(May(t))
        /\ Cardinality(CountedOn(t)') >= Cardinality(CountedOn(t))
  <2>1. CASE sent' = sent
    <3>1. \A t \in Tokens : May(t)' = May(t)
      BY <2>1 DEF May
    <3>2. \A t \in Tokens : CountedOn(t)' = CountedOn(t)
      <4>1. \A i : Awaited(i)' <=> Awaited(i)
        BY <1>1, LegEnds, ZenonT(60) DEF Awaited, OthersStay
      <4>2. QED
        BY <2>1, <4>1 DEF CountedOn
    <3>3. QED
      BY <3>1, <3>2, SumsAreFinite, SumsStayFinite DEF SumsFinite
  <2>2. CASE sent' = Append(sent, Signed(j))
    BY <1>1, <2>2, SumsSent, SumsAreFinite, SumsStayFinite DEF SumsFinite
  <2>3. QED
    BY <2>1, <2>2
<1>3. /\ TokenIn(j) = "usdt" => Cardinality(Fro') = Cardinality(Fro) + 1
      /\ TokenIn(j) = "usdc" => Cardinality(Fro') = Cardinality(Fro) - 1
  BY FroTurns, SumsOfFro
<1>4. TokenIn(j) = "usdt" \/ TokenIn(j) = "usdc"
  BY DEF TokenIn
<1>5. Cardinality(Fro') = IF TokenIn(j) = "usdt" THEN Cardinality(Fro) + 1 ELSE Cardinality(Fro) - 1
  BY <1>3, <1>4
<1>6. SumsFinite /\ SumsFinite' /\ TokenIn(j) \in Tokens
  BY SumsAreFinite, SumsStayFinite, TokenInTypes
<1>7. \A t \in Tokens :
        /\ Cardinality(May(t)')
             <= IF t = TokenIn(j) THEN Cardinality(May(t)) + 1 ELSE Cardinality(May(t))
        /\ Cardinality(CountedOn(t)')
             >= IF t = TokenIn(j) THEN Cardinality(CountedOn(t)) + 0 ELSE Cardinality(CountedOn(t))
  BY <1>2, <1>6 DEF SumsFinite
<1>8. QED
  BY <1>1, <1>5, <1>6, <1>7, Balance

LEMMA SendDrifts ==
  ASSUME SwapTypes, SwapTypes', DriftInv, NEW j \in Jobs, Send(j)
  PROVE  DriftInv'
<1>1. CASE nonce[j] = Len(sent)
  <2>1. /\ pc[j] = "send" /\ sent' = Append(sent, Signed(j)) /\ UNCHANGED <<mined, grant, told, leg>>
        /\ pc'[j] = "poll" /\ OthersStay(j) /\ tx'[j] = Len(sent') /\ Len(sent') = Len(sent) + 1
    BY <1>1, SentMore DEF Send, Submit, SwapTypes, JobTypes, OthersStay
  <2>2. \A t \in Tokens :
          /\ Cardinality(May(t)') = IF t = TokenIn(j) THEN Cardinality(May(t)) + 1 ELSE Cardinality(May(t))
          /\ Cardinality(CountedOn(t)')
               >= IF t = TokenIn(j) THEN Cardinality(CountedOn(t)) + 1 ELSE Cardinality(CountedOn(t))
    BY <2>1, SumsSent, SumsAreFinite, SumsStayFinite DEF SumsFinite
  <2>3. /\ TokenIn(j) = "usdt" => j \notin Fro /\ Fro' = Fro \cup {j}
        /\ TokenIn(j) = "usdc" => j \in Fro /\ Fro' = Fro \ {j}
    BY <2>1 DEF Fro, Running, TokenIn, OthersStay
  <2>4. /\ TokenIn(j) = "usdt" => Cardinality(Fro') = Cardinality(Fro) + 1
        /\ TokenIn(j) = "usdc" => Cardinality(Fro') = Cardinality(Fro) - 1
    BY <2>3, SumsOfFro
  <2>5. TokenIn(j) = "usdt" \/ TokenIn(j) = "usdc"
    BY DEF TokenIn
  <2>6. Cardinality(Fro') = IF TokenIn(j) = "usdt" THEN Cardinality(Fro) + 1 ELSE Cardinality(Fro) - 1
    BY <2>4, <2>5
  <2>7. SumsFinite /\ SumsFinite' /\ TokenIn(j) \in Tokens /\ told' = told + 0
    BY <2>1, SumsAreFinite, SumsStayFinite, TokenInTypes DEF SumsFinite
  <2>8. \A t \in Tokens :
          /\ Cardinality(May(t)')
               <= IF t = TokenIn(j) THEN Cardinality(May(t)) + 1 ELSE Cardinality(May(t))
          /\ Cardinality(CountedOn(t)')
               >= IF t = TokenIn(j) THEN Cardinality(CountedOn(t)) + 1 ELSE Cardinality(CountedOn(t))
    BY <2>2, <2>7 DEF SumsFinite
  <2>9. QED
    BY <2>6, <2>7, <2>8, Balance
<1>2. CASE nonce[j] # Len(sent)
  BY <1>2, GivenUpDrifts DEF Send
<1>3. QED
  BY <1>1, <1>2

LEMMA SwapFailsDrifts ==
  ASSUME SwapTypes, SwapTypes', DriftInv, NEW j \in Jobs, SwapFails(j)
  PROVE  DriftInv'
  BY GivenUpDrifts DEF SwapFails, Submit

(* The receipt tells how a swap has ended, or none is waited for longer.   *)
LEMMA PollDrifts ==
  ASSUME SwapTypes, SwapTypes', DriftInv, NEW j \in Jobs, Receipt(j) \/ NotFound(j)
  PROVE  DriftInv'
<1>1. pc[j] = "poll" /\ UNCHANGED chain /\ ChainTypes' /\ SentStays
  BY ChainUntouched DEF Receipt, NotFound
<1>2. CASE UNCHANGED <<pc, leg, tx, told>>
  <2>1. Fro' = Fro
    BY <1>2 DEF Fro, Running
  <2>2. QED
    BY <1>1, <1>2, <2>1, DriftRests DEF chain
<1>3. CASE EndLeg(j, FALSE) /\ sent[tx[j]].res = "ok"
  <2>1. Fro' = Fro /\ OthersStay(j) /\ told' = told
    BY <1>1, <1>3, FroTurns, LegEnds
  <2>2. QED
    BY <1>1, <1>3, <2>1, DriftRests DEF chain, OthersStay
<1>4. CASE EndLeg(j, TRUE)
  <2>1. Fro' = Fro /\ OthersStay(j) /\ told' = told + 1
    BY <1>1, <1>4, FroTurns, LegEnds
  <2>2. ASSUME NEW t
        PROVE  May(t)' = May(t) /\ Cardinality(CountedOn(t)) <= Cardinality(CountedOn(t)') + 1
    <3>1. May(t)' = May(t)
      BY <1>1 DEF May, chain
    <3>2. CountedOn(t) \subseteq CountedOn(t)' \cup {tx[j]}
      BY <1>1, <2>1 DEF CountedOn, Awaited, OthersStay, chain
    <3>3. QED
      BY <3>1, <3>2, SumsAreFinite, SumsStayFinite, OneMore DEF SumsFinite
  <2>3. QED
    BY <2>1, <2>2, SumsAreFinite, SumsStayFinite DEF DriftInv, SumsFinite
<1>5. QED
  BY <1>2, <1>3, <1>4 DEF Receipt, NotFound

LEMMA MineDrifts == ASSUME SwapTypes, SwapTypes', DriftInv, Mine PROVE DriftInv'
<1>1. ChainTypes' /\ UNCHANGED <<job, told>> /\ Len(sent') = Len(sent) /\ Len(sent) \in Nat
  BY MineFacts, LenProperties DEF SwapTypes, ChainTypes, Mine
<1>2. SentStays
  <2>1. \A i \in 1..Len(sent) : sent'[i].in = sent[i].in /\ sent'[i].permit = sent[i].permit
    BY MineFacts
  <2>2. QED
    BY <1>1, <2>1 DEF SentStays
<1>3. ASSUME NEW i \in 1..Len(sent)
      PROVE  /\ sent[i].res = "ok" => sent'[i].res = "ok"
             /\ sent[i].res = "reverted" => sent'[i].res = "reverted"
  <2>1. CASE i = mined + 1
    <3>1. sent[i].res = "pending"
      BY <2>1, MineFacts
    <3>2. QED
      BY <3>1
  <2>2. CASE i # mined + 1
    <3>1. sent'[i] = sent[i]
      BY <2>2, MineFacts
    <3>2. QED
      BY <3>1
  <2>3. QED
    BY <2>1, <2>2
<1>4. Fro' = Fro
  BY <1>1 DEF Fro, Running, job
<1>5. \A k \in Jobs : pc[k] = "poll" => pc'[k] = "poll" /\ tx'[k] = tx[k]
  BY <1>1 DEF job
<1>6. QED
  BY <1>1, <1>2, <1>3, <1>4, <1>5, DriftRests

(* Those cut short while they waited for a swap of t.                      *)
Cut(j, t) == {k \in Lost(j) : pc[k] = "poll" /\ TokenIn(k) = t}

LEMMA CutCounts ==
  ASSUME SwapTypes, SwapTypes', NEW j \in Jobs, PollFails(j), NEW t \in Tokens
  PROVE  /\ IsFiniteSet(Cut(j, t)) /\ Cardinality(Cut(j, t)) \in Nat
         /\ Cardinality(CountedOn(t)) <= Cardinality(CountedOn(t)') + Cardinality(Cut(j, t))
<1> DEFINE S == Cut(j, t)
           T == {tx[k] : k \in S}
           f == [k \in S |-> tx[k]]
<1>1. IsFiniteSet(S) /\ Cardinality(S) \in Nat
  <2>1. S \in SUBSET Lost(j)
    BY DEF Cut
  <2>2. IsFiniteSet(S)
    BY <2>1, PollFailsLoses, FS_Subset
  <2>3. QED
    BY <2>2, FS_CardinalityType
<1>2. IsFiniteSet(T) /\ Cardinality(T) <= Cardinality(S)
  <2>1. f \in Surjection(S, T)
    BY DEF Surjection
  <2>2. QED
    BY <1>1, <2>1, FS_Surjection
<1>3. CountedOn(t) \subseteq CountedOn(t)' \cup T
  <2>1. ASSUME NEW i \in CountedOn(t), i \notin T PROVE i \in CountedOn(t)'
    <3>1. sent' = sent /\ i \in 1..Len(sent) /\ sent[i].in = t
      BY PollFailsLoses DEF CountedOn, chain
    <3>2. CASE sent[i].res = "ok"
      BY <3>1, <3>2 DEF CountedOn
    <3>3. CASE Awaited(i)
      <4>1. PICK k \in Jobs : pc[k] = "poll" /\ tx[k] = i
        BY <3>3 DEF Awaited
      <4>2. TokenIn(k) = t
        BY <3>1, <4>1 DEF SwapTypes, JobHolds
      <4>3. k \notin Lost(j)
        BY <2>1, <4>1, <4>2 DEF Cut
      <4>4. pc'[k] = "poll" /\ tx'[k] = i
        BY <4>1, <4>3, PollFailsLoses
      <4>5. QED
        BY <3>1, <4>4 DEF CountedOn, Awaited
    <3>4. QED
      BY <3>2, <3>3 DEF CountedOn
  <2>2. QED
    BY <2>1
<1>4. IsFiniteSet(CountedOn(t)) /\ IsFiniteSet(CountedOn(t)')
      /\ Cardinality(CountedOn(t)) \in Nat /\ Cardinality(CountedOn(t)') \in Nat
  BY SumsAreFinite, SumsStayFinite DEF SumsFinite
<1>5. /\ IsFiniteSet(CountedOn(t)' \cup T)
      /\ Cardinality(CountedOn(t)' \cup T) <= Cardinality(CountedOn(t)') + Cardinality(T)
  <2>1. IsFiniteSet(CountedOn(t)' \cap T)
    BY <1>4, FS_Intersection
  <2>2. Cardinality(T) \in Nat /\ Cardinality(CountedOn(t)' \cap T) \in Nat
    BY <1>2, <2>1, FS_CardinalityType
  <2>3. /\ IsFiniteSet(CountedOn(t)' \cup T)
        /\ Cardinality(CountedOn(t)' \cup T)
             = Cardinality(CountedOn(t)') + Cardinality(T) - Cardinality(CountedOn(t)' \cap T)
    BY <1>2, <1>4, FS_Union
  <2>4. QED
    BY <1>4, <2>2, <2>3
<1>6. Cardinality(CountedOn(t)) <= Cardinality(CountedOn(t)' \cup T)
  BY <1>3, <1>5, FS_Subset
<1>7. Cardinality(T) \in Nat /\ Cardinality(CountedOn(t)' \cup T) \in Nat
  BY <1>2, <1>5, FS_CardinalityType
<1>8. QED
  BY <1>1, <1>2, <1>4, <1>5, <1>6, <1>7

LEMMA PollFailsDrifts ==
  ASSUME SwapTypes, SwapTypes', DriftInv, NEW j \in Jobs, PollFails(j)
  PROVE  DriftInv'
<1> DEFINE B == Fro \cap Lost(j)
<1>1. /\ IsFiniteSet(Lost(j)) /\ Cardinality(Lost(j)) \in Nat /\ told' = told + Cardinality(Lost(j))
      /\ sent' = sent
  BY PollFailsLoses DEF chain
<1>2. SumsFinite /\ SumsFinite'
  BY SumsAreFinite, SumsStayFinite
<1>3. \A t \in Tokens : May(t)' = May(t)
  BY <1>1 DEF May
<1>4. Fro' = Fro \ B
  BY PollFailsLoses DEF Fro, Running
<1>5. /\ IsFiniteSet(B) /\ Cardinality(B) \in Nat
      /\ Cardinality(Fro') = Cardinality(Fro) - Cardinality(B) /\ Cardinality(B) <= Cardinality(Lost(j))
  <2>1. IsFiniteSet(B) /\ B \subseteq Lost(j) /\ B \subseteq Fro
    BY <1>1, FS_Subset
  <2>2. Cardinality(B) \in Nat /\ Cardinality(B) <= Cardinality(Lost(j))
    BY <1>1, <2>1, FS_Subset, FS_CardinalityType
  <2>3. Fro \cap B = B
    OBVIOUS
  <2>4. Cardinality(Fro \ B) = Cardinality(Fro) - Cardinality(Fro \cap B)
    BY <1>2, <2>1, FS_Difference DEF SumsFinite
  <2>5. QED
    BY <1>4, <2>1, <2>2, <2>3, <2>4
<1>6. Cardinality(Cut(j, "usdt")) <= Cardinality(Lost(j))
  <2>1. Cut(j, "usdt") \subseteq Lost(j)
    BY DEF Cut
  <2>2. QED
    BY <1>1, <2>1, FS_Subset
<1>7. Cardinality(Cut(j, "usdc")) + Cardinality(B) <= Cardinality(Lost(j))
  <2>1. Cut(j, "usdc") \cap B = {} /\ Cut(j, "usdc") \cup B \subseteq Lost(j)
    BY DEF Cut, Fro, TokenIn
  <2>2. "usdc" \in Tokens
    BY DEF Tokens
  <2>3. IsFiniteSet(Cut(j, "usdc")) /\ Cardinality(Cut(j, "usdc")) \in Nat
    BY <2>2, CutCounts
  <2>4. Cardinality(Cut(j, "usdc") \cup B) = Cardinality(Cut(j, "usdc")) + Cardinality(B)
    <3>1. Cardinality(Cut(j, "usdc") \cup B)
            = Cardinality(Cut(j, "usdc")) + Cardinality(B) - Cardinality(Cut(j, "usdc") \cap B)
      BY <1>5, <2>3, FS_Union
    <3>2. Cardinality(Cut(j, "usdc") \cap B) = 0
      BY <2>1, FS_EmptySet
    <3>3. QED
      BY <1>5, <2>3, <3>1, <3>2
  <2>5. QED
    BY <1>1, <2>1, <2>4, FS_Subset
<1>8. /\ Cardinality(CountedOn("usdt")) <= Cardinality(CountedOn("usdt")') + Cardinality(Cut(j, "usdt"))
      /\ Cardinality(CountedOn("usdc")) <= Cardinality(CountedOn("usdc")') + Cardinality(Cut(j, "usdc"))
      /\ Cardinality(Cut(j, "usdt")) \in Nat /\ Cardinality(Cut(j, "usdc")) \in Nat
  BY CutCounts DEF Tokens
<1>9. May("usdt")' = May("usdt") /\ May("usdc")' = May("usdc")
  BY <1>3 DEF Tokens
<1>10. QED
  BY <1>1, <1>2, <1>5, <1>6, <1>7, <1>8, <1>9 DEF DriftInv, SumsFinite

(* Reading, beginning a run and the permission's end move nothing.         *)
LEMMA OthersDrift ==
  ASSUME SwapTypes, SwapTypes', DriftInv,
         \/ \E j \in Jobs : Launch(j) \/ ReadGrant(j) \/ ReadNonce(j)
         \/ \E t \in Tokens : Expire(t)
         \/ UNCHANGED vars
  PROVE  DriftInv'
<1>1. sent' = sent /\ told' = told /\ mined' = mined
  BY DEF Launch, ReadGrant, ReadNonce, Expire, vars, job, chain, ghosts
<1>2. ChainTypes' /\ SentStays
  BY <1>1, LenProperties DEF SwapTypes, ChainTypes, SentStays
<1>3. /\ \A k \in Jobs : pc[k] = "poll" => pc'[k] = "poll" /\ tx'[k] = tx[k]
      /\ Fro' = Fro
  <2>1. CASE UNCHANGED <<pc, leg, tx>>
    BY <2>1 DEF Fro, Running
  <2>2. ASSUME NEW j \in Jobs, Launch(j) \/ ReadGrant(j) \/ ReadNonce(j)
        PROVE  /\ \A k \in Jobs : pc[k] = "poll" => pc'[k] = "poll" /\ tx'[k] = tx[k]
               /\ Fro' = Fro
    <3>1. /\ tx' = tx /\ pc[j] # "poll" /\ pc'[j] # "poll" /\ \A k \in Jobs \ {j} : pc'[k] = pc[k] /\ leg'[k] = leg[k]
          /\ \/ pc[j] = "idle" /\ leg'[j] = 1
             \/ pc[j] # "idle" /\ pc'[j] # "idle" /\ leg'[j] = leg[j]
      BY <2>2 DEF Launch, ReadGrant, ReadNonce, SwapTypes, JobTypes
    <3>2. QED
      BY <3>1 DEF Fro, Running
  <2>3. QED
    BY <2>1, <2>2 DEF Expire, vars, job
<1>4. QED
  BY <1>1, <1>2, <1>3, DriftRests

LEMMA DriftKept ==
  ASSUME SwapTypes, SwapTypes', DriftInv, [Next]_vars
  PROVE  DriftInv'
<1>1. ASSUME NEW j \in Jobs, Launch(j) \/ Step(j) \/ SwapFails(j) \/ PollFails(j)
      PROVE  DriftInv'
  BY <1>1, OthersDrift, SendDrifts, SwapFailsDrifts, PollDrifts, PollFailsDrifts DEF Step
<1>2. CASE Mine \/ \E t \in Tokens : Expire(t)
  BY <1>2, MineDrifts, OthersDrift
<1>3. CASE UNCHANGED vars
  BY <1>3, OthersDrift
<1>4. QED
  BY <1>1, <1>2, <1>3 DEF Next, Done

LEMMA DriftInitially == ASSUME Init PROVE DriftInv
<1>1. SumsFinite
  BY SwapTypesInitially, SumsAreFinite
<1>2. Len(sent) = 0
  BY EmptySeq DEF Init
<1>3. May("usdt") = {} /\ May("usdc") = {} /\ Fro = {}
  BY <1>2 DEF Init, May, Fro, Running
<1>4. QED
  BY <1>1, <1>3, FS_EmptySet DEF DriftInv, SumsFinite

(* At rest every swap has ended, and no run will turn it back.             *)
LEMMA DriftAtRest == ASSUME SwapTypes, DriftInv PROVE DriftIsReported
<1>1. SUFFICES ASSUME \A j \in Jobs : pc[j] = "idle", mined = Len(sent)
               PROVE  /\ Swapped("usdt") - Swapped("usdc") <= told
                      /\ Swapped("usdc") - Swapped("usdt") <= told
  BY DEF DriftIsReported
<1>2. Fro = {} /\ Cardinality(Fro) = 0
  BY <1>1, FS_EmptySet DEF Fro, Running
<1>3. ASSUME NEW i \in 1..Len(sent) PROVE sent[i].res \in {"ok", "reverted"}
  <2>1. sent[i] \in Txs
    BY ElementOfSeq DEF SwapTypes, ChainTypes
  <2>2. Len(sent) \in Nat
    BY LenProperties DEF SwapTypes, ChainTypes
  <2>3. ~(i > mined)
    BY <1>1, <2>2
  <2>4. QED
    BY <2>1, <2>3 DEF SwapTypes, ChainTypes, Txs
<1>4. ASSUME NEW t PROVE Swapped(t) = Cardinality(May(t)) /\ Swapped(t) = Cardinality(CountedOn(t))
  <2>1. /\ May(t) = {i \in 1..Len(sent) : sent[i].in = t /\ sent[i].res = "ok"}
        /\ CountedOn(t) = {i \in 1..Len(sent) : sent[i].in = t /\ sent[i].res = "ok"}
    BY <1>1, <1>3 DEF May, CountedOn, Awaited
  <2>2. QED
    BY <2>1 DEF Swapped
<1>5. Swapped("usdt") \in Nat /\ Swapped("usdc") \in Nat /\ told \in Nat
  BY <1>4, SumsAreFinite DEF SumsFinite
<1>6. QED
  BY <1>2, <1>4, <1>5 DEF DriftInv

(* When nothing is under way, one token has been swapped no more often than*)
(* the other but for the swaps reported failed and the runs a panic cut    *)
(* short, however late a swap thought failed was done (CheckTxSuccess).    *)
THEOREM DriftReported == Spec => []DriftIsReported
<1>1. Init => DriftInv
  BY DriftInitially
<1>2. SwapTypes /\ SwapTypes' /\ DriftInv /\ [Next]_vars => DriftInv'
  BY DriftKept
<1>3. SwapTypes /\ DriftInv => DriftIsReported
  BY DriftAtRest
<1>4. QED
  BY <1>1, <1>2, <1>3, SwapTypesAlways, PTL DEF Spec

(***************************************************************************)
(* Advice                                                                  *)
(***************************************************************************)
Active == {r \in Runs : at[r] # "idle"}

(* Runs past the window's first bound, and those that have set a window.   *)
Inside == {r \in Runs : at[r] \notin {"idle", "look", "below"}}
Owing == {r \in Runs : at[r] \in {"amount", "switch", "put", "low", "high", "first", "second"}}
Informed == {r \in Runs : at[r] \in {"switch", "put", "low", "high", "first", "second"}}

(* An amount put in is of the thirds, or the whole, of what there is.      *)
FitsIn(i, a) == i <= TwoThirds(a) \/ i <= a

(* Every window set is told, is owed, or was swallowed by a failed call.   *)
NoneForgotten ==
  /\ advised + Cardinality(Owing) <= moves
  /\ moves <= advised + Cardinality(Owing) + failures

(* One run at a time is inside, and the window is the one it has set.      *)
OneInside ==
  /\ \A r, s \in Inside : r = s
  /\ \A r \in Inside :
       /\ at[r] = "sethigh" => dexRange.low = NewRange(cp[r]).low
       /\ r \in Owing => dexRange = NewRange(cp[r])
       /\ at[r] = "high" => low[r] = NewRange(cp[r]).low
  /\ ~misled

(* What a run has read is still there, and no more was put in.             *)
NothingCut ==
  /\ \A r \in Informed : amount[r] <= held
  /\ ~crossed => /\ FitsIn(inputed, held)
                 /\ \A r \in Informed : FitsIn(inputed, amount[r])
                 /\ ~overdrawn

AdviceInv ==
  /\ AdviceTypeOK
  /\ IsFiniteSet(Active) /\ moves \in Nat /\ advised \in Nat /\ failures \in Nat
  /\ crossed \in BOOLEAN /\ shrunk \in BOOLEAN
  /\ NoneForgotten
  /\ ~crossed => OneInside
  /\ ~shrunk => NothingCut

LEMMA AdviceConstants ==
  /\ Unit \in Nat \ {0} /\ \A a \in Amounts : a \in Nat
  /\ \A p \in Prices : p \in Nat /\ p >= 17
  BY AdviceAssumption DEF AdviceAssumption

(* A window holds the price it is set about.                               *)
LEMMA WindowHolds ==
  ASSUME NEW p \in Nat, p >= 17
  PROVE  /\ NewRange(p).low < p /\ p < NewRange(p).high
         /\ NewRange(p) \in [low : Nat, high : Nat]
  BY DEF NewRange, Gap

LEMMA WindowTypes == ASSUME NEW p \in Nat PROVE NewRange(p) \in [low : Nat, high : Nat]
  BY DEF NewRange, Gap

LEMMA Quotient ==
  ASSUME NEW n \in Nat, NEW d \in Nat \ {0}
  PROVE  n \div d \in Nat /\ d * (n \div d) <= n /\ n < d * (n \div d) + d
  OBVIOUS

LEMMA QuotientGrows ==
  ASSUME NEW m \in Nat, NEW n \in Nat, NEW d \in Nat \ {0}, m <= n
  PROVE  m \div d <= n \div d
<1>1. PICK p \in Nat : p = m \div d /\ d * p <= m /\ m < d * p + d
  BY Quotient
<1>2. PICK q \in Nat : q = n \div d /\ d * q <= n /\ n < d * q + d
  BY Quotient
<1>3. CASE p >= q + 1
  <2>1. d * p >= d * (q + 1)
    BY <1>3
  <2>2. d * (q + 1) = d * q + d
    BY Z3
  <2>3. QED
    BY <1>1, <1>2, <2>1, <2>2
<1>4. QED
  BY <1>1, <1>2, <1>3

(* Two thirds grow with the whole, and from two coins on are no more.      *)
LEMMA ThirdsGrow ==
  ASSUME NEW a \in Nat, NEW b \in Nat, a <= b
  PROVE  TwoThirds(a) \in Nat /\ TwoThirds(a) <= TwoThirds(b)
<1>1. PICK d \in Nat \ {0}, u \in Nat, m \in Nat, n \in Nat :
        d = 6 * Unit /\ u = 2 * Unit /\ m = 2 * a + 3 * Unit /\ n = 2 * b + 3 * Unit
  BY AdviceConstants
<1>2. PICK p \in Nat, q \in Nat : p = m \div d /\ q = n \div d /\ p <= q
  <2>1. m <= n
    BY <1>1, AdviceConstants
  <2>2. QED
    BY <2>1, Quotient, QuotientGrows
<1>3. u * p \in Nat /\ u * p <= u * q
  BY <1>2, Z3
<1>4. QED
  BY <1>1, <1>2, <1>3 DEF TwoThirds

LEMMA ThirdsAreLess ==
  ASSUME NEW a \in Nat, a >= 2 * Unit
  PROVE  TwoThirds(a) <= a
<1>1. 6 * Unit \in Nat \ {0} /\ 2 * a + 3 * Unit \in Nat
  BY AdviceConstants
<1>2. PICK p \in Nat : p = (2 * a + 3 * Unit) \div (6 * Unit) /\ 6 * Unit * p <= 2 * a + 3 * Unit
  BY <1>1, Quotient
<1>3. PICK u \in Nat : u = Unit * p
  BY <1>2, AdviceConstants
<1>4. 6 * u <= 2 * a + 3 * Unit
  BY <1>2, <1>3, AdviceConstants, Z3
<1>5. TwoThirds(a) = 2 * u
  BY <1>2, <1>3, AdviceConstants, Z3 DEF TwoThirds
<1>6. CASE a >= 3 * Unit
  BY <1>4, <1>5, <1>6, AdviceConstants
<1>7. CASE a < 3 * Unit
  <2>1. p < 2
    <3>1. CASE p >= 2
      <4>1. Unit * p >= Unit * 2
        BY <3>1, AdviceConstants, Z3
      <4>2. QED
        BY <1>3, <1>4, <1>7, <4>1, AdviceConstants
    <3>2. QED
      BY <3>1
  <2>2. u <= Unit
    BY <1>3, <2>1, AdviceConstants
  <2>3. QED
    BY <1>5, <2>2, AdviceConstants
<1>8. QED
  BY <1>6, <1>7, AdviceConstants

LEMMA FitsInMore ==
  ASSUME NEW i \in Nat, NEW a \in Nat, NEW b \in Nat, FitsIn(i, a), a <= b
  PROVE  FitsIn(i, b)
  BY ThirdsGrow DEF FitsIn

RunStep(r) ==
  \/ Start(r) \/ Look(r) \/ LookFails(r) \/ Below(r) \/ Above(r)
  \/ SetLow(r) \/ SetHigh(r) \/ ReadAmount(r) \/ Switch(r)
  \/ TellPut(r) \/ TellLow(r) \/ TellHigh(r) \/ SetFirst(r) \/ SetSecond(r)


LEMMA AdviceTypesKept == ASSUME AdviceTypeOK, [AdviceNext]_adviceVars PROVE AdviceTypeOK'
<1>1. ASSUME NEW r \in Runs, Start(r) \/ Look(r) \/ LookFails(r) \/ Below(r) \/ Above(r) PROVE AdviceTypeOK'
  BY <1>1 DEF AdviceTypeOK, Start, Look, LookFails, Below, Above, Goto, Return, Crossing, globals, history
<1>2. ASSUME NEW r \in Runs, SetLow(r) \/ SetHigh(r) \/ ReadAmount(r) \/ Switch(r) PROVE AdviceTypeOK'
  <2>1. cp[r] \in Nat /\ held \in Nat
    <3>1. cp[r] \in Prices \cup {0} /\ held \in Amounts
      BY DEF AdviceTypeOK
    <3>2. QED
      BY <3>1, AdviceConstants
  <2>2. NewRange(cp[r]) \in [low : Nat, high : Nat]
    BY <2>1, WindowTypes
  <2>3. QED
    BY <1>2, <2>1, <2>2 DEF AdviceTypeOK, SetLow, SetHigh, ReadAmount, Switch, Goto, globals, history
<1>3. ASSUME NEW r \in Runs, TellPut(r) \/ TellLow(r) \/ TellHigh(r) PROVE AdviceTypeOK'
  BY <1>3 DEF AdviceTypeOK, TellPut, TellLow, TellHigh, Goto, globals
<1>4. ASSUME NEW r \in Runs, SetFirst(r) \/ SetSecond(r) PROVE AdviceTypeOK'
  <2>1. TwoThirds(amount[r]) \in Nat /\ amount[r] \in Nat
    BY ThirdsGrow DEF AdviceTypeOK
  <2>2. QED
    BY <1>4, <2>1 DEF AdviceTypeOK, SetFirst, SetSecond, Goto, Return, history
<1>5. CASE Trade
  BY <1>5 DEF AdviceTypeOK, Trade, run, globals
<1>6. CASE UNCHANGED adviceVars
  BY <1>6 DEF AdviceTypeOK, adviceVars, run, globals
<1>7. QED
  BY <1>1, <1>2, <1>3, <1>4, <1>5, <1>6 DEF AdviceNext, AtRest

LEMMA OthersWait ==
  ASSUME AdviceTypeOK, NEW r \in Runs, RunStep(r)
  PROVE  \A s \in Runs \ {r} : UNCHANGED <<at[s], cp[s], amount[s], low[s]>>
<1>1. CASE Start(r) \/ Look(r) \/ LookFails(r) \/ Below(r) \/ Above(r)
  BY <1>1 DEF AdviceTypeOK, Start, Look, LookFails, Below, Above, Goto, Return
<1>2. CASE SetLow(r) \/ SetHigh(r) \/ ReadAmount(r) \/ Switch(r) \/ TellPut(r) \/ TellLow(r) \/ TellHigh(r)
  BY <1>2 DEF AdviceTypeOK, SetLow, SetHigh, ReadAmount, Switch, TellPut, TellLow, TellHigh, Goto
<1>3. CASE SetFirst(r) \/ SetSecond(r)
  BY <1>3 DEF AdviceTypeOK, SetFirst, SetSecond, Goto, Return
<1>4. QED
  BY <1>1, <1>2, <1>3 DEF RunStep

LEMMA ActiveFinite ==
  ASSUME AdviceInv, [AdviceNext]_adviceVars
  PROVE  IsFiniteSet(Active')
<1>1. CASE UNCHANGED at
  BY <1>1 DEF AdviceInv, Active
<1>2. ASSUME NEW r \in Runs, RunStep(r) PROVE IsFiniteSet(Active')
  <2>1. Active' \subseteq Active \cup {r}
    BY <1>2, OthersWait DEF AdviceInv, Active
  <2>2. QED
    BY <2>1, OneMore DEF AdviceInv
<1>3. QED
  BY <1>1, <1>2 DEF AdviceNext, Trade, AtRest, adviceVars, run, RunStep

LEMMA OwingFinite == ASSUME AdviceInv PROVE IsFiniteSet(Owing) /\ Cardinality(Owing) \in Nat
<1>1. Owing \subseteq Active
  BY DEF Owing, Active
<1>2. QED
  BY <1>1, FS_Subset, FS_CardinalityType DEF AdviceInv

(* The counters, with what is owed.                                        *)
Counts ==
  /\ moves \in Nat /\ advised \in Nat /\ failures \in Nat
  /\ crossed \in BOOLEAN /\ shrunk \in BOOLEAN /\ NoneForgotten

LEMMA CountsKept ==
  ASSUME AdviceInv, [AdviceNext]_adviceVars
  PROVE  Counts'
<1>1. IsFiniteSet(Owing) /\ Cardinality(Owing) \in Nat
  BY OwingFinite
<1>2. CASE UNCHANGED <<at, moves, advised, failures, crossed>> /\ shrunk' \in BOOLEAN
  <2>1. Owing' = Owing
    BY <1>2 DEF Owing
  <2>2. QED
    BY <1>2, <2>1 DEF AdviceInv, Counts, NoneForgotten
<1>3. ASSUME NEW r \in Runs, RunStep(r) PROVE Counts'
  <2> USE OthersWait DEF AdviceInv
  <2>1. CASE \/ Start(r) \/ Look(r) \/ Below(r) \/ Above(r) \/ SetLow(r)
             \/ ReadAmount(r) \/ Switch(r) \/ TellPut(r) \/ TellLow(r) \/ TellHigh(r) \/ SetFirst(r)
    <3>1. r \in Owing' <=> r \in Owing
      BY <2>1, ZenonT(60) DEF AdviceTypeOK, Owing, Start, Look, Below, Above, SetLow, ReadAmount, Switch, TellPut,
           TellLow, TellHigh, SetFirst, Goto, Return
    <3>2. UNCHANGED <<moves, advised, failures, shrunk>>
      BY <2>1 DEF Start, Look, Below, Above, SetLow, ReadAmount, Switch, TellPut, TellLow, TellHigh,
           SetFirst, history
    <3>3. crossed' = crossed \/ Crossing(r)
      BY <2>1 DEF Start, Look, Below, Above, SetLow, ReadAmount, Switch, TellPut, TellLow, TellHigh,
           SetFirst, history
    <3>4. crossed' \in BOOLEAN
      BY <3>3 DEF Crossing
    <3>5. Owing' = Owing
      BY <1>3, <3>1 DEF Owing
    <3>6. QED
      BY <3>2, <3>4, <3>5 DEF Counts, NoneForgotten
  <2>2. CASE LookFails(r)
    <3>1. /\ r \notin Owing' /\ UNCHANGED <<moves, advised, crossed, shrunk>> /\ failures' = failures + 1
      BY <2>2 DEF AdviceTypeOK, LookFails, Owing, Return, Goto, Failure, history
    <3>2. Owing' = Owing \ {r}
      BY <1>3, <3>1 DEF Owing
    <3>3. Cardinality(Owing') \in Nat /\ Cardinality(Owing') \in {Cardinality(Owing), Cardinality(Owing) - 1}
      BY <1>1, <3>2, FS_RemoveElement, FS_CardinalityType
    <3>4. QED
      BY <1>1, <3>1, <3>3 DEF Counts, NoneForgotten
  <2>3. CASE SetHigh(r)
    <3>1. /\ r \notin Owing /\ r \in Owing'
          /\ UNCHANGED <<advised, crossed, shrunk, failures>> /\ moves' = moves + 1
      BY <2>3 DEF AdviceTypeOK, SetHigh, Owing, Goto
    <3>2. Owing' = Owing \cup {r}
      BY <1>3, <3>1 DEF Owing
    <3>3. Cardinality(Owing') = Cardinality(Owing) + 1
      BY <1>1, <3>1, <3>2, OneMore
    <3>4. QED
      BY <1>1, <3>1, <3>3 DEF Counts, NoneForgotten
  <2>4. CASE SetSecond(r)
    <3>1. /\ r \in Owing /\ r \notin Owing'
          /\ UNCHANGED <<moves, crossed, shrunk, failures>> /\ advised' = advised + 1
      BY <2>4 DEF AdviceTypeOK, SetSecond, Owing, Goto, Return
    <3>2. Owing' = Owing \ {r}
      BY <1>3, <3>1 DEF Owing
    <3>3. Cardinality(Owing') = Cardinality(Owing) - 1
      BY <1>1, <3>1, <3>2, OneMore
    <3>4. QED
      BY <1>1, <3>1, <3>3 DEF Counts, NoneForgotten
  <2>5. QED
    BY <1>3, <2>1, <2>2, <2>3, <2>4 DEF RunStep
<1>4. CASE Trade
  BY <1>2, <1>4 DEF Trade, run, AdviceInv, AdviceTypeOK
<1>5. CASE UNCHANGED adviceVars
  BY <1>2, <1>5 DEF adviceVars, run, history, AdviceInv
<1>6. QED
  BY <1>3, <1>4, <1>5 DEF AdviceNext, AtRest, RunStep

(* Runs outside change nothing of the window.                              *)
LEMMA OneInsideKept ==
  ASSUME AdviceInv, NEW r \in Runs, RunStep(r), ~crossed'
  PROVE  ~crossed /\ OneInside'
<1> USE OthersWait DEF AdviceInv
<1>1. ASSUME r \notin Inside', UNCHANGED <<dexRange, crossed, misled>>
      PROVE  OneInside'
  BY <1>1 DEF OneInside, Inside, Owing
<1>2. ASSUME r \in Inside, r \in Inside', crossed' = crossed,
             at'[r] = "sethigh" => dexRange'.low = NewRange(cp[r]).low,
             r \in Owing' => dexRange' = NewRange(cp[r]),
             at'[r] = "high" => low'[r] = NewRange(cp[r]).low,
             cp'[r] = cp[r], ~misled'
      PROVE  OneInside'
  <2>1. \A s \in Inside' : s = r
    BY <1>2 DEF OneInside, Inside
  <2>2. QED
    BY <1>2, <2>1 DEF OneInside
<1>3. CASE Start(r) \/ Look(r) \/ LookFails(r)
  BY <1>1, <1>3 DEF AdviceTypeOK, Inside, Start, Look, LookFails, Goto, Return, globals, history
<1>4. CASE Below(r)
  <2>1. /\ \A s \in Runs \ {r} : at[s] \in {"idle", "look"}
        /\ ~crossed /\ UNCHANGED misled /\ at'[r] \in {"setlow", "above"}
    BY <1>4 DEF AdviceTypeOK, Below, Crossing, Goto
  <2>2. \A s \in Inside' : s = r
    BY <2>1 DEF Inside
  <2>3. QED
    BY <2>1, <2>2 DEF OneInside, Owing
<1>5. CASE Above(r)
  <2>1. r \in Inside /\ UNCHANGED <<dexRange, crossed, misled>>
        /\ (r \notin Inside' \/ (r \in Inside' /\ at'[r] = "setlow" /\ cp'[r] = cp[r]))
    BY <1>5 DEF AdviceTypeOK, Above, Goto, Return, Inside, globals, history
  <2>2. QED
    BY <1>1, <1>2, <2>1 DEF OneInside, Owing
<1>6. CASE SetLow(r)
  <2>1. /\ r \in Inside /\ r \in Inside' /\ at'[r] = "sethigh" /\ UNCHANGED <<crossed, misled, cp>>
        /\ dexRange'.low = NewRange(cp[r]).low
    BY <1>6 DEF AdviceTypeOK, SetLow, Goto, Inside, history
  <2>2. QED
    BY <1>2, <2>1 DEF OneInside, Owing
<1>7. CASE SetHigh(r)
  <2>1. /\ r \in Inside /\ r \in Inside' /\ at[r] = "sethigh" /\ at'[r] = "amount"
        /\ UNCHANGED <<crossed, misled, cp>>
        /\ dexRange' = [dexRange EXCEPT !.high = NewRange(cp[r]).high]
    BY <1>7 DEF AdviceTypeOK, SetHigh, Goto, Inside
  <2>2. dexRange.low = NewRange(cp[r]).low /\ dexRange \in [low : Nat, high : Nat]
    BY <2>1 DEF OneInside, AdviceTypeOK
  <2>3. dexRange' = NewRange(cp[r])
    BY <2>1, <2>2 DEF NewRange
  <2>4. QED
    BY <1>2, <2>1, <2>3 DEF OneInside, Owing
<1>8. CASE ReadAmount(r) \/ Switch(r) \/ TellPut(r) \/ SetFirst(r)
  <2>1. /\ r \in Inside /\ r \in Inside' /\ r \in Owing /\ at'[r] \notin {"sethigh", "high"}
        /\ UNCHANGED <<crossed, misled, cp, dexRange>>
    BY <1>8 DEF AdviceTypeOK, ReadAmount, Switch, TellPut, SetFirst, Goto, Inside, Owing, globals, history
  <2>2. QED
    BY <1>2, <2>1 DEF OneInside
<1>9. CASE TellLow(r)
  <2>1. /\ r \in Inside /\ r \in Inside' /\ r \in Owing /\ at'[r] = "high" /\ low'[r] = dexRange.low
        /\ UNCHANGED <<crossed, misled, cp, dexRange>>
    BY <1>9 DEF AdviceTypeOK, TellLow, Goto, Inside, Owing, globals, history
  <2>2. QED
    BY <1>2, <2>1 DEF OneInside
<1>10. CASE TellHigh(r)
  <2>1. /\ r \in Inside /\ r \in Inside' /\ r \in Owing /\ at[r] = "high" /\ at'[r] = "first"
        /\ misled' = (misled \/ ~(low[r] < cp[r] /\ cp[r] < dexRange.high))
        /\ UNCHANGED <<crossed, cp, dexRange>> /\ cp[r] \in Prices
    BY <1>10 DEF AdviceTypeOK, TellHigh, Goto, Inside, Owing, globals
  <2>2. low[r] < cp[r] /\ cp[r] < dexRange.high
    <3>1. low[r] = NewRange(cp[r]).low /\ dexRange = NewRange(cp[r])
      BY <2>1 DEF OneInside
    <3>2. QED
      BY <2>1, <3>1, WindowHolds, AdviceConstants
  <2>3. ~crossed /\ ~misled'
    BY <2>1, <2>2 DEF OneInside
  <2>4. QED
    BY <1>2, <2>1, <2>3 DEF OneInside
<1>11. CASE SetSecond(r)
  BY <1>1, <1>11 DEF AdviceTypeOK, Inside, SetSecond, Goto, Return
<1>12. ~crossed
  BY DEF RunStep, Start, Look, LookFails, Below, Above, SetLow, SetHigh, ReadAmount, Switch, TellPut,
     TellLow, TellHigh, SetFirst, SetSecond, Crossing, history
<1>13. QED
  BY <1>3, <1>4, <1>5, <1>6, <1>7, <1>8, <1>9, <1>10, <1>11, <1>12 DEF RunStep

LEMMA NothingCutKept ==
  ASSUME AdviceInv, NEW r \in Runs, RunStep(r), ~shrunk'
  PROVE  ~shrunk /\ NothingCut'
<1> USE OthersWait DEF AdviceInv
<1>1. UNCHANGED <<shrunk, held>> /\ held \in Nat /\ amount[r] \in Nat /\ inputed \in Nat
  <2>1. UNCHANGED <<shrunk, held>>
    BY DEF RunStep, Start, Look, LookFails, Below, Above, SetLow, SetHigh, ReadAmount, Switch, TellPut,
       TellLow, TellHigh, SetFirst, SetSecond, history
  <2>2. QED
    BY <2>1, AdviceConstants DEF AdviceTypeOK
<1>2. ~shrunk /\ NothingCut
  BY <1>1
<1>3. ~crossed' => ~crossed
  BY DEF RunStep, Start, Look, LookFails, Below, Above, SetLow, SetHigh, ReadAmount, Switch, TellPut,
     TellLow, TellHigh, SetFirst, SetSecond, Crossing, history
(* What has been read stays read, or is what there is.                     *)
<1>4. ASSUME UNCHANGED <<inputed, overdrawn>>,
             r \in Informed' => amount'[r] = held \/ (r \in Informed /\ amount'[r] = amount[r])
      PROVE  NothingCut'
  <2>1. \A s \in Informed' : amount'[s] = held \/ (s \in Informed /\ amount'[s] = amount[s])
    BY <1>4 DEF Informed
  <2>2. QED
    BY <1>1, <1>2, <1>3, <1>4, <2>1 DEF NothingCut
<1>5. CASE \/ Start(r) \/ Look(r) \/ LookFails(r) \/ Below(r) \/ Above(r) \/ SetLow(r) \/ SetHigh(r)
           \/ ReadAmount(r)
  <2>1. UNCHANGED <<inputed, overdrawn>> /\ (r \in Informed' => amount'[r] = held)
    BY <1>5 DEF AdviceTypeOK, Start, Look, LookFails, Below, Above, SetLow, SetHigh, ReadAmount, Informed,
         Goto, Return, globals, history
  <2>2. QED
    BY <1>2, <1>4, <2>1
<1>6. CASE Switch(r) \/ TellLow(r) \/ TellHigh(r)
  <2>1. UNCHANGED <<inputed, overdrawn>> /\ r \in Informed /\ amount'[r] = amount[r]
    BY <1>6 DEF AdviceTypeOK, Switch, TellLow, TellHigh, Informed, globals, history
  <2>2. QED
    BY <1>2, <1>4, <2>1
<1>7. CASE TellPut(r)
  <2>1. /\ r \in Informed /\ UNCHANGED <<inputed, amount, crossed>>
        /\ overdrawn' => overdrawn \/ (amount[r] >= 2 * Unit /\ amount[r] < inputed)
    BY <1>7 DEF TellPut, Informed, globals
  <2>2. Informed' = Informed
    BY <1>7 DEF AdviceTypeOK, TellPut, Informed, Goto
  <2>3. ASSUME ~crossed PROVE ~(amount[r] >= 2 * Unit /\ amount[r] < inputed)
    <3>1. FitsIn(inputed, amount[r])
      BY <1>2, <2>1, <2>3 DEF NothingCut
    <3>2. amount[r] >= 2 * Unit => TwoThirds(amount[r]) <= amount[r]
      BY <1>1, ThirdsAreLess
    <3>3. TwoThirds(amount[r]) \in Nat
      BY <1>1, ThirdsGrow
    <3>4. QED
      BY <1>1, <3>1, <3>2, <3>3 DEF FitsIn
  <2>4. QED
    BY <1>1, <1>2, <2>1, <2>2, <2>3 DEF NothingCut
(* What an advice puts in fits what it has read.                           *)
<1>8. ASSUME r \in Informed, Informed' \subseteq Informed, UNCHANGED <<crossed, overdrawn>>,
             \A s \in Informed' : amount'[s] = amount[s],
             inputed' \in {inputed, amount[r], TwoThirds(amount[r])}
      PROVE  NothingCut'
  <2>1. amount[r] <= held /\ \A s \in Informed' : amount'[s] <= held'
    BY <1>1, <1>2, <1>8 DEF NothingCut
  <2>2. ASSUME ~crossed PROVE FitsIn(inputed', held') /\ \A s \in Informed' : FitsIn(inputed', amount'[s])
    <3>1. \A s \in Informed' : s = r
      BY <1>8, <2>2 DEF OneInside, Informed, Inside
    <3>2. FitsIn(inputed, amount[r])
      BY <1>2, <1>8, <2>2 DEF NothingCut
    <3>3. TwoThirds(amount[r]) \in Nat
      BY <1>1, ThirdsGrow
    <3>4. inputed' \in Nat /\ FitsIn(inputed', amount[r])
      BY <1>1, <1>8, <3>2, <3>3 DEF FitsIn
    <3>5. FitsIn(inputed', held')
      BY <1>1, <2>1, <3>4, FitsInMore
    <3>6. QED
      BY <1>8, <3>1, <3>4, <3>5
  <2>3. QED
    BY <1>2, <1>8, <2>1, <2>2 DEF NothingCut, FitsIn, TwoThirds
<1>9. CASE SetFirst(r) \/ SetSecond(r)
  <2>1. /\ r \in Informed /\ UNCHANGED <<crossed, overdrawn>>
        /\ inputed' \in {inputed, amount[r], TwoThirds(amount[r])}
    BY <1>9 DEF SetFirst, SetSecond, Informed, history
  <2>2. Informed' \subseteq Informed /\ \A s \in Informed' : amount'[s] = amount[s]
    BY <1>9 DEF AdviceTypeOK, SetFirst, SetSecond, Informed, Goto, Return
  <2>3. QED
    BY <1>2, <1>8, <2>1, <2>2
<1>10. QED
  BY <1>2, <1>5, <1>6, <1>7, <1>9 DEF RunStep

LEMMA TradeCuts ==
  ASSUME AdviceInv, Trade
  PROVE  /\ ~crossed' => ~crossed /\ OneInside'
         /\ ~shrunk' => NothingCut'
<1>1. UNCHANGED <<run, globals, crossed, misled, overdrawn>>
  BY DEF Trade
<1>2. ~crossed' => ~crossed /\ OneInside'
  BY <1>1 DEF AdviceInv, OneInside, Inside, Owing, run, globals
<1>3. ASSUME ~shrunk' PROVE NothingCut'
  <2>1. NothingCut /\ held \in Nat /\ held' \in Nat /\ held <= held'
    <3>1. PICK a \in Amounts : held' = a /\ shrunk' = (shrunk \/ a < held)
      BY DEF Trade
    <3>2. ~shrunk /\ ~(a < held)
      BY <1>3, <3>1
    <3>3. held \in Nat /\ a \in Nat
      BY AdviceConstants DEF AdviceInv, AdviceTypeOK
    <3>4. QED
      BY <3>1, <3>2, <3>3 DEF AdviceInv
  <2>2. inputed \in Nat /\ \A s \in Runs : amount[s] \in Nat
    BY DEF AdviceInv, AdviceTypeOK
  <2>3. Informed' = Informed /\ amount' = amount /\ inputed' = inputed
    BY <1>1 DEF Informed, run, globals
  <2>4. \A s \in Informed : amount[s] <= held'
    BY <2>1, <2>2 DEF NothingCut, Informed
  <2>5. ~crossed => FitsIn(inputed, held')
    BY <2>1, <2>2, FitsInMore DEF NothingCut
  <2>6. QED
    BY <1>1, <2>1, <2>3, <2>4, <2>5 DEF NothingCut, FitsIn, TwoThirds
<1>4. QED
  BY <1>2, <1>3

LEMMA AdviceKept == ASSUME AdviceInv, [AdviceNext]_adviceVars PROVE AdviceInv'
<1>1. AdviceTypeOK' /\ IsFiniteSet(Active') /\ Counts'
  BY AdviceTypesKept, ActiveFinite, CountsKept DEF AdviceInv
<1>2. (~crossed' => OneInside') /\ (~shrunk' => NothingCut')
  <2>1. ASSUME NEW r \in Runs, RunStep(r)
        PROVE  (~crossed' => OneInside') /\ (~shrunk' => NothingCut')
    BY <2>1, OneInsideKept, NothingCutKept
  <2>2. CASE UNCHANGED adviceVars
    BY <2>2 DEF AdviceInv, OneInside, Inside, Owing, NothingCut, Informed, FitsIn, TwoThirds, adviceVars,
         run, globals, history
  <2>3. QED
    BY <2>1, <2>2, TradeCuts DEF AdviceNext, AtRest, RunStep
<1>3. QED
  BY <1>1, <1>2 DEF AdviceInv, Counts

LEMMA AdviceInitially == ASSUME AdviceInit PROVE AdviceInv
<1>1. AdviceTypeOK
  BY DEF AdviceInit, AdviceTypeOK
<1>2. Active = {} /\ Owing = {} /\ Inside = {} /\ Informed = {}
  BY DEF AdviceInit, Active, Owing, Inside, Informed
<1>3. IsFiniteSet(Active) /\ Cardinality(Owing) = 0
  BY <1>2, FS_EmptySet
<1>4. FitsIn(inputed, held)
  BY AdviceConstants DEF AdviceInit, FitsIn
<1>5. NoneForgotten /\ OneInside /\ NothingCut
  BY <1>2, <1>3, <1>4 DEF AdviceInit, NoneForgotten, OneInside, NothingCut
<1>6. QED
  BY <1>1, <1>3, <1>5 DEF AdviceInit, AdviceInv

LEMMA AdviceExplains == ASSUME AdviceInv PROVE AdviceIsExplained
<1>1. ASSUME \A r \in Runs : at[r] = "idle" PROVE moves - advised \in 0..failures
  <2>1. Owing = {} /\ Cardinality(Owing) = 0
    BY <1>1, FS_EmptySet DEF Owing
  <2>2. QED
    BY <2>1 DEF AdviceInv, NoneForgotten
<1>2. (misled => crossed) /\ (overdrawn => shrunk \/ crossed)
  BY DEF AdviceInv, OneInside, NothingCut
<1>3. QED
  BY <1>1, <1>2 DEF AdviceIsExplained

LEMMA AdviceAlways == AdviceSpec => []AdviceInv
<1>1. AdviceInit => AdviceInv
  BY AdviceInitially
<1>2. AdviceInv /\ [AdviceNext]_adviceVars => AdviceInv'
  BY AdviceKept
<1>3. QED
  BY <1>1, <1>2, PTL DEF AdviceSpec

(* However the runs interleave, an advice is lost only to a failed call,   *)
(* tells a window without its price only if two runs were at it, and asks  *)
(* for more than there is only if they were or the holding was cut         *)
(* (runAvaxDexEvent).                                                      *)
THEOREM AdviceExplained == AdviceSpec => [](AdviceTypeOK /\ AdviceIsExplained)
<1>1. AdviceInv => AdviceTypeOK /\ AdviceIsExplained
  BY AdviceExplains DEF AdviceInv
<1>2. QED
  BY <1>1, AdviceAlways, PTL

(***************************************************************************)
(* A position: the arithmetic                                              *)
(***************************************************************************)
LEMMA WholePrices == Q \in Nat /\ Q > 0
<1>1. ASSUME NEW a \in Nat, NEW b \in Nat, a > 0, b > 0, a % b = 0
      PROVE  a \div b \in Nat /\ a \div b > 0
  <2>1. a >= b
    BY <1>1
  <2>2. a \div b \in Int /\ a < b * (a \div b) + b
    BY <1>1
  <2> DEFINE k == a \div b
  <2>3. k <= 0 => b * k <= 0
    <3>1. k \in Int
      BY <2>2
    <3> HIDE DEF k
    <3>2. QED
      BY <1>1, <3>1
  <2>4. QED
    BY <2>1, <2>2, <2>3
<1>2. QED
  BY <1>1, PoolAssumption, SMTT(40) DEF Q

LEMMA Products == \A a, b \in Nat : a * b \in Nat /\ (a > 0 /\ b > 0 => a * b > 0)
  OBVIOUS

(* A price in a tick is at least the tick's and below that of the next.    *)
LEMMA PriceLies ==
  ASSUME NEW m \in Markets
  PROVE  /\ m \in [tick : Ticks, price : Nat \ {0}]
         /\ m.price >= Root[m.tick]
         /\ \A u \in Ticks : m.tick < u => m.price < Root[u]
<1>1. PICK t \in Ticks, p \in Between : m = [tick |-> t, price |-> PriceIn(t, p)]
  BY DEF Markets
<1>2. Root[t] \in Nat \ {0} /\ p \in 0 .. 99 /\ t \in Int /\ MaxTick \in Nat
  BY RootsAscend, PoolAssumption DEF Ticks
<1>3. CASE t = MaxTick
  BY <1>1, <1>2, <1>3 DEF PriceIn, Ticks
<1>4. CASE t # MaxTick
  <2>1. t + 1 \in Ticks /\ t < t + 1
    BY <1>2, <1>4 DEF Ticks
  <2>2. Root[t + 1] \in Nat \ {0} /\ Root[t] < Root[t + 1]
    BY <2>1, RootsAscend
  <2>3. \A u \in Ticks : t < u => Root[t + 1] <= Root[u] /\ Root[u] \in Nat
    <3> SUFFICES ASSUME NEW u \in Ticks, t < u PROVE Root[t + 1] <= Root[u] /\ Root[u] \in Nat
      OBVIOUS
    <3>1. u = t + 1 \/ t + 1 < u
      BY <1>2 DEF Ticks
    <3>2. Root[u] \in Nat
      BY RootsAscend
    <3>3. QED
      BY <2>1, <2>2, <3>1, <3>2, RootsAscend
  <2> DEFINE d == Root[t + 1] - Root[t]
             cut == (d * p) \div 100
  <2>4. d \in Nat /\ d > 0
    BY <1>2, <2>2
  <2>5. d * p \in Nat /\ d * p < 100 * d
    <3> HIDE DEF d
    <3>1. d * p \in Nat /\ d * p <= d * 99
      BY <1>2, <2>4
    <3>2. QED
      BY <2>4, <3>1
  <2>6. cut \in Nat /\ cut < d
    <3> HIDE DEF d
    <3>1. \A k \in Nat : k < 100 * d => k \div 100 \in Nat /\ k \div 100 < d
      BY <2>4
    <3>2. QED
      BY <2>5, <3>1
  <2>7. m.price = Root[t] + cut /\ m.tick = t
    BY <1>1, <1>4 DEF PriceIn
  <2>8. m.price \in Nat \ {0} /\ m.price >= Root[t] /\ m.price < Root[t + 1]
    <3>1. d = Root[t + 1] - Root[t]
      OBVIOUS
    <3> HIDE DEF d, cut
    <3>2. QED
      BY <1>2, <2>2, <2>6, <2>7, <3>1
  <2>9. QED
    <3> HIDE DEF d, cut
    <3> QED
    BY <1>1, <2>2, <2>3, <2>7, <2>8
<1>5. QED
  BY <1>3, <1>4
(* What an amount makes of liquidity is worth the amount again, but for    *)
(* what is cut off.                                                        *)
LEMMA NoGain ==
  ASSUME NEW a \in Nat, NEW x \in Nat, NEW y \in Nat, x > 0, y > 0, NEW l \in Nat, l <= (a * x) \div y
  PROVE  (l * y) \div x \in Nat /\ (l * y) \div x <= a
<1>1. y * ((a * x) \div y) <= a * x /\ (a * x) \div y \in Int
  OBVIOUS
<1>2. l * y <= ((a * x) \div y) * y
  OBVIOUS
<1>3. l * y <= a * x /\ l * y \in Nat
  BY <1>1, <1>2
<1>4. x * ((l * y) \div x) <= l * y /\ (l * y) \div x \in Nat
  BY <1>3
<1>5. x * ((l * y) \div x) <= a * x
  BY <1>3, <1>4
<1>6. QED
  BY <1>4, <1>5

LEMMA NoLoss ==
  ASSUME NEW a \in Nat, NEW x \in Nat, NEW y \in Nat, x > 0, y > 0
  PROVE  /\ (a * x) \div y \in Nat /\ (1 * y) \div x \in Nat
         /\ a <= (((a * x) \div y) * y) \div x + (1 * y) \div x + 1
<1> DEFINE l == (a * x) \div y
           b == (l * y) \div x
           u == y \div x
<1>1. a * x < y * l + y /\ l \in Int
  OBVIOUS
<1>2. l * y < x * b + x /\ b \in Int
  OBVIOUS
<1>3. y < x * u + x /\ u \in Int
  OBVIOUS
<1>4. l \in Nat /\ u \in Nat
  OBVIOUS
<1>5. 1 * y = y
  OBVIOUS
<1> HIDE DEF l, b, u
<1>6. a * x < x * b + x + x * u + x
  BY <1>1, <1>2, <1>3
<1>7. a * x < (b + u + 2) * x
  BY <1>1, <1>2, <1>3, <1>6
<1>8. a < b + u + 2
  BY <1>1, <1>2, <1>3, <1>7
<1>9. a <= b + u + 1
  BY <1>2, <1>3, <1>8
<1>10. QED
  BY <1>4, <1>5, <1>9 DEF l, b, u

(* The same of either token, between two roots.                            *)
LEMMA Token0 ==
  ASSUME NEW a \in Nat, NEW lo \in Nat \ {0}, NEW hi \in Nat, lo < hi
  PROVE  /\ Liquidity0(a, lo, hi) \in Nat /\ Amount0(1, lo, hi) \in Nat
         /\ \A l \in Nat : l <= Liquidity0(a, lo, hi) =>
              Amount0(l, lo, hi) \in Nat /\ Amount0(l, lo, hi) <= a
         /\ a <= Amount0(Liquidity0(a, lo, hi), lo, hi) + Amount0(1, lo, hi) + 1
<1> DEFINE x == lo * hi
           y == Q * (hi - lo)
<1>1. hi - lo \in Nat /\ hi - lo > 0 /\ Q \in Nat /\ Q > 0
  BY WholePrices
<1>2. x \in Nat /\ x > 0 /\ y \in Nat /\ y > 0
  BY <1>1, Products
<1>3. /\ a * lo * hi = a * x
      /\ \A l \in Nat : l * (hi - lo) * Q = l * y
  BY <1>1
<1>4. /\ Liquidity0(a, lo, hi) = (a * x) \div y
      /\ \A l \in Nat : Amount0(l, lo, hi) = (l * y) \div x
  BY <1>3 DEF Liquidity0, Amount0
<1> HIDE DEF x, y
<1>5. /\ (a * x) \div y \in Nat /\ (1 * y) \div x \in Nat
      /\ a <= (((a * x) \div y) * y) \div x + (1 * y) \div x + 1
  BY <1>2, NoLoss
<1>6. \A l \in Nat : l <= (a * x) \div y => (l * y) \div x \in Nat /\ (l * y) \div x <= a
  BY <1>2, NoGain
<1>7. QED
  BY <1>4, <1>5, <1>6

LEMMA Token1 ==
  ASSUME NEW a \in Nat, NEW lo \in Nat, NEW hi \in Nat, lo < hi
  PROVE  /\ Liquidity1(a, lo, hi) \in Nat /\ Amount1(1, lo, hi) \in Nat
         /\ \A l \in Nat : l <= Liquidity1(a, lo, hi) =>
              Amount1(l, lo, hi) \in Nat /\ Amount1(l, lo, hi) <= a
         /\ a <= Amount1(Liquidity1(a, lo, hi), lo, hi) + Amount1(1, lo, hi) + 1
<1> DEFINE y == hi - lo
<1>1. y \in Nat /\ y > 0 /\ Q \in Nat /\ Q > 0
  BY WholePrices
<1>2. /\ Liquidity1(a, lo, hi) = (a * Q) \div y
      /\ \A l \in Nat : Amount1(l, lo, hi) = (l * y) \div Q
  BY DEF Liquidity1, Amount1
<1> HIDE DEF y
<1>3. /\ (a * Q) \div y \in Nat /\ (1 * y) \div Q \in Nat
      /\ a <= (((a * Q) \div y) * y) \div Q + (1 * y) \div Q + 1
  BY <1>1, NoLoss
<1>4. \A l \in Nat : l <= (a * Q) \div y => (l * y) \div Q \in Nat /\ (l * y) \div Q <= a
  BY <1>1, NoGain
<1>5. QED
  BY <1>2, <1>3, <1>4

Windows == {w \in [low : Ticks, high : Ticks] : w.low < w.high}
Budgets == [t0 : Nat, t1 : Nat]

LEMMA Roots ==
  ASSUME NEW w \in Windows
  PROVE  /\ w.low \in Int /\ w.high \in Int /\ w.low < w.high /\ w.low \in Ticks /\ w.high \in Ticks
         /\ Root[w.low] \in Nat \ {0} /\ Root[w.high] \in Nat \ {0} /\ Root[w.low] < Root[w.high]
<1>1. w.low \in Ticks /\ w.high \in Ticks /\ w.low < w.high
  BY DEF Windows
<1>2. QED
  BY <1>1, RootsAscend, PoolAssumption DEF Ticks

(* What is asked for a window at a price is within the budgets.            *)
Asks(m, w, b, c) ==
  /\ c \in [l : Nat, t0 : Nat, t1 : Nat]
  /\ c.t0 <= b.t0 /\ c.t1 <= b.t1

Returns(m, w, c) ==
  LET back == AmountsFromLiquidity(c.l, m.price, w)
  IN  /\ back.t0 <= c.t0 /\ c.t0 <= back.t0 + Amount0(1, Root[w.low], Root[w.high]) + 1
      /\ back.t1 <= c.t1 /\ c.t1 <= back.t1 + Amount1(1, Root[w.low], Root[w.high]) + 1

(* All that was asked can be had back at once.                             *)
ReturnsAll(m, w, c) == AmountsFromLiquidity(c.l, m.price, w) = [t0 |-> c.t0, t1 |-> c.t1]

(* The price is at or below the window.                                    *)
LEMMA AskBelow ==
  ASSUME NEW m \in Markets, NEW w \in Windows, NEW b \in Budgets, m.tick <= w.low
  PROVE  /\ Asks(m, w, b, ComputeAmounts(m.price, m.tick, w, b))
         /\ (m.tick = w.low /\ m.price > Root[w.low]) \/ Returns(m, w, ComputeAmounts(m.price, m.tick, w, b))
<1> DEFINE lo == Root[w.low]
           hi == Root[w.high]
           l == Liquidity0(b.t0, lo, hi)
<1>1. ComputeAmounts(m.price, m.tick, w, b) = [l |-> l, t0 |-> b.t0, t1 |-> 0]
  BY DEF ComputeAmounts
<1>2. lo \in Nat \ {0} /\ hi \in Nat \ {0} /\ lo < hi /\ b.t0 \in Nat /\ b.t1 \in Nat
  BY Roots DEF Budgets
<1>3. /\ l \in Nat /\ Amount0(1, lo, hi) \in Nat
      /\ Amount0(l, lo, hi) \in Nat /\ Amount0(l, lo, hi) <= b.t0
      /\ b.t0 <= Amount0(l, lo, hi) + Amount0(1, lo, hi) + 1
  <2> HIDE DEF lo, hi
  <2>1. Liquidity0(b.t0, lo, hi) \in Nat
    BY <1>2, Token0
  <2>2. QED
    BY <1>2, <2>1, Token0
<1>4. Amount1(1, lo, hi) \in Nat
  <2> HIDE DEF lo, hi, l
  <2> QED
    BY <1>2, Token1
<1>5. ASSUME ~(m.tick = w.low /\ m.price > lo)
      PROVE  m.price <= lo
  <2>1. m.price \in Nat /\ m.tick \in Int /\ w.low \in Ticks /\ w.low \in Int
    BY PriceLies, Roots, PoolAssumption DEF Ticks
  <2>2. m.tick < w.low => m.price < lo
    BY <2>1, PriceLies
  <2>3. QED
    BY <1>2, <1>5, <2>1, <2>2
<1>6. m.price <= lo =>
        AmountsFromLiquidity(l, m.price, w) =
          [t0 |-> IF l = 0 THEN 0 ELSE Amount0(l, lo, hi), t1 |-> 0]
  <2> HIDE DEF l
  <2> QED
    BY DEF AmountsFromLiquidity
<1>7. l = 0 => Amount0(l, lo, hi) = 0
  <2> HIDE DEF l, lo, hi
  <2>1. Amount0(0, lo, hi) \in Nat /\ Amount0(0, lo, hi) <= 0
    <3>1. \A a \in Nat : a = 0 => 0 <= Liquidity0(a, lo, hi)
      BY <1>2, Token0
    <3>2. QED
      BY <1>2, <3>1, Token0
  <2>2. QED
    BY <2>1
<1> HIDE DEF l, lo, hi
<1>8. Asks(m, w, b, [l |-> l, t0 |-> b.t0, t1 |-> 0])
  BY <1>2, <1>3 DEF Asks
<1>9. m.price <= lo => Returns(m, w, [l |-> l, t0 |-> b.t0, t1 |-> 0])
  <2> SUFFICES ASSUME m.price <= lo PROVE Returns(m, w, [l |-> l, t0 |-> b.t0, t1 |-> 0])
    OBVIOUS
  <2>1. AmountsFromLiquidity(l, m.price, w) = [t0 |-> Amount0(l, lo, hi), t1 |-> 0]
    BY <1>6, <1>7
  <2>2. QED
    BY <1>2, <1>3, <1>4, <2>1 DEF Returns, lo, hi
<1>10. QED
  BY <1>1, <1>5, <1>8, <1>9 DEF lo

(* The price is at or above the window.                                    *)
LEMMA AskAbove ==
  ASSUME NEW m \in Markets, NEW w \in Windows, NEW b \in Budgets, m.tick >= w.high
  PROVE  /\ Asks(m, w, b, ComputeAmounts(m.price, m.tick, w, b))
         /\ Returns(m, w, ComputeAmounts(m.price, m.tick, w, b))
<1> DEFINE lo == Root[w.low]
           hi == Root[w.high]
           l == Liquidity1(b.t1, lo, hi)
<1>1. /\ m.tick \in Ticks /\ m.tick \in Int /\ m.price \in Nat \ {0}
      /\ w.low < w.high /\ w.low \in Int /\ w.high \in Int /\ w.high \in Ticks
  BY PriceLies, Roots, PoolAssumption DEF Ticks
<1>2. ComputeAmounts(m.price, m.tick, w, b) = [l |-> l, t0 |-> 0, t1 |-> b.t1]
  BY <1>1 DEF ComputeAmounts
<1>3. lo \in Nat \ {0} /\ hi \in Nat \ {0} /\ lo < hi /\ b.t0 \in Nat /\ b.t1 \in Nat
  BY Roots DEF Budgets
<1>4. /\ l \in Nat /\ Amount1(1, lo, hi) \in Nat
      /\ Amount1(l, lo, hi) \in Nat /\ Amount1(l, lo, hi) <= b.t1
      /\ b.t1 <= Amount1(l, lo, hi) + Amount1(1, lo, hi) + 1
  <2> HIDE DEF lo, hi
  <2>1. l \in Nat /\ b.t1 <= Amount1(l, lo, hi) + Amount1(1, lo, hi) + 1 /\ Amount1(1, lo, hi) \in Nat
    BY <1>3, Token1
  <2>2. l <= l
    BY <2>1
  <2>3. Amount1(l, lo, hi) \in Nat /\ Amount1(l, lo, hi) <= b.t1
    BY <1>3, <2>1, <2>2, Token1
  <2>4. QED
    BY <2>1, <2>3
<1>5. Amount0(1, lo, hi) \in Nat
  <2> HIDE DEF lo, hi, l
  <2> QED
    BY <1>3, Token0
<1>6. m.price >= hi
  <2>1. m.price >= Root[m.tick] /\ Root[m.tick] \in Nat
    BY <1>1, PriceLies, RootsAscend
  <2>2. m.tick = w.high \/ (w.high < m.tick /\ hi < Root[m.tick])
    BY <1>1, RootsAscend
  <2>3. QED
    BY <1>1, <1>3, <2>1, <2>2
<1>7. AmountsFromLiquidity(l, m.price, w) =
        [t0 |-> 0, t1 |-> IF l = 0 THEN 0 ELSE Amount1(l, lo, hi)]
  <2>1. ~(m.price <= lo)
    BY <1>1, <1>3, <1>6
  <2> HIDE DEF l
  <2>2. QED
    BY <1>6, <2>1 DEF AmountsFromLiquidity
<1>8. l = 0 => Amount1(l, lo, hi) = 0
  <2> HIDE DEF l, lo, hi
  <2>1. Amount1(0, lo, hi) \in Nat /\ Amount1(0, lo, hi) <= 0
    <3>1. \A a \in Nat : a = 0 => 0 <= Liquidity1(a, lo, hi)
      BY <1>3, Token1
    <3>2. QED
      BY <1>3, <3>1, Token1
  <2>2. QED
    BY <2>1
<1> HIDE DEF l, lo, hi
<1>9. Asks(m, w, b, [l |-> l, t0 |-> 0, t1 |-> b.t1])
  BY <1>3, <1>4 DEF Asks
<1>10. Returns(m, w, [l |-> l, t0 |-> 0, t1 |-> b.t1])
  <2>1. AmountsFromLiquidity(l, m.price, w) = [t0 |-> 0, t1 |-> Amount1(l, lo, hi)]
    BY <1>7, <1>8
  <2>2. QED
    BY <1>3, <1>4, <1>5, <2>1 DEF Returns, lo, hi
<1>11. QED
  BY <1>2, <1>9, <1>10

(* The price is in the window.                                             *)
LEMMA AskInside ==
  ASSUME NEW m \in Markets, NEW w \in Windows, NEW b \in Budgets, w.low < m.tick, m.tick < w.high
  PROVE  /\ Asks(m, w, b, ComputeAmounts(m.price, m.tick, w, b))
         /\ Returns(m, w, ComputeAmounts(m.price, m.tick, w, b))
         /\ ReturnsAll(m, w, ComputeAmounts(m.price, m.tick, w, b))
<1> DEFINE lo == Root[w.low]
           hi == Root[w.high]
           l == Least(Liquidity0(b.t0, m.price, hi), Liquidity1(b.t1, lo, m.price))
<1>1. /\ m.tick \in Ticks /\ m.tick \in Int /\ m.price \in Nat \ {0}
      /\ w.low < w.high /\ w.low \in Int /\ w.high \in Int /\ w.low \in Ticks /\ w.high \in Ticks
  BY PriceLies, Roots, PoolAssumption DEF Ticks
<1>2. lo \in Nat \ {0} /\ hi \in Nat \ {0} /\ lo < hi /\ b.t0 \in Nat /\ b.t1 \in Nat
  BY Roots DEF Budgets
<1>3. lo < m.price /\ m.price < hi
  <2>1. m.price >= Root[m.tick] /\ Root[m.tick] \in Nat /\ lo < Root[m.tick]
    BY <1>1, PriceLies, RootsAscend
  <2>2. m.price < hi
    BY <1>1, PriceLies
  <2>3. QED
    BY <1>1, <1>2, <2>1, <2>2
<1>4. ComputeAmounts(m.price, m.tick, w, b)
        = [l |-> l, t0 |-> Amount0(l, m.price, hi), t1 |-> Amount1(l, lo, m.price)]
  <2>1. ~(m.tick <= w.low) /\ ~(m.tick >= w.high)
    BY <1>1
  <2>2. QED
    BY <2>1 DEF ComputeAmounts
<1>5. AmountsFromLiquidity(l, m.price, w) =
        IF l = 0 THEN [t0 |-> 0, t1 |-> 0]
        ELSE [t0 |-> Amount0(l, m.price, hi), t1 |-> Amount1(l, lo, m.price)]
  <2>1. ~(m.price <= lo) /\ ~(m.price >= hi)
    BY <1>1, <1>2, <1>3
  <2> HIDE DEF l
  <2>2. QED
    BY <2>1 DEF AmountsFromLiquidity
<1> DEFINE p == m.price
<1>6. p \in Nat \ {0} /\ lo < p /\ p < hi
  BY <1>1, <1>3
<1> HIDE DEF lo, hi, p
<1>7. Liquidity0(b.t0, p, hi) \in Nat /\ Liquidity1(b.t1, lo, p) \in Nat
  BY <1>2, <1>6, Token0, Token1
<1>8. l \in Nat /\ l <= Liquidity0(b.t0, p, hi) /\ l <= Liquidity1(b.t1, lo, p)
  BY <1>7 DEF Least, p
<1> HIDE DEF l
<1>9. /\ Amount0(l, p, hi) \in Nat /\ Amount0(l, p, hi) <= b.t0
      /\ Amount1(l, lo, p) \in Nat /\ Amount1(l, lo, p) <= b.t1
  BY <1>2, <1>6, <1>8, Token0, Token1
<1>10. l = 0 => Amount0(l, p, hi) = 0 /\ Amount1(l, lo, p) = 0
  <2>1. 0 <= Liquidity0(0, p, hi) /\ 0 <= Liquidity1(0, lo, p)
    <3>1. \A a \in Nat : Liquidity0(a, p, hi) \in Nat /\ Liquidity1(a, lo, p) \in Nat
      BY <1>2, <1>6, Token0, Token1
    <3>2. QED
      BY <3>1
  <2>2. /\ Amount0(0, p, hi) \in Nat /\ Amount0(0, p, hi) <= 0
        /\ Amount1(0, lo, p) \in Nat /\ Amount1(0, lo, p) <= 0
    BY <1>2, <1>6, <2>1, Token0, Token1
  <2>3. QED
    BY <2>2
<1>11. Amount0(1, lo, hi) \in Nat /\ Amount1(1, lo, hi) \in Nat
  BY <1>2, Token0, Token1
<1>12. AmountsFromLiquidity(l, m.price, w) = [t0 |-> Amount0(l, p, hi), t1 |-> Amount1(l, lo, p)]
  BY <1>5, <1>10 DEF p
<1>13. Asks(m, w, b, [l |-> l, t0 |-> Amount0(l, p, hi), t1 |-> Amount1(l, lo, p)])
  BY <1>8, <1>9 DEF Asks
<1>14. Returns(m, w, [l |-> l, t0 |-> Amount0(l, p, hi), t1 |-> Amount1(l, lo, p)])
  BY <1>9, <1>11, <1>12 DEF Returns, lo, hi
<1>15. ReturnsAll(m, w, [l |-> l, t0 |-> Amount0(l, p, hi), t1 |-> Amount1(l, lo, p)])
  BY <1>12 DEF ReturnsAll
<1>16. QED
  BY <1>4, <1>13, <1>14, <1>15 DEF p

(* Wherever the price is.                                                  *)
LEMMA Computed ==
  ASSUME NEW m \in Markets, NEW w \in Windows, NEW b \in Budgets
  PROVE  /\ Asks(m, w, b, ComputeAmounts(m.price, m.tick, w, b))
         /\ (m.tick = w.low /\ m.price > Root[w.low]) \/ Returns(m, w, ComputeAmounts(m.price, m.tick, w, b))
         /\ w.low < m.tick /\ m.tick < w.high => ReturnsAll(m, w, ComputeAmounts(m.price, m.tick, w, b))
<1>1. m.tick \in Int /\ w.low \in Int /\ w.high \in Int
  BY PriceLies, Roots, PoolAssumption DEF Ticks
<1>2. QED
  BY <1>1, AskBelow, AskInside, AskAbove

(* A tick is rounded to one that is half a spacing away at most.           *)
LEMMA Rounded ==
  ASSUME NEW t \in Ticks
  PROVE  /\ TickIndex(t) \in Int
         /\ 2 * t - Spacing <= 2 * (TickIndex(t) * Spacing)
         /\ 2 * (TickIndex(t) * Spacing) <= 2 * t + Spacing
<1>1. t \in Int /\ Spacing \in Nat /\ Spacing > 0 /\ Abs(t) \in Nat
  BY PoolAssumption DEF Ticks, Abs
<1> DEFINE a == Abs(t)
           n == (2 * a + Spacing) \div (2 * Spacing)
<1>2. n \in Int /\ (2 * Spacing) * n <= 2 * a + Spacing /\ 2 * a + Spacing < (2 * Spacing) * n + 2 * Spacing
  <2> HIDE DEF a
  <2>1. \A x, y \in Int : y > 0 => x \div y \in Int /\ y * (x \div y) <= x /\ x < y * (x \div y) + y
    OBVIOUS
  <2>2. 2 * a + Spacing \in Int /\ 2 * Spacing \in Int /\ 2 * Spacing > 0
    BY <1>1 DEF a
  <2>3. QED
    BY <2>1, <2>2
<1>3. TickIndex(t) = IF t < 0 THEN -n ELSE n
  BY DEF TickIndex
<1>4. a = IF t < 0 THEN -t ELSE t
  BY DEF Abs
<1> HIDE DEF n, a
<1>5. /\ (2 * Spacing) * n = 2 * (n * Spacing) /\ (-n) * Spacing = -(n * Spacing)
      /\ n * Spacing \in Int
  BY <1>1, <1>2
<1>6. CASE t < 0
  BY <1>1, <1>2, <1>3, <1>4, <1>5, <1>6
<1>7. CASE t >= 0
  BY <1>1, <1>2, <1>3, <1>4, <1>5, <1>7
<1>8. QED
  BY <1>1, <1>6, <1>7

LEMMA Clamped ==
  ASSUME NEW t \in Int
  PROVE  /\ Clamp(t) \in Ticks
         /\ \A u \in Ticks : (t <= u => Clamp(t) <= u) /\ (t >= u => Clamp(t) >= u)
         /\ Clamp(t) = t \/ Abs(Clamp(t)) = MaxTick
  BY PoolAssumption DEF Clamp, Least, Ticks, Abs

(* A window about a tick has it inside, and its bounds are allowed ones.   *)
LEMMA About ==
  ASSUME NEW t \in Ticks, NEW width \in 1 .. 20, TickBounds(t, width).low < TickBounds(t, width).high
  PROVE  /\ TickBounds(t, width) \in Windows
         /\ t \in TickBounds(t, width).low .. TickBounds(t, width).high
         /\ \A u \in {TickBounds(t, width).low, TickBounds(t, width).high} :
              u % Spacing = 0 \/ Abs(u) = MaxTick
<1> DEFINE i == TickIndex(t)
           h == width \div 2
           w == TickBounds(t, width)
<1>1. w = [low |-> Clamp((i - h) * Spacing), high |-> Clamp((i + h) * Spacing)]
  BY DEF TickBounds
<1>2. /\ i \in Int /\ t \in Int /\ Spacing \in Nat /\ Spacing > 0
      /\ 2 * t - Spacing <= 2 * (i * Spacing) /\ 2 * (i * Spacing) <= 2 * t + Spacing
  BY Rounded, PoolAssumption DEF Ticks
<1>3. h \in Nat
  OBVIOUS
<1>4. w.low < w.high
  OBVIOUS
<1> HIDE DEF i, h, w
<1>5. h # 0
  <2> SUFFICES ASSUME h = 0 PROVE FALSE
    OBVIOUS
  <2>1. i - h = i + h
    BY <1>2
  <2>2. w.low = w.high /\ w.low \in Ticks
    BY <1>1, <1>2, <2>1, Clamped
  <2>3. QED
    BY <1>4, <2>2, PoolAssumption DEF Ticks
<1>6. /\ (i - h) * Spacing \in Int /\ (i + h) * Spacing \in Int
      /\ (i - h) * Spacing <= t /\ t <= (i + h) * Spacing
  <2>1. /\ (i - h) * Spacing = i * Spacing - h * Spacing
        /\ (i + h) * Spacing = i * Spacing + h * Spacing
        /\ i * Spacing \in Int /\ h * Spacing \in Int
    BY <1>2, <1>3
  <2>2. h * Spacing >= Spacing
    BY <1>2, <1>3, <1>5
  <2>3. QED
    BY <1>2, <2>1, <2>2
<1>7. w.low \in Ticks /\ w.high \in Ticks /\ w.low <= t /\ t <= w.high
  BY <1>1, <1>6, Clamped
<1>8. \A k \in Int : (k * Spacing) % Spacing = 0
  BY <1>2
<1>9. \A u \in {w.low, w.high} : u % Spacing = 0 \/ Abs(u) = MaxTick
  <2>1. i - h \in Int /\ i + h \in Int
    BY <1>2, <1>3
  <2>2. /\ w.low = (i - h) * Spacing \/ Abs(w.low) = MaxTick
        /\ w.high = (i + h) * Spacing \/ Abs(w.high) = MaxTick
    BY <1>1, <1>6, Clamped
  <2>3. QED
    BY <1>8, <2>1, <2>2
<1>10. w \in Windows /\ t \in w.low .. w.high
  BY <1>1, <1>2, <1>4, <1>7, PoolAssumption DEF Windows, Ticks
<1>11. QED
  BY <1>9, <1>10 DEF w

(* Half of what one token is worth more is given for the other.            *)
LEMMA Half ==
  ASSUME NEW x \in Nat, NEW X \in Nat, NEW y \in Nat, NEW Y \in Nat, X > 0, Y > 0, x * X - y * Y >= 0
  PROVE  LET e == x * X - y * Y
             k == e \div (2 * X)
             g == (k * X) \div Y
         IN  /\ k \in Nat /\ k <= x /\ g \in Nat
             /\ 0 <= (x - k) * X - (y + g) * Y
             /\ (x - k) * X - (y + g) * Y <= 2 * X + Y
<1> DEFINE e == x * X - y * Y
           k == e \div (2 * X)
           g == (k * X) \div Y
<1>1. \A a, b \in Int : b > 0 => a \div b \in Int /\ b * (a \div b) <= a /\ a < b * (a \div b) + b
  OBVIOUS
<1>2. \A a, b \in Nat : b > 0 => a \div b \in Nat
  OBVIOUS
<1>3. x * X \in Nat /\ y * Y \in Nat
  BY Products
<1>4. e \in Nat /\ e <= x * X /\ 2 * X \in Nat /\ 2 * X > 0 /\ e = x * X - y * Y
  BY <1>3
<1> HIDE DEF e
<1>5. k \in Nat /\ (2 * X) * k <= e /\ e < (2 * X) * k + 2 * X
  BY <1>1, <1>2, <1>4
<1> HIDE DEF k
<1>6. k * X \in Nat /\ (2 * X) * k = 2 * (k * X)
  BY <1>5, Products
<1>7. g \in Nat /\ Y * g <= k * X /\ k * X < Y * g + Y
  BY <1>1, <1>2, <1>6
<1> HIDE DEF g
<1>8. g * Y \in Nat /\ Y * g = g * Y
  BY <1>7, Products
<1>9. k <= x
  <2>1. k * X <= x * X
    BY <1>3, <1>4, <1>5, <1>6
  <2>2. QED
    BY <1>5, <2>1
<1>10. (x - k) * X = x * X - k * X /\ (y + g) * Y = y * Y + g * Y
  BY <1>5, <1>7
<1>11. /\ (x - k) * X - (y + g) * Y = e - k * X - g * Y
  BY <1>3, <1>4, <1>6, <1>8, <1>10
<1>12. 0 <= e - k * X - g * Y /\ e - k * X - g * Y <= 2 * X + Y
  BY <1>4, <1>5, <1>6, <1>7, <1>8
<1>13. k \in Nat /\ k <= x /\ g \in Nat
        /\ 0 <= (x - k) * X - (y + g) * Y /\ (x - k) * X - (y + g) * Y <= 2 * X + Y
  BY <1>5, <1>7, <1>9, <1>11, <1>12
<1>14. QED
  BY <1>13 DEF e, k, g

LEMMA Halved ==
  ASSUME NEW b \in Budgets, NEW p \in Nat \ {0}
  PROVE  LET v == AfterSwap(b, RebalanceAmounts(b, p), p)
         IN  /\ v \in Budgets
             /\ Abs(v.t0 * p * p - v.t1 * Q * Q) <= 2 * (p * p + Q * Q)
<1> DEFINE v == AfterSwap(b, RebalanceAmounts(b, p), p)
           P == p * p
           R == Q * Q
<1>1. /\ Q \in Nat /\ Q > 0 /\ P \in Nat /\ P > 0 /\ R \in Nat /\ R > 0 /\ b.t0 \in Nat /\ b.t1 \in Nat
      /\ b = [t0 |-> b.t0, t1 |-> b.t1]
  BY WholePrices, Products DEF Budgets
<1>2. /\ \A n \in Int : n * p * p = n * P /\ n * Q * Q = n * R
      /\ 2 * p * p = 2 * P /\ 2 * Q * Q = 2 * R
  <2>1. \A x, y, z \in Int : x * y * z = x * (y * z)
    OBVIOUS
  <2>2. p \in Int /\ Q \in Int
    BY <1>1
  <2>3. QED
    BY <2>1, <2>2
<1> DEFINE e == b.t1 * R - b.t0 * P
<1>3. RebalanceAmounts(b, p) = IF e > 0 THEN [token |-> 1, amount |-> e \div (2 * R)]
                               ELSE [token |-> 0, amount |-> (-e) \div (2 * P)]
  BY <1>1, <1>2 DEF RebalanceAmounts
<1>4. b.t1 * R \in Nat /\ b.t0 * P \in Nat /\ e \in Int /\ -e = b.t0 * P - b.t1 * R
  BY <1>1, Products
<1>5. CASE e > 0
  <2> DEFINE k == e \div (2 * R)
             g == (k * R) \div P
  <2>1. /\ k \in Nat /\ k <= b.t1 /\ g \in Nat
        /\ 0 <= (b.t1 - k) * R - (b.t0 + g) * P
        /\ (b.t1 - k) * R - (b.t0 + g) * P <= 2 * R + P
    <3>1. b.t1 * R - b.t0 * P >= 0
      BY <1>4, <1>5
    <3> HIDE DEF P, R
    <3>2. QED
      BY <1>1, <3>1, Half
  <2>2. RebalanceAmounts(b, p) = [token |-> 1, amount |-> k]
    BY <1>3, <1>5
  <2>3. k * Q * Q = k * R
    BY <1>2, <2>1
  <2>4. v = [t0 |-> b.t0 + g, t1 |-> b.t1 - k]
    <3> HIDE DEF k
    <3> QED
      BY <2>2, <2>3 DEF AfterSwap
  <2> HIDE DEF k, g, v
  <2>5. b.t0 + g \in Nat /\ b.t1 - k \in Nat
    BY <1>1, <2>1
  <2>6. v \in Budgets /\ v.t0 * p * p = (b.t0 + g) * P /\ v.t1 * Q * Q = (b.t1 - k) * R
    BY <1>2, <2>4, <2>5 DEF Budgets
  <2>7. (b.t0 + g) * P \in Int /\ (b.t1 - k) * R \in Int
    BY <1>1, <2>5, Products
  <2> HIDE DEF P, R
  <2>8. Abs(v.t0 * p * p - v.t1 * Q * Q) <= 2 * (P + R)
    BY <1>1, <2>1, <2>6, <2>7 DEF Abs
  <2>9. QED
    BY <2>6, <2>8 DEF v, P, R
<1>6. CASE ~(e > 0)
  <2> DEFINE k == (-e) \div (2 * P)
             g == (k * P) \div R
  <2>1. /\ k \in Nat /\ k <= b.t0 /\ g \in Nat
        /\ 0 <= (b.t0 - k) * P - (b.t1 + g) * R
        /\ (b.t0 - k) * P - (b.t1 + g) * R <= 2 * P + R
    <3>1. b.t0 * P - b.t1 * R >= 0
      BY <1>4, <1>6
    <3>2. k = (b.t0 * P - b.t1 * R) \div (2 * P)
      BY <1>4
    <3> HIDE DEF P, R, k
    <3>3. LET j == (b.t0 * P - b.t1 * R) \div (2 * P)
              h == (j * P) \div R
          IN  /\ j \in Nat /\ j <= b.t0 /\ h \in Nat
              /\ 0 <= (b.t0 - j) * P - (b.t1 + h) * R
              /\ (b.t0 - j) * P - (b.t1 + h) * R <= 2 * P + R
      BY <1>1, <3>1, Half
    <3>4. QED
      BY <3>2, <3>3
  <2>2. RebalanceAmounts(b, p) = [token |-> 0, amount |-> k]
    BY <1>3, <1>6
  <2>3. k * p * p = k * P
    BY <1>2, <2>1
  <2>4. v = [t0 |-> b.t0 - k, t1 |-> b.t1 + g]
    <3> HIDE DEF k
    <3> QED
      BY <2>2, <2>3 DEF AfterSwap
  <2> HIDE DEF k, g, v
  <2>5. b.t0 - k \in Nat /\ b.t1 + g \in Nat
    BY <1>1, <2>1
  <2>6. v \in Budgets /\ v.t0 * p * p = (b.t0 - k) * P /\ v.t1 * Q * Q = (b.t1 + g) * R
    BY <1>2, <2>4, <2>5 DEF Budgets
  <2>7. (b.t0 - k) * P \in Int /\ (b.t1 + g) * R \in Int
    BY <1>1, <2>5, Products
  <2> HIDE DEF P, R
  <2>8. Abs(v.t0 * p * p - v.t1 * Q * Q) <= 2 * (P + R)
    BY <1>1, <2>1, <2>6, <2>7 DEF Abs
  <2>9. QED
    BY <2>6, <2>8 DEF v, P, R
<1>7. QED
  BY <1>5, <1>6

(***************************************************************************)
(* A position: every step                                                  *)
(***************************************************************************)
(* What can be had back for liquidity is an amount of either token.        *)
LEMMA BackTypes ==
  ASSUME NEW m \in Markets, NEW w \in Windows, NEW l \in Nat
  PROVE  AmountsFromLiquidity(l, m.price, w) \in Budgets
<1> DEFINE lo == Root[w.low]
           hi == Root[w.high]
           p == m.price
<1>1. lo \in Nat \ {0} /\ hi \in Nat \ {0} /\ lo < hi /\ p \in Nat \ {0}
  BY Roots, PriceLies
<1>2. \A a, b \in Nat : b > 0 => a \div b \in Nat
  OBVIOUS
<1>3. ASSUME NEW x \in Nat \ {0}, NEW y \in Nat \ {0}, x < y
      PROVE  Amount0(l, x, y) \in Nat /\ Amount1(l, x, y) \in Nat
  <2>1. y - x \in Nat /\ x * y \in Nat /\ x * y > 0 /\ Q \in Nat /\ Q > 0
    BY <1>3, WholePrices, Products
  <2>2. l * (y - x) \in Nat /\ (l * (y - x)) * Q \in Nat
    BY <2>1, Products
  <2>3. QED
    BY <1>2, <2>1, <2>2 DEF Amount0, Amount1
<1>4. AmountsFromLiquidity(l, p, w) =
        IF l = 0 THEN [t0 |-> 0, t1 |-> 0]
        ELSE IF p <= lo THEN [t0 |-> Amount0(l, lo, hi), t1 |-> 0]
        ELSE IF p >= hi THEN [t0 |-> 0, t1 |-> Amount1(l, lo, hi)]
        ELSE [t0 |-> Amount0(l, p, hi), t1 |-> Amount1(l, lo, p)]
  BY DEF AmountsFromLiquidity
<1> HIDE DEF lo, hi, p
<1>5. /\ Amount0(l, lo, hi) \in Nat /\ Amount1(l, lo, hi) \in Nat
      /\ ~(p <= lo) /\ ~(p >= hi) => Amount0(l, p, hi) \in Nat /\ Amount1(l, lo, p) \in Nat
  BY <1>1, <1>3
<1>6. AmountsFromLiquidity(l, p, w) \in Budgets
  BY <1>4, <1>5 DEF Budgets
<1>7. QED
  BY <1>6 DEF p

(* A position is as its market, window and budgets had it.                 *)
Kept ==
  /\ position.at \in Markets /\ position.window \in Windows /\ position.l \in Nat
  /\ position.t0 \in Nat /\ position.t1 \in Nat
  /\ position # NoPosition
  /\ AboveItsTick \/ WorthWhatWasAsked
  /\ PriceInside => ReturnsAll(position.at, position.window, position)

PoolInv ==
  /\ stage \in {"none", "out", "halved", "in"}
  /\ market \in Markets /\ wallet \in Budgets /\ priceMoves \in Nat /\ stakes \in Nat
  /\ stage # "in" => position = NoPosition
  /\ stage = "in" => Kept
  /\ stage = "halved" => halvedAt \in Nat \ {0}
  /\ WindowIsAbout
  /\ HalvesAreEven

LEMMA PoolInvInit == PoolInit => PoolInv
<1> SUFFICES ASSUME PoolInit PROVE PoolInv
  OBVIOUS
<1>1. 0 \in Ticks /\ 1 \in Ticks /\ 0 # MaxTick
  BY PoolAssumption DEF Ticks
<1>2. Root[0] \in Nat /\ Root[1] \in Nat
  BY <1>1, RootsAscend
<1>3. PriceIn(0, 0) = Root[0]
  <2>1. PriceIn(0, 0) = Root[0] + ((Root[1] - Root[0]) * 0) \div 100
    BY <1>1 DEF PriceIn
  <2>2. (Root[1] - Root[0]) * 0 = 0
    BY <1>2
  <2>3. 0 \div 100 = 0
    OBVIOUS
  <2>4. QED
    BY <1>2, <2>1, <2>2, <2>3
<1>4. [tick |-> 0, price |-> Root[0]] \in Markets
  BY <1>1, <1>3, PoolAssumption DEF Markets
<1>5. QED
  BY <1>4 DEF PoolInit, PoolInv, Budgets, WindowIsAbout, HalvesAreEven

LEMMA OpensFit ==
  ASSUME PoolInv, stage = "halved", NEW w \in Windows, NEW s, NEW chosen \in BOOLEAN,
         OpenPosition(w, s, chosen),
         ~chosen => /\ market.tick \in w.low .. w.high
                    /\ \A t \in {w.low, w.high} : t % Spacing = 0 \/ Abs(t) = MaxTick
  PROVE  PoolInv'
<1> DEFINE c == ComputeAmounts(market.price, market.tick, w, wallet)
<1>1. /\ market \in Markets /\ wallet \in Budgets
      /\ Asks(market, w, wallet, c)
      /\ (market.tick = w.low /\ market.price > Root[w.low]) \/ Returns(market, w, c)
      /\ w.low < market.tick /\ market.tick < w.high => ReturnsAll(market, w, c)
  BY Computed DEF PoolInv
<1>2. /\ position' = [window |-> w, l |-> c.l, t0 |-> c.t0, t1 |-> c.t1, slippage |-> s,
                      budget |-> wallet, at |-> market, chosen |-> chosen]
      /\ wallet' = [t0 |-> wallet.t0 - c.t0, t1 |-> wallet.t1 - c.t1]
      /\ stage' = "in" /\ stakes' = stakes + 1 /\ UNCHANGED <<market, halvedAt, priceMoves>>
  BY DEF OpenPosition
<1> HIDE DEF c
<1>3. wallet' \in Budgets
  BY <1>1, <1>2 DEF Asks, Budgets
<1>4. position' # NoPosition
  <2>1. w.low # w.high
    BY Roots
  <2>2. QED
    BY <1>2, <2>1 DEF NoPosition
<1>5. (AboveItsTick \/ WorthWhatWasAsked)'
  <2>1. CASE market.tick = w.low /\ market.price > Root[w.low]
    BY <1>2, <2>1 DEF AboveItsTick
  <2>2. CASE Returns(market, w, c)
    BY <1>1, <1>2, <2>2 DEF WorthWhatWasAsked, Returns, Asks
  <2>3. QED
    BY <1>1, <2>1, <2>2
<1>6. Kept'
  <2>1. (PriceInside => ReturnsAll(position.at, position.window, position))'
    BY <1>1, <1>2 DEF PriceInside, ReturnsAll
  <2>2. QED
    BY <1>1, <1>2, <1>4, <1>5, <2>1 DEF Kept, Asks
<1>7. WindowIsAbout' /\ HalvesAreEven'
  BY <1>2 DEF WindowIsAbout, HalvesAreEven
<1>8. QED
  BY <1>2, <1>3, <1>6, <1>7 DEF PoolInv

LEMMA PoolInvNext == PoolInv /\ [PoolNext]_poolVars => PoolInv'
<1> SUFFICES ASSUME PoolInv, [PoolNext]_poolVars PROVE PoolInv'
  OBVIOUS
<1>1. ASSUME NEW m \in Markets, NEW w \in Wallets, Come(m, w) PROVE PoolInv'
  BY <1>1, PoolAssumption DEF Come, PoolInv, Budgets, WindowIsAbout, HalvesAreEven
<1>2. CASE Rebalance
  <2>1. wallet \in Budgets /\ market.price \in Nat \ {0} /\ market \in Markets
    BY PriceLies DEF PoolInv
  <2>2. /\ wallet' \in Budgets
        /\ Abs(wallet'.t0 * halvedAt' * halvedAt' - wallet'.t1 * Q * Q) <= 2 * (halvedAt' * halvedAt' + Q * Q)
    BY <1>2, <2>1, Halved DEF Rebalance
  <2>3. HalvesAreEven'
    BY <2>2 DEF HalvesAreEven
  <2>4. QED
    BY <1>2, <2>1, <2>2, <2>3 DEF Rebalance, PoolInv, WindowIsAbout
<1>3. ASSUME NEW width \in Widths, NEW s \in Slippages, Stake(width, s) PROVE PoolInv'
  <2> DEFINE w == TickBounds(market.tick, width)
  <2>1. market.tick \in Ticks /\ width \in 1 .. 20 /\ w.low < w.high /\ stage = "halved"
    BY <1>3, PriceLies DEF PoolInv, Stake, ValidStake
  <2>2. OpenPosition(w, s, FALSE)
    BY <1>3 DEF Stake
  <2>3. /\ w \in Windows /\ market.tick \in w.low .. w.high
        /\ \A t \in {w.low, w.high} : t % Spacing = 0 \/ Abs(t) = MaxTick
    BY <2>1, About
  <2> HIDE DEF w
  <2>4. QED
    BY <2>1, <2>2, <2>3, OpensFit
<1>4. ASSUME NEW w \in Fixed, NEW s \in Slippages, StakeFixed(w, s) PROVE PoolInv'
  <2>1. w \in Windows
    BY PoolAssumption DEF Windows, Ticks
  <2>2. stage = "halved" /\ OpenPosition(w, s, TRUE)
    BY <1>4 DEF StakeFixed
  <2>3. QED
    BY <2>1, <2>2, OpensFit
<1>5. CASE Unstake
  <2> DEFINE back == AmountsFromLiquidity(position.l, market.price, position.window)
  <2>1. back \in Budgets /\ wallet \in Budgets
    BY <1>5, BackTypes DEF PoolInv, Kept, Unstake
  <2>2. wallet' = [t0 |-> wallet.t0 + back.t0, t1 |-> wallet.t1 + back.t1] /\ stage' = "out"
        /\ position' = NoPosition /\ UNCHANGED <<market, halvedAt, priceMoves, stakes>>
    BY <1>5 DEF Unstake
  <2> HIDE DEF back
  <2>3. wallet' \in Budgets
    BY <2>1, <2>2 DEF Budgets
  <2>4. QED
    BY <2>2, <2>3 DEF PoolInv, WindowIsAbout, HalvesAreEven
<1>6. ASSUME NEW m \in Markets, MovePrice(m) PROVE PoolInv'
  BY <1>6 DEF MovePrice, PoolInv, Kept, AboveItsTick, WorthWhatWasAsked, PriceInside,
       ReturnsAll, WindowIsAbout, HalvesAreEven
<1>7. CASE UNCHANGED poolVars
  BY <1>7 DEF poolVars, PoolInv, Kept, AboveItsTick, WorthWhatWasAsked, PriceInside,
       ReturnsAll, WindowIsAbout, HalvesAreEven
<1>8. QED
  BY <1>1, <1>2, <1>3, <1>4, <1>5, <1>6, <1>7 DEF PoolNext, PoolAtRest

LEMMA PoolInvAlways == PoolSpec => []PoolInv
  BY PoolInvInit, PoolInvNext, PTL DEF PoolSpec

(* What the caller has is of its types.                                    *)
THEOREM PoolTypesCorrect == PoolSpec => []PoolTypeOK
<1>1. PoolInv => PoolTypeOK
  <2> SUFFICES ASSUME PoolInv PROVE PoolTypeOK
    OBVIOUS
  <2>1. market \in [tick : Ticks, price : Nat \ {0}]
    BY PriceLies DEF PoolInv
  <2>2. QED
    BY <2>1 DEF PoolInv, PoolTypeOK, Budgets, Kept
<1>2. QED
  BY <1>1, PoolInvAlways, PTL

(* The two ways of computing a position agree up to one unit of liquidity, *)
(* a window is about the price, and the halves are even.                   *)
THEOREM ArithmeticAgrees ==
  PoolSpec => []((stage = "in" => AboveItsTick \/ WorthWhatWasAsked) /\ WindowIsAbout /\ HalvesAreEven)
<1>1. PoolInv => (stage = "in" => AboveItsTick \/ WorthWhatWasAsked) /\ WindowIsAbout /\ HalvesAreEven
  BY DEF PoolInv, Kept
<1>2. QED
  BY <1>1, PoolInvAlways, PTL

(* Of a price in the window, what was asked is had back; elsewhere what is *)
(* tolerated has to cover the rounding.                                    *)
LEMMA Tolerated ==
  ASSUME Kept, ~AboveItsTick, PriceInside \/ SlippageCoversRounding, position.slippage \in Nat
  PROVE  WithinSlippage
<1> DEFINE back == AmountsFromLiquidity(position.l, position.at.price, position.window)
           unit0 == Amount0(1, Root[position.window.low], Root[position.window.high])
           unit1 == Amount1(1, Root[position.window.low], Root[position.window.high])
<1>1. back \in Budgets /\ position.t0 \in Nat /\ position.t1 \in Nat
  BY BackTypes DEF Kept
<1>2. unit0 \in Nat /\ unit1 \in Nat
  BY Roots, Token0, Token1 DEF Kept
<1>3. \A a \in Nat : MinAmount(a, position.slippage) \in Int /\ MinAmount(a, position.slippage) <= a
  <2> TAKE a \in Nat
  <2> DEFINE n == a * (100 - position.slippage)
  <2>1. n \in Int /\ n <= 100 * a
    OBVIOUS
  <2>2. \A i \in Int : i <= 100 * a => i \div 100 \in Int /\ i \div 100 <= a
    OBVIOUS
  <2>3. MinAmount(a, position.slippage) = n \div 100
    BY DEF MinAmount
  <2> HIDE DEF n
  <2>4. QED
    BY <2>1, <2>2, <2>3
<1>4. CASE PriceInside
  <2>1. back = [t0 |-> position.t0, t1 |-> position.t1]
    BY <1>4 DEF Kept, ReturnsAll
  <2> HIDE DEF back
  <2>2. back.t0 >= MinAmount(position.t0, position.slippage) /\ back.t1 >= MinAmount(position.t1, position.slippage)
    BY <1>1, <1>3, <2>1
  <2>3. QED
    BY <2>2 DEF WithinSlippage, back
<1>5. CASE SlippageCoversRounding
  <2>1. /\ position.t0 <= back.t0 + unit0 + 1
        /\ position.t1 <= back.t1 + unit1 + 1
    BY DEF Kept, WorthWhatWasAsked
  <2>2. /\ position.t0 = 0 \/ MinAmount(position.t0, position.slippage) + unit0 + 1 <= position.t0
        /\ position.t1 = 0 \/ MinAmount(position.t1, position.slippage) + unit1 + 1 <= position.t1
    BY <1>5 DEF SlippageCoversRounding
  <2> HIDE DEF back, unit0, unit1
  <2>3. back.t0 >= MinAmount(position.t0, position.slippage) /\ back.t1 >= MinAmount(position.t1, position.slippage)
    BY <1>1, <1>2, <1>3, <2>1, <2>2 DEF Budgets
  <2>4. QED
    BY <2>3 DEF WithinSlippage, back
<1>6. QED
  BY <1>4, <1>5

(* The slippage of a position is one that was asked for.                   *)
LEMMA SlippageStays == PoolSpec => [](stage = "in" => position.slippage \in Nat)
<1>1. PoolInit => (stage = "in" => position.slippage \in Nat)
  BY DEF PoolInit
<1>2. (stage = "in" => position.slippage \in Nat) /\ [PoolNext]_poolVars
        => (stage = "in" => position.slippage \in Nat)'
  <2> SUFFICES ASSUME stage = "in" => position.slippage \in Nat, [PoolNext]_poolVars
               PROVE  (stage = "in" => position.slippage \in Nat)'
    OBVIOUS
  <2>1. ASSUME NEW w, NEW s \in Slippages, NEW chosen, OpenPosition(w, s, chosen)
        PROVE  (stage = "in" => position.slippage \in Nat)'
    <3>1. position'.slippage = s
      BY <2>1 DEF OpenPosition
    <3>2. QED
      BY <3>1, PoolAssumption
  <2>2. CASE Rebalance \/ Unstake \/ PoolAtRest \/ \E m \in Markets : MovePrice(m) \/ \E w \in Wallets : Come(m, w)
    BY <2>2 DEF Rebalance, Unstake, PoolAtRest, MovePrice, Come, poolVars
  <2>3. CASE UNCHANGED poolVars
    BY <2>3 DEF poolVars
  <2>4. QED
    BY <2>1, <2>2, <2>3 DEF PoolNext, Stake, StakeFixed
<1>3. QED
  BY <1>1, <1>2, PTL DEF PoolSpec

(* Amounts are misjudged only in the tick of the lower bound, wherever the *)
(* slippage tolerated covers the rounding.                                 *)
THEOREM OnlyItsTick ==
  PoolSpec => []((stage = "in" => AboveItsTick \/ PriceInside \/ SlippageCoversRounding) => OnlyItsTickMisjudges)
<1>1. PoolInv /\ (stage = "in" => position.slippage \in Nat)
        => ((stage = "in" => AboveItsTick \/ PriceInside \/ SlippageCoversRounding) => OnlyItsTickMisjudges)
  <2> SUFFICES ASSUME PoolInv, stage = "in" => position.slippage \in Nat,
                      stage = "in" => AboveItsTick \/ PriceInside \/ SlippageCoversRounding
               PROVE  OnlyItsTickMisjudges
    OBVIOUS
  <2>1. stage = "in" => AboveItsTick \/ WorthWhatWasAsked
    BY DEF PoolInv, Kept
  <2>2. stage = "in" => AboveItsTick \/ WithinSlippage
    BY Tolerated DEF PoolInv
  <2>3. QED
    BY <2>1, <2>2 DEF PoolInv, OnlyItsTickMisjudges
<1>2. QED
  BY <1>1, PoolInvAlways, SlippageStays, PTL

(***************************************************************************)
(* All of them                                                             *)
(***************************************************************************)
(* Side by side, in any order, each is as it is alone.                     *)
LEMMA EachIsItself == SpecAll => Spec /\ AdviceSpec /\ PoolSpec
<1>1. NextAll => [Next]_vars /\ [AdviceNext]_adviceVars /\ [PoolNext]_poolVars
  BY DEF NextAll
<1>2. UNCHANGED all => UNCHANGED vars /\ UNCHANGED adviceVars /\ UNCHANGED poolVars
  BY DEF all
<1>3. [NextAll]_all => [Next]_vars /\ [AdviceNext]_adviceVars /\ [PoolNext]_poolVars
  BY <1>1, <1>2
<1>4. QED
  BY <1>3, PTL DEF SpecAll, InitAll, Spec, AdviceSpec, PoolSpec

(* The swaps, the advice and the position are well typed together.         *)
THEOREM AllTypesCorrect == SpecAll => []TypesOK
<1>1. TypeOK /\ AdviceTypeOK /\ PoolTypeOK => TypesOK
  BY DEF TypesOK
<1>2. QED
  BY <1>1, EachIsItself, SwapTypesCorrect, AdviceExplained, PoolTypesCorrect, PTL

(* What the swaps, the advice and the arithmetic promise alone they keep   *)
(* side by side.                                                           *)
THEOREM AllHoldSideBySide ==
  SpecAll => [](/\ ClashesAreExplained /\ DriftIsReported /\ AdviceIsExplained
                /\ ((stage = "in" => AboveItsTick \/ PriceInside \/ SlippageCoversRounding) => OnlyItsTickMisjudges))
  BY EachIsItself, ClashesExplained, DriftReported, AdviceExplained, OnlyItsTick, PTL
=============================================================================
