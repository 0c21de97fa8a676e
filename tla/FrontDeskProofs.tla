--------------------------- MODULE FrontDeskProofs --------------------------
(***************************************************************************)
(* An id misleads only where its asset was registered or deleted since it  *)
(* was looked up, and a key that is lost never does: for any number of     *)
(* assets, restarts and lost keys.  A fund is told of once in two hours,   *)
(* unless two runs found it untold, an answer about it is that of a        *)
(* moment, and what is available fills the portion: for any number of      *)
(* reports, holdings and changes.                                          *)
(***************************************************************************)
EXTENDS FrontDesk, FiniteSetTheorems, WellFoundedInduction, TLAPS

Below == {ss \in Nat \X Nat : ss[1] < ss[2]}

LEMMA BelowIsWellFounded == IsWellFoundedOn(Below, Nat)
  BY NatLessThanWellFounded DEF OpToRel, Below

LEMMA HasLeast ==
  ASSUME NEW S \in SUBSET Nat, S # {}
  PROVE  \E i \in S : \A j \in S : i <= j
<1>1. PICK i \in S : \A j \in S : <<j, i>> \notin Below
  BY WFMin, BelowIsWellFounded
<1>2. ASSUME NEW j \in S PROVE i <= j
  <2>1. <<j, i>> \notin Below
    BY <1>1
  <2>2. j \in Nat /\ i \in Nat
    OBVIOUS
  <2>3. ~(j < i)
    BY <2>1, <2>2 DEF Below
  <2>4. QED
    BY <2>2, <2>3
<1>3. QED
  BY <1>2

LEMMA HasLast ==
  ASSUME NEW n \in Nat, NEW S \in SUBSET 1..n, S # {}
  PROVE  \E i \in S : \A j \in S : i >= j
<1> DEFINE M == {n - i : i \in S}
<1>1. M \in SUBSET Nat /\ M # {}
  <2>1. ASSUME NEW i \in S PROVE n - i \in Nat
    OBVIOUS
  <2>2. PICK i \in S : TRUE
    OBVIOUS
  <2>3. n - i \in M
    BY <2>2
  <2>4. QED
    BY <2>1, <2>3
<1>2. PICK m \in M : \A k \in M : m <= k
  <2> HIDE DEF M
  <2> QED
    BY <1>1, HasLeast
<1>3. PICK i \in S : m = n - i
  OBVIOUS
<1>4. ASSUME NEW j \in S PROVE i >= j
  <2>1. n - i <= n - j
    BY <1>2, <1>3
  <2>2. QED
    BY <2>1
<1>5. QED
  BY <1>4

(* The first of a list is of the list, and so is the last.                 *)
LEMMA FirstIsListed ==
  ASSUME NEW S \in SUBSET Nat, S # {}
  PROVE  FirstOf(S) \in S
  BY HasLeast DEF FirstOf

LEMMA LastIsListed ==
  ASSUME NEW n \in Nat, NEW S \in SUBSET 1..n, S # {}, NEW old
  PROVE  LastOf(S, old) \in S
  BY HasLast DEF LastOf

-----------------------------------------------------------------------------
Row == [role : Roles, live : BOOLEAN]

(* What the proof needs of the types.                                      *)
Typed ==
  /\ assets \in Seq(Row)
  /\ redis \in [Cash -> Nat] /\ memory \in [Kept -> Nat]

Right(role, id) == id \in Ids /\ assets[id] = [role |-> role, live |-> TRUE]

(* A key of Redis is right, or the asset was registered or deleted since,  *)
(* or there is none; and a key that is lost is missing.                    *)
CashKnown ==
  \A c \in Cash : Right(c, redis[c]) \/ Misleading(c) \/ (redis[c] = 0 /\ c \in lost)

(* An id kept in memory is right unless its asset was deleted since; to be *)
(* registered is no excuse, as an id that was not found is looked up again.*)
KeptKnown == \A k \in Kept : memory[k] = 0 \/ Right(k, memory[k]) \/ k \in stale

IdsInv == Typed /\ CashKnown /\ KeptKnown /\ OnlyStaleIdsMislead

LEMMA Apart == Cash \cap Kept = {} /\ Cash \cup Kept \subseteq Roles
  BY IdsAssumption DEF IdsAssumption, Cash, Kept

LEMMA ListedIsRight ==
  ASSUME assets \in Seq(Row), NEW role, NEW id \in RetrieveAssetList(role)
  PROVE  Right(role, id)
<1>1. id \in Ids /\ assets[id] \in Row
  BY DEF RetrieveAssetList, Ids
<1>2. assets[id].role = role /\ assets[id].live = TRUE
  BY <1>1 DEF RetrieveAssetList, Row
<1>3. QED
  BY <1>1, <1>2 DEF Right, Row

LEMMA UnlistedMisleads ==
  ASSUME NEW role, RetrieveAssetList(role) = {}
  PROVE  ~\E id \in Ids : assets[id] = [role |-> role, live |-> TRUE]
  BY DEF RetrieveAssetList

-----------------------------------------------------------------------------
(* What redisCurrencyIdInit leaves is known, if what was there was.        *)
LEMMA PutIntoRedis ==
  ASSUME assets \in Seq(Row), NEW ids \in [Cash -> Nat], NEW c \in Cash, ids["won"] = 0
  PROVE  /\ RedisCurrencyIdInit(ids) \in [Cash -> Nat]
         /\ \/ Right(c, RedisCurrencyIdInit(ids)[c])
            \/ ~\E id \in Ids : assets[id] = [role |-> c, live |-> TRUE]
<1>1. RedisCurrencyIdInit(ids) = [d \in Cash |-> LastOf(RetrieveAssetList(d), ids[d])]
  BY DEF RedisCurrencyIdInit
<1>2. Ids = 1..Len(assets) /\ Len(assets) \in Nat
  BY DEF Ids
<1>3. ASSUME NEW d \in Cash, RetrieveAssetList(d) # {}
      PROVE  LastOf(RetrieveAssetList(d), ids[d]) \in RetrieveAssetList(d)
  <2>1. RetrieveAssetList(d) \in SUBSET 1..Len(assets)
    BY <1>2 DEF RetrieveAssetList
  <2>2. QED
    BY <2>1, <1>2, <1>3, LastIsListed
<1>4. ASSUME NEW d \in Cash PROVE LastOf(RetrieveAssetList(d), ids[d]) \in Nat
  <2>1. CASE RetrieveAssetList(d) = {}
    BY <2>1 DEF LastOf
  <2>2. CASE RetrieveAssetList(d) # {}
    BY <2>2, <1>2, <1>3 DEF RetrieveAssetList
  <2>3. QED
    BY <2>1, <2>2
<1>5. CASE RetrieveAssetList(c) = {}
  BY <1>1, <1>4, <1>5, UnlistedMisleads
<1>6. CASE RetrieveAssetList(c) # {}
  BY <1>1, <1>3, <1>4, <1>6, ListedIsRight
<1>7. QED
  BY <1>5, <1>6

LEMMA Initially == ASSUME IdsInit PROVE IdsInv
<1>1. assets \in Seq(Row)
  <2>1. "won" \in Roles
    BY Apart DEF Cash
  <2>2. <<>> \in Seq(Row) /\ <<[role |-> "won", live |-> TRUE]>> \in Seq(Row)
    BY <2>1 DEF Row
  <2>3. QED
    BY <2>2 DEF IdsInit
<1>2. memory = [k \in Kept |-> 0] /\ used = NoUse
  BY DEF IdsInit
<1> DEFINE none == [c \in Cash |-> 0]
<1>3. none \in [Cash -> Nat] /\ none["won"] = 0 /\ redis = RedisCurrencyIdInit(none)
  BY DEF Cash, IdsInit
<1>4. redis \in [Cash -> Nat]
  <2> HIDE DEF none
  <2>1. "won" \in Cash
    BY DEF Cash
  <2>2. QED
    BY <1>1, <1>3, <2>1, PutIntoRedis
<1>5. Typed
  BY <1>1, <1>2, <1>4 DEF Typed
<1>6. CashKnown
  <2> HIDE DEF none
  <2> QED
    BY <1>1, <1>3, PutIntoRedis DEF CashKnown, Misleading
<1>7. KeptKnown /\ OnlyStaleIdsMislead
  BY <1>2 DEF KeptKnown, OnlyStaleIdsMislead
<1>8. QED
  BY <1>5, <1>6, <1>7 DEF IdsInv

-----------------------------------------------------------------------------
(* A new row leaves those before it as they are.                           *)
LEMMA Registered ==
  ASSUME IdsInv, NEW role \in Roles, SaveAssetInfo(role)
  PROVE  IdsInv'
<1> DEFINE row == [role |-> role, live |-> TRUE]
<1>1. assets' = Append(assets, row) /\ assets \in Seq(Row) /\ row \in Row
  BY DEF SaveAssetInfo, IdsInv, Typed, Row
<1>2. assets' \in Seq(Row) /\ Len(assets') = Len(assets) + 1
  BY <1>1
<1>3. \A id \in 1..Len(assets) : id \in 1..Len(assets') /\ assets'[id] = assets[id]
  BY <1>1, <1>2
<1>4. assets'[Len(assets) + 1] = row
  BY <1>1
<1>5. Ids = 1..Len(assets) /\ Ids' = 1..Len(assets')
  BY <1>1, <1>2 DEF Ids
<1>6. \A r, id : Right(r, id) => Right(r, id)'
  BY <1>3, <1>5 DEF Right
<1>7. /\ redis' = redis /\ memory' = memory /\ used' = NoUse /\ stale' = stale \cup ({role} \cap Cash)
      /\ lost' = lost
  BY DEF SaveAssetInfo
<1>8. ASSUME NEW c \in Cash, Misleading(c) PROVE Misleading(c)'
  <2>1. CASE c \in stale \/ c = role
    BY <1>7, <2>1 DEF Misleading
  <2>2. CASE ~\E id \in Ids : assets[id] = [role |-> c, live |-> TRUE]
    <3>1. ASSUME c # role, NEW id \in Ids', assets'[id] = [role |-> c, live |-> TRUE] PROVE FALSE
      <4>1. CASE id = Len(assets) + 1
        BY <1>4, <3>1, <4>1
      <4>2. CASE id \in Ids
        BY <1>3, <1>5, <2>2, <3>1, <4>2
      <4>3. QED
        BY <1>1, <1>2, <1>5, <4>1, <4>2
    <3>2. QED
      BY <2>1, <3>1 DEF Misleading
  <2>3. QED
    BY <1>8, <2>1, <2>2 DEF Misleading
<1>9. Typed'
  BY <1>2, <1>7 DEF IdsInv, Typed
<1>10. CashKnown'
  BY <1>6, <1>7, <1>8 DEF IdsInv, CashKnown
<1>11. KeptKnown'
  BY <1>6, <1>7 DEF IdsInv, KeptKnown
<1>12. QED
  BY <1>7, <1>9, <1>10, <1>11 DEF IdsInv, OnlyStaleIdsMislead

(* What was right of other roles stays right.                              *)
LEMMA Deleted ==
  ASSUME IdsInv, NEW id \in Ids, DeleteAssetInfo(id)
  PROVE  IdsInv'
<1>1. assets \in Seq(Row) /\ Ids = 1..Len(assets) /\ assets[id] \in Row
  BY DEF IdsInv, Typed, Ids
<1> DEFINE gone == [assets[id] EXCEPT !.live = FALSE]
<1>2. gone \in Row /\ gone.live = FALSE
  BY <1>1 DEF Row
<1>3. assets' = [assets EXCEPT ![id] = gone] /\ assets' \in Seq(Row) /\ Len(assets') = Len(assets)
  BY <1>1, <1>2 DEF DeleteAssetInfo
<1>4. Ids' = Ids
  BY <1>1, <1>3 DEF Ids
<1>5. \A j \in Ids \ {id} : assets'[j] = assets[j]
  BY <1>1, <1>3
<1>6. assets'[id].live = FALSE
  BY <1>1, <1>2, <1>3
<1>7. /\ redis' = redis /\ memory' = memory /\ used' = NoUse /\ stale' = stale \cup {assets[id].role}
      /\ lost' = lost
  BY DEF DeleteAssetInfo
<1>8. ASSUME NEW r, NEW j, Right(r, j) PROVE Right(r, j)' \/ r \in stale'
  <2>1. CASE j = id
    BY <1>7, <1>8, <2>1 DEF Right
  <2>2. CASE j # id
    BY <1>4, <1>5, <1>8, <2>2 DEF Right
  <2>3. QED
    BY <2>1, <2>2
<1>9. ASSUME NEW r, Misleading(r) PROVE Misleading(r)'
  <2>1. CASE r \in stale
    BY <1>7, <2>1 DEF Misleading
  <2>2. CASE ~\E j \in Ids : assets[j] = [role |-> r, live |-> TRUE]
    <3>1. assets'[id] # [role |-> r, live |-> TRUE]
      BY <1>6
    <3>2. QED
      BY <1>4, <1>5, <2>2, <3>1 DEF Misleading
  <2>3. QED
    BY <1>9, <2>1, <2>2 DEF Misleading
<1>10. Typed'
  BY <1>3, <1>7 DEF IdsInv, Typed
<1>11. CashKnown'
  BY <1>7, <1>8, <1>9 DEF IdsInv, CashKnown, Misleading
<1>12. KeptKnown'
  BY <1>7, <1>8 DEF IdsInv, KeptKnown
<1>13. QED
  BY <1>7, <1>10, <1>11, <1>12 DEF IdsInv, OnlyStaleIdsMislead

(* Redis keeps what it has, or is filled anew.                             *)
LEMMA StartedAgain ==
  ASSUME IdsInv, StartAgain
  PROVE  IdsInv'
<1>1. assets \in Seq(Row) /\ assets' = assets /\ Ids' = Ids /\ redis \in [Cash -> Nat]
  BY DEF IdsInv, Typed, StartAgain, Ids
<1>2. memory' = [k \in Kept |-> 0] /\ used' = NoUse /\ redis' = RedisCurrencyIdInit(redis)
  BY DEF StartAgain
<1>3. redis' \in [Cash -> Nat] /\ CashKnown'
  <2>1. CASE redis["won"] = 0
    <3>1. "won" \in Cash
      BY DEF Cash
    <3>2. redis' \in [Cash -> Nat]
      BY <1>1, <1>2, <2>1, <3>1, PutIntoRedis
    <3>3. ASSUME NEW c \in Cash PROVE Right(c, redis[c])' \/ Misleading(c)'
      <4>1. \/ Right(c, redis'[c])
            \/ ~\E id \in Ids : assets[id] = [role |-> c, live |-> TRUE]
        BY <1>1, <1>2, <2>1, PutIntoRedis
      <4>2. QED
        BY <1>1, <4>1 DEF Right, Misleading
    <3>4. QED
      BY <3>2, <3>3 DEF CashKnown
  <2>2. CASE redis["won"] # 0
    <3>1. redis' = redis
      BY <1>2, <2>2 DEF RedisCurrencyIdInit
    <3>2. lost' = lost /\ \A c \in Cash : c \in stale => c \in stale'
      BY <2>2, Apart DEF StartAgain
    <3>3. QED
      BY <1>1, <3>1, <3>2 DEF IdsInv, CashKnown, Misleading, Right
  <2>3. QED
    BY <2>1, <2>2
<1>4. Typed' /\ KeptKnown'
  BY <1>1, <1>2, <1>3 DEF Typed, KeptKnown
<1>5. QED
  BY <1>2, <1>3, <1>4 DEF IdsInv, OnlyStaleIdsMislead

(* Nothing is excused but that the key is missing.                         *)
LEMMA Forgotten ==
  ASSUME IdsInv, NEW S \in SUBSET Cash, LoseKeys(S)
  PROVE  IdsInv'
<1>1. Typed'
  BY DEF IdsInv, Typed, LoseKeys
<1>2. CashKnown'
  <2>1. /\ Ids' = Ids /\ assets' = assets /\ stale' = stale /\ lost' = lost \cup S
        /\ \A c \in Cash : redis'[c] = IF c \in S THEN 0 ELSE redis[c]
    BY DEF LoseKeys, Ids
  <2>2. QED
    BY <2>1 DEF IdsInv, CashKnown, Misleading, Right
<1>3. KeptKnown'
  BY DEF IdsInv, KeptKnown, LoseKeys, Right, Ids
<1>4. QED
  BY <1>1, <1>2, <1>3 DEF IdsInv, OnlyStaleIdsMislead, LoseKeys

(* An id that is looked up is right; one that was, is or its asset was     *)
(* deleted.                                                                *)
LEMMA Looked ==
  ASSUME IdsInv, NEW k \in Kept, Look(k)
  PROVE  IdsInv'
<1>1. assets \in Seq(Row) /\ redis \in [Cash -> Nat] /\ memory \in [Kept -> Nat]
  BY DEF IdsInv, Typed
<1>2. assets' = assets /\ redis' = redis /\ Ids' = Ids /\ lost' = lost
  BY DEF Look, Ids
<1> DEFINE found == FirstOf(RetrieveAssetList(k))
<1>3. /\ found \in Nat
      /\ \/ Right(k, found)
         \/ found = 0 /\ ~\E id \in Ids : assets[id] = [role |-> k, live |-> TRUE]
  <2>1. CASE RetrieveAssetList(k) = {}
    BY <2>1, UnlistedMisleads DEF FirstOf
  <2>2. CASE RetrieveAssetList(k) # {}
    <3>1. RetrieveAssetList(k) \in SUBSET Nat
      BY <1>1 DEF RetrieveAssetList, Ids
    <3>2. found \in RetrieveAssetList(k)
      BY <2>2, <3>1, FirstIsListed
    <3>3. QED
      BY <1>1, <3>1, <3>2, ListedIsRight
  <2>3. QED
    BY <2>1, <2>2
<1> HIDE DEF found
<1>4. CASE memory[k] = 0
  <2>1. memory' = [memory EXCEPT ![k] = found] /\ used' = [role |-> k, id |-> found] /\ stale' = stale \ {k}
    BY <1>1, <1>4 DEF Look, LookedUp, found
  <2>2. Typed'
    BY <1>1, <1>2, <1>3, <2>1 DEF Typed
  <2>3. CashKnown'
    <3>1. \A c \in Cash : c \in stale => c \in stale'
      BY <2>1, Apart
    <3>2. QED
      BY <1>2, <3>1 DEF IdsInv, CashKnown, Misleading, Right
  <2>4. KeptKnown'
    BY <1>1, <1>2, <1>3, <2>1 DEF IdsInv, KeptKnown, Right
  <2>5. OnlyStaleIdsMislead'
    BY <1>2, <1>3, <2>1 DEF OnlyStaleIdsMislead, Misleading, Right
  <2>6. QED
    BY <2>2, <2>3, <2>4, <2>5 DEF IdsInv
<1>5. CASE memory[k] # 0
  <2>1. memory' = memory /\ used' = [role |-> k, id |-> memory[k]] /\ stale' = stale
    BY <1>1, <1>5 DEF Look, LookedUp
  <2>2. Typed' /\ CashKnown' /\ KeptKnown'
    BY <1>1, <1>2, <2>1 DEF IdsInv, Typed, CashKnown, KeptKnown, Misleading, Right
  <2>3. OnlyStaleIdsMislead'
    <3>1. Right(k, memory[k]) \/ k \in stale
      BY <1>5 DEF IdsInv, KeptKnown
    <3>2. QED
      BY <1>2, <2>1, <3>1 DEF OnlyStaleIdsMislead, Misleading, Right
  <2>4. QED
    BY <2>2, <2>3 DEF IdsInv
<1>6. QED
  BY <1>4, <1>5

LEMMA Recorded ==
  ASSUME IdsInv, NEW id \in Ids, Record(id)
  PROVE  IdsInv'
<1>1. UNCHANGED <<assets, redis, memory, stale, lost, Ids>>
  BY DEF Record, Ids
<1>2. Typed' /\ CashKnown' /\ KeptKnown'
  BY <1>1 DEF IdsInv, Typed, CashKnown, KeptKnown, Misleading, Right
<1>3. OnlyStaleIdsMislead'
  <2> DEFINE c == CashOf(id)
  <2>1. c \in Cash
    BY DEF CashOf, Cash
  <2>2. CASE used' = NoUse
    BY <2>2 DEF OnlyStaleIdsMislead
  <2>3. CASE BothFound /\ used' = [role |-> c, id |-> redis[c]]
    BY <1>1, <2>1, <2>3 DEF IdsInv, CashKnown, BothFound, Cash, OnlyStaleIdsMislead, Misleading, Right
  <2>4. CASE ~BothFound /\ used' = [role |-> c, id |-> 0]
    <3>1. PICK d \in Cash : redis[d] = 0
      BY <2>4 DEF BothFound, Cash
    <3>2. 0 \notin Ids
      BY DEF IdsInv, Typed, Ids
    <3>3. Misleading(d) \/ d \in lost
      BY <3>1, <3>2 DEF IdsInv, CashKnown, Right
    <3>4. QED
      BY <1>1, <2>1, <2>4, <3>3 DEF OnlyStaleIdsMislead, Misleading
  <2>5. QED
    BY <2>2, <2>3, <2>4 DEF Record
<1>4. QED
  BY <1>2, <1>3 DEF IdsInv

(* Whatever is registered, deleted, lost or restarted, in any number and   *)
(* order: a purchase is charged to the right cash, and gold's premium and  *)
(* the advice are about the right asset, unless that asset was registered  *)
(* or deleted since its id was looked up, or is not there; while a key is  *)
(* lost purchases are charged to none, never to a wrong asset.             *)
THEOREM StaleIdsOnly == IdsSpec => []OnlyStaleIdsMislead
<1>1. IdsInit => IdsInv
  BY Initially
<1>2. IdsInv /\ [IdsNext]_idVars => IdsInv'
  <2> SUFFICES ASSUME IdsInv, [IdsNext]_idVars PROVE IdsInv'
    OBVIOUS
  <2>1. CASE \E r \in Roles : SaveAssetInfo(r)
    BY <2>1, Registered
  <2>2. CASE \E id \in Ids : DeleteAssetInfo(id)
    BY <2>2, Deleted
  <2>3. CASE \E id \in Ids : Record(id)
    BY <2>3, Recorded
  <2>4. CASE Restart \/ LookPanics
    BY <2>4, StartedAgain DEF Restart, LookPanics
  <2>5. CASE \E S \in SUBSET Cash : S # {} /\ LoseKeys(S)
    BY <2>5, Forgotten
  <2>6. CASE \E k \in Kept : Look(k)
    BY <2>6, Looked
  <2>7. CASE UNCHANGED idVars
    BY <2>7 DEF idVars, IdsInv, Typed, CashKnown, KeptKnown, OnlyStaleIdsMislead, Misleading, Right, Ids
  <2>8. QED
    BY <2>1, <2>2, <2>3, <2>4, <2>5, <2>6, <2>7 DEF IdsNext
<1>3. IdsInv => OnlyStaleIdsMislead
  BY DEF IdsInv
<1>4. QED
  BY <1>1, <1>2, <1>3, PTL DEF IdsSpec

(* The program as a whole, reports included, looks ids up as AssetIds      *)
(* does, so the same holds of it.                                          *)
THEOREM DeskLooksUp == SpecDesk => IdsSpec
<1>1. InitDesk => IdsInit
  BY DEF InitDesk
<1>2. [NextDesk]_desk => [IdsNext]_idVars
  BY DEF NextDesk, OfPortfolio, OfIds, desk
<1>3. QED
  BY <1>1, <1>2, PTL DEF SpecDesk, IdsSpec

(* So an id misleads in the program, beside the reports, only where its    *)
(* asset was registered or deleted since, or is not there, and lost keys   *)
(* never do (redisCurrencyIdInit).                                         *)
THEOREM DeskStaleIdsOnly == SpecDesk => []OnlyStaleIdsMislead
  BY StaleIdsOnly, DeskLooksUp

-----------------------------------------------------------------------------
(* What is told of a fund *)

Stages == {"idle", "convert", "rate", "list", "level", "answered", "judge", "mark", "order"}

(* What the proof needs of the types.                                      *)
Told == step \in [Reports -> Stages] /\ tellings \in Nat /\ crossed \in BOOLEAN

Telling(x) == step[x] \in {"mark", "order"}

(* A fund is silent for a reason, and is silent as long as the reason is.  *)
Kept2Hours == portCache => tellings > 0 \/ hushed \/ \E x \in Reports : step[x] = "order"
Noted == (tellings > 0 \/ \E x \in Reports : step[x] = "order") => portCache

(* Where no two runs were about to tell at once, one is at most, and none  *)
(* when it is told.                                                        *)
OneTells ==
  ~crossed => /\ \A x, y \in Reports : Telling(x) /\ Telling(y) => x = y
              /\ tellings > 0 => \A x \in Reports : ~Telling(x)
              /\ tellings <= 1

TellInv == Told /\ Kept2Hours /\ Noted /\ OneTells

(* A report that is not about to tell goes on, but not to tell.            *)
LEMMA TellsNothing ==
  ASSUME TellInv, NEW x \in Reports, ~Telling(x), NEW next \in Stages, To(x, next),
         next \notin {"mark", "order"},
         UNCHANGED <<portCache, tellings, hushed, crossed>>
  PROVE  TellInv'
<1>1. step' \in [Reports -> Stages] /\ step'[x] = next /\ \A y \in Reports \ {x} : step'[y] = step[y]
  BY DEF TellInv, Told, To
<1>2. Told'
  BY <1>1 DEF TellInv, Told
<1>3. \A y \in Reports : step'[y] = "order" <=> step[y] = "order"
  BY <1>1 DEF Telling
<1>4. \A y \in Reports : Telling(y)' <=> Telling(y)
  BY <1>1 DEF Telling
<1>5. Kept2Hours' /\ Noted'
  BY <1>3 DEF TellInv, Kept2Hours, Noted
<1>6. OneTells'
  BY <1>4 DEF TellInv, OneTells
<1>7. QED
  BY <1>2, <1>5, <1>6 DEF TellInv

(* Nothing that tells of the fund moves.                                   *)
LEMMA NothingTold ==
  ASSUME TellInv, UNCHANGED <<step, portCache, tellings, hushed, crossed>>
  PROVE  TellInv'
  BY DEF TellInv, Told, Kept2Hours, Noted, OneTells, Telling

(* The one step that comes to tell: of a fund that is not silent.          *)
LEMMA JudgedSafely ==
  ASSUME TellInv, NEW x \in Reports, Judge(x)
  PROVE  TellInv'
<1>1. step[x] = "judge" /\ UNCHANGED <<portCache, tellings, hushed>>
  BY DEF Judge
<1> DEFINE quiet == TotalSum(x) = 0 \/ portCache \/ Inside(x)
<1>2. /\ quiet => To(x, "idle")
      /\ ~quiet => To(x, "mark")
      /\ crossed' = (crossed \/ (~quiet /\ \E y \in Reports \ {x} : step[y] = "mark"))
  BY DEF Judge, Leave, GoOn
<1>3. ~quiet => ~portCache
  OBVIOUS
<1> HIDE DEF quiet
<1>4. CASE quiet
  <2>1. crossed' = crossed
    BY <1>2, <1>4 DEF TellInv, Told
  <2>2. ~Telling(x) /\ "idle" \in Stages
    BY <1>1 DEF Telling, Stages
  <2>3. QED
    BY <1>1, <1>2, <1>4, <2>1, <2>2, TellsNothing
<1>5. CASE ~quiet
  <2>1. /\ step' \in [Reports -> Stages] /\ step'[x] = "mark"
        /\ \A y \in Reports \ {x} : step'[y] = step[y]
    BY <1>2, <1>5 DEF TellInv, Told, To, Stages
  <2>2. crossed' \in BOOLEAN
    BY <1>2
  <2>3. Told'
    BY <1>1, <2>1, <2>2 DEF TellInv, Told
  <2>4. ~portCache /\ tellings = 0 /\ \A y \in Reports : step[y] # "order"
    BY <1>3, <1>5 DEF TellInv, Told, Noted
  <2>5. Kept2Hours' /\ Noted'
    BY <1>1, <2>1, <2>4 DEF Kept2Hours, Noted
  <2>6. ~crossed' => \A y \in Reports : Telling(y)' => y = x
    <3>1. SUFFICES ASSUME ~crossed', NEW y \in Reports, Telling(y)', y # x PROVE FALSE
      OBVIOUS
    <3>2. step[y] = "mark"
      BY <2>1, <2>4, <3>1 DEF Telling
    <3>3. QED
      BY <1>2, <1>5, <3>1, <3>2
  <2>7. OneTells'
    BY <1>1, <2>4, <2>6 DEF OneTells
  <2>8. QED
    BY <2>3, <2>5, <2>7 DEF TellInv
<1>6. QED
  BY <1>4, <1>5

LEMMA NotedSafely ==
  ASSUME TellInv, NEW x \in Reports, SetPortCache(x)
  PROVE  TellInv'
<1>1. /\ step[x] = "mark" /\ portCache' = TRUE /\ UNCHANGED <<tellings, hushed, crossed>>
      /\ step' = [step EXCEPT ![x] = "order"]
  BY DEF SetPortCache, GoOn, To
<1>2. /\ step' \in [Reports -> Stages] /\ step'[x] = "order"
      /\ \A y \in Reports \ {x} : step'[y] = step[y]
  BY <1>1 DEF TellInv, Told, Stages
<1>3. Told'
  BY <1>1, <1>2 DEF TellInv, Told
<1>4. Kept2Hours' /\ Noted'
  BY <1>1, <1>2 DEF Kept2Hours, Noted
<1>5. \A y \in Reports : Telling(y)' <=> Telling(y)
  BY <1>1, <1>2 DEF Telling
<1>6. OneTells'
  BY <1>1, <1>5 DEF TellInv, OneTells
<1>7. QED
  BY <1>3, <1>4, <1>6 DEF TellInv

LEMMA ToldSafely ==
  ASSUME TellInv, NEW x \in Reports, Tell(x) \/ OrderFails(x)
  PROVE  TellInv'
<1>1. /\ step[x] = "order" /\ UNCHANGED <<portCache, crossed>>
      /\ step' = [step EXCEPT ![x] = "idle"]
      /\ \/ tellings' = tellings + 1 /\ hushed' = hushed
         \/ tellings' = tellings /\ hushed' = TRUE
  BY DEF Tell, OrderFails, Leave, To
<1>2. /\ step' \in [Reports -> Stages] /\ step'[x] = "idle"
      /\ \A y \in Reports \ {x} : step'[y] = step[y]
  BY <1>1 DEF TellInv, Told, Stages
<1>3. tellings \in Nat /\ tellings' \in Nat /\ portCache
  BY <1>1 DEF TellInv, Told, Noted
<1>4. Told'
  BY <1>1, <1>2, <1>3 DEF TellInv, Told
<1>5. Kept2Hours'
  BY <1>1, <1>3 DEF Kept2Hours
<1>6. Noted'
  BY <1>1, <1>3 DEF Noted
<1>7. ASSUME ~crossed PROVE tellings = 0 /\ \A y \in Reports : ~Telling(y)'
  <2>1. tellings = 0 /\ \A y \in Reports : Telling(y) => y = x
    BY <1>1, <1>3, <1>7 DEF TellInv, OneTells, Telling
  <2>2. QED
    BY <1>2, <2>1 DEF Telling
<1>8. OneTells'
  BY <1>1, <1>3, <1>7 DEF OneTells
<1>9. QED
  BY <1>4, <1>5, <1>6, <1>8 DEF TellInv

LEMMA AgedSafely == ASSUME TellInv, CacheAges PROVE TellInv'
<1>1. /\ portCache' = FALSE /\ tellings' = 0 /\ crossed' = FALSE /\ step' = step
      /\ \A x \in Reports : ~Telling(x)
  BY DEF CacheAges, report, Telling
<1>2. Told'
  BY <1>1 DEF TellInv, Told
<1>3. \A x \in Reports : ~Telling(x)' /\ step'[x] # "order"
  BY <1>1 DEF Telling
<1>4. Kept2Hours' /\ Noted'
  BY <1>1, <1>3 DEF Kept2Hours, Noted
<1>5. OneTells'
  BY <1>1, <1>3 DEF OneTells
<1>6. QED
  BY <1>2, <1>4, <1>5 DEF TellInv

LEMMA Untold == ASSUME DeskInit PROVE TellInv
<1>1. portCache = FALSE /\ tellings = 0 /\ crossed = FALSE /\ step = [x \in Reports |-> "idle"]
  BY DEF DeskInit
<1>2. \A x \in Reports : ~Telling(x) /\ step[x] # "order"
  BY <1>1 DEF Telling
<1>3. Told
  BY <1>1 DEF Told, Stages
<1>4. Kept2Hours /\ Noted
  BY <1>1, <1>2 DEF Kept2Hours, Noted
<1>5. OneTells
  BY <1>1, <1>2 DEF OneTells
<1>6. QED
  BY <1>3, <1>4, <1>5 DEF TellInv

(* Every other step of a report, and everything around it.                 *)
LEMMA ReportsOn ==
  ASSUME TellInv, NEW x \in Reports,
         \/ \E k \in Kinds : Begin(x, k)
         \/ Convert(x) \/ Converted(x) \/ ReadRate(x) \/ ListRows(x) \/ ReadLevel(x)
         \/ ReadFails(x) \/ Finish(x)
  PROVE  TellInv'
<1>1. CASE Convert(x)
  BY <1>1, NothingTold DEF Convert, ofCache
<1>2. CASE \E k \in Kinds : Begin(x, k)
  <2>1. PICK next \in {"rate", "level", "convert"} : To(x, next) /\ step[x] = "idle"
    <3>1. PICK k \in Kinds : Begin(x, k)
      BY <1>2
    <3>2. CASE k = "total"
      BY <3>1, <3>2 DEF Begin
    <3>3. CASE k = "message"
      BY <3>1, <3>3 DEF Begin
    <3>4. CASE k \notin {"total", "message"}
      BY <3>1, <3>4 DEF Begin
    <3>5. QED
      BY <3>2, <3>3, <3>4
  <2>2. UNCHANGED <<portCache, tellings, hushed, crossed>>
    BY <1>2 DEF Begin, ofCache
  <2>3. QED
    BY <2>1, <2>2, TellsNothing DEF Stages, Telling
<1>3. CASE Converted(x) \/ ReadRate(x) \/ ListRows(x) \/ ReadLevel(x) \/ ReadFails(x) \/ Finish(x)
  <2>1. PICK next \in {"idle", "level", "answered", "list", "judge", "rate"} :
          To(x, next) /\ step[x] \in {"convert", "rate", "list", "level", "answered"}
    <3>1. CASE Converted(x)
      BY <3>1 DEF Converted
    <3>2. CASE ReadRate(x)
      BY <3>2 DEF ReadRate, Leave
    <3>3. CASE ListRows(x) \/ ReadLevel(x)
      BY <3>3 DEF ListRows, ReadLevel
    <3>4. CASE ReadFails(x) \/ Finish(x)
      BY <3>4 DEF ReadFails, Finish, Leave
    <3>5. QED
      BY <1>3, <3>1, <3>2, <3>3, <3>4
  <2>2. UNCHANGED <<portCache, tellings, hushed, crossed>>
    BY <1>3 DEF Converted, ReadRate, ListRows, ReadLevel, ReadFails, Finish, ofCache
  <2>3. QED
    BY <2>1, <2>2, TellsNothing DEF Stages, Telling
<1>4. QED
  BY <1>1, <1>2, <1>3

(* However many reports run, fail and overlap: a fund is silent only after *)
(* it was told of, or the telling failed, or as it is about to be; and it  *)
(* is told of twice in two hours only when two runs both found it untold.  *)
THEOREM ToldOnce == DeskSpec => []ToldOnceAPeriod
<1>1. DeskInit => TellInv
  BY Untold
<1>2. TellInv /\ [DeskNext]_deskVars => TellInv'
  <2> SUFFICES ASSUME TellInv, [DeskNext]_deskVars PROVE TellInv'
    OBVIOUS
  <2>1. ASSUME NEW x \in Reports,
               \/ \E k \in Kinds : Begin(x, k)
               \/ Convert(x) \/ Converted(x) \/ ReadRate(x) \/ ListRows(x) \/ ReadLevel(x)
               \/ ReadFails(x) \/ Finish(x)
        PROVE  TellInv'
    BY <2>1, ReportsOn
  <2>2. ASSUME NEW x \in Reports, Judge(x) PROVE TellInv'
    BY <2>2, JudgedSafely
  <2>3. ASSUME NEW x \in Reports, SetPortCache(x) PROVE TellInv'
    BY <2>3, NotedSafely
  <2>4. ASSUME NEW x \in Reports, Tell(x) \/ OrderFails(x) PROVE TellInv'
    BY <2>4, ToldSafely
  <2>5. ASSUME NEW x \in Reports, NEW a \in Holdings, Spend(x, a) PROVE TellInv'
    BY <2>5, NothingTold DEF Spend, Book, report, ofCache
  <2>6. ASSUME NEW a \in Holdings, SellOut(a) \/ DeleteAsset(a) PROVE TellInv'
    BY <2>6, NothingTold DEF SellOut, DeleteAsset, Book, report, ofCache
  <2>7. CASE Reprice \/ RateAges
    BY <2>7, NothingTold DEF Reprice, RateAges, Book, report, ofCache
  <2>8. CASE CacheAges
    BY <2>8, AgedSafely
  <2>9. ASSUME NEW l \in Levels, ChangeMarketStatus(l) PROVE TellInv'
    BY <2>9, NothingTold DEF ChangeMarketStatus, report, ofCache
  <2>10. ASSUME NEW r \in DollarRates, MoveDollar(r) PROVE TellInv'
    BY <2>10, NothingTold DEF MoveDollar, report, ofCache
  <2>11. CASE UNCHANGED deskVars
    BY <2>11, NothingTold DEF deskVars, report, ofCache
  <2>12. QED
    BY <2>1, <2>2, <2>3, <2>4, <2>5, <2>6, <2>7, <2>8, <2>9, <2>10, <2>11 DEF DeskNext
<1>3. TellInv => ToldOnceAPeriod
  BY DEF TellInv, Told, Kept2Hours, OneTells, ToldOnceAPeriod
<1>4. QED
  BY <1>1, <1>2, <1>3, PTL DEF DeskSpec

-----------------------------------------------------------------------------
(* Numbers, finite sets and sums *)

(* Numbers and finite sets have no first one that is out of a collection.  *)
LEMMA AllNumbers ==
  ASSUME NEW M, 0 \in M, \A n \in Nat : n \in M => n + 1 \in M
  PROVE  \A n \in Nat : n \in M
<1> DEFINE Out == Nat \ M
<1>1. SUFFICES ASSUME Out # {} PROVE FALSE
  OBVIOUS
<1>2. Out \in SUBSET Nat
  OBVIOUS
<1>3. PICK i \in Out : \A j \in Out : i <= j
  <2> HIDE DEF Out
  <2> QED
    BY <1>1, <1>2, HasLeast
<1>4. i \in Nat \ {0} /\ i - 1 \in Nat
  OBVIOUS
<1>5. i - 1 \notin Out
  BY <1>3, <1>4
<1>6. QED
  BY <1>4, <1>5

LEMMA AllSubsets ==
  ASSUME NEW D, IsFiniteSet(D), NEW M,
         \A s \in SUBSET D : (\A t \in SUBSET s : t # s => t \in M) => s \in M
  PROVE  \A s \in SUBSET D : s \in M
<1>1. \A s \in SUBSET D : IsFiniteSet(s) /\ Cardinality(s) \in Nat
  BY FS_Subset, FS_CardinalityType
<1> DEFINE Out == {Cardinality(s) : s \in {s \in SUBSET D : s \notin M}}
<1>2. SUFFICES ASSUME Out # {} PROVE FALSE
  OBVIOUS
<1>3. Out \in SUBSET Nat
  BY <1>1
<1>4. PICK i \in Out : \A j \in Out : i <= j
  <2> HIDE DEF Out
  <2> QED
    BY <1>2, <1>3, HasLeast
<1>5. PICK s \in SUBSET D : s \notin M /\ i = Cardinality(s)
  OBVIOUS
<1>6. ASSUME NEW t \in SUBSET s, t # s PROVE t \in M
  <2>1. IsFiniteSet(s) /\ Cardinality(s) \in Nat /\ Cardinality(t) \in Nat
    BY <1>1
  <2>2. Cardinality(t) <= Cardinality(s) /\ Cardinality(t) # Cardinality(s)
    BY <1>6, <2>1, FS_Subset
  <2>3. Cardinality(t) \notin Out
    BY <1>4, <1>5, <2>1, <2>2
  <2>4. QED
    BY <2>3
<1>7. QED
  BY <1>5, <1>6

-----------------------------------------------------------------------------
(* Sums *)
Turn(s) == CHOOSE x \in s : TRUE
Added(f, g, s) == IF s = {} THEN 0 ELSE f[Turn(s)] + g[s \ {Turn(s)}]
Adds(f, g, S) == g = [s \in SUBSET S |-> Added(f, g, s)]

LEMMA TurnIsOf == \A s : s # {} => Turn(s) \in s /\ s \ {Turn(s)} \in SUBSET s /\ s \ {Turn(s)} # s
  BY DEF Turn

LEMMA AddsAlways ==
  ASSUME NEW D, NEW f \in [D -> Int], NEW S \in SUBSET D, IsFiniteSet(S)
  PROVE  \E g : Adds(f, g, S)
<1> DEFINE Upto(g, n) == \A s \in SUBSET S : Cardinality(s) <= n => g[s] = Added(f, g, s)
<1> DEFINE M == {n \in Nat : \E g \in [SUBSET S -> Int] : Upto(g, n)}
<1>1. \A s \in SUBSET S : IsFiniteSet(s) /\ Cardinality(s) \in Nat
  BY FS_Subset, FS_CardinalityType
<1>2. 0 \in M
  <2> DEFINE g == [s \in SUBSET S |-> 0]
  <2>1. Upto(g, 0)
    <3>1. \A s \in SUBSET S : Cardinality(s) <= 0 => s = {}
      BY <1>1, FS_EmptySet
    <3>2. QED
      BY <3>1 DEF Added
  <2>2. g \in [SUBSET S -> Int]
    OBVIOUS
  <2>3. QED
    BY <2>1, <2>2
<1>3. ASSUME NEW n \in Nat, n \in M PROVE n + 1 \in M
  <2>1. PICK g \in [SUBSET S -> Int] : Upto(g, n)
    BY <1>3
  <2> DEFINE h == [s \in SUBSET S |-> IF Cardinality(s) <= n THEN g[s] ELSE Added(f, g, s)]
  <2>2. ASSUME NEW s \in SUBSET S PROVE Added(f, g, s) \in Int
    <3>1. s # {} => Turn(s) \in D /\ s \ {Turn(s)} \in SUBSET S
      BY TurnIsOf
    <3>2. QED
      BY <3>1 DEF Added
  <2>3. h \in [SUBSET S -> Int]
    BY <2>2
  <2>4. ASSUME NEW s \in SUBSET S, Cardinality(s) <= n + 1 PROVE h[s] = Added(f, h, s)
    <3>1. h[s] = Added(f, g, s)
      BY <2>1
    <3>2. ASSUME s # {} PROVE h[s \ {Turn(s)}] = g[s \ {Turn(s)}]
      <4>1. s \ {Turn(s)} \in SUBSET S /\ Turn(s) \in s
        BY <3>2, TurnIsOf
      <4>2. Cardinality(s \ {Turn(s)}) = Cardinality(s) - 1
        BY <1>1, <4>1, FS_RemoveElement
      <4>3. Cardinality(s \ {Turn(s)}) <= n
        BY <1>1, <2>4, <4>2
      <4>4. QED
        BY <4>1, <4>3
    <3> HIDE DEF h, Upto, M
    <3>3. Added(f, h, s) = Added(f, g, s)
      <4>1. CASE s = {}
        BY <4>1 DEF Added
      <4>2. CASE s # {}
        BY <3>2, <4>2 DEF Added
      <4>3. QED
        BY <4>1, <4>2
    <3>4. QED
      BY <3>1, <3>3
  <2> HIDE DEF h
  <2>5. Upto(h, n + 1)
    BY <2>4
  <2>6. QED
    BY <2>3, <2>5
<1>4. \A n \in Nat : n \in M
  <2> HIDE DEF M
  <2> QED
    BY <1>2, <1>3, AllNumbers
<1>5. PICK g \in [SUBSET S -> Int] : Upto(g, Cardinality(S))
  BY <1>1, <1>4
<1>6. \A s \in SUBSET S : Cardinality(s) <= Cardinality(S)
  BY FS_Subset
<1>7. g = [s \in SUBSET S |-> Added(f, g, s)]
  BY <1>5, <1>6
<1>8. QED
  BY <1>7 DEF Adds

(* What adds up does so in one way only.                                   *)
LEMMA AddsOnce ==
  ASSUME NEW f, NEW S, NEW T \in SUBSET S, IsFiniteSet(S), NEW g, NEW h, Adds(f, g, S), Adds(f, h, T)
  PROVE  h[T] = g[T]
<1> DEFINE M == {s \in SUBSET T : h[s] = g[s]}
<1>1. IsFiniteSet(T)
  BY FS_Subset
<1>2. ASSUME NEW s \in SUBSET T, \A t \in SUBSET s : t # s => t \in M PROVE s \in M
  <2>1. h[s] = Added(f, h, s) /\ g[s] = Added(f, g, s)
    BY DEF Adds
  <2>2. s # {} => s \ {Turn(s)} \in M
    BY <1>2, TurnIsOf
  <2>3. QED
    BY <2>1, <2>2 DEF Added
<1>3. \A s \in SUBSET T : s \in M
  <2> HIDE DEF M
  <2> QED
    BY <1>1, <1>2, AllSubsets
<1>4. QED
  BY <1>3

(* The sum of what f has on a set.                                         *)
SumOf(f, S) == (CHOOSE g : Adds(f, g, S))[S]

LEMMA Sums ==
  ASSUME NEW D, IsFiniteSet(D), NEW f \in [D -> Int]
  PROVE  /\ SumOf(f, {}) = 0
         /\ \A S \in SUBSET D : S # {} => SumOf(f, S) = f[Turn(S)] + SumOf(f, S \ {Turn(S)})
         /\ \A S \in SUBSET D : SumOf(f, S) \in Int
<1> DEFINE G(S) == CHOOSE g : Adds(f, g, S)
<1>1. ASSUME NEW S \in SUBSET D PROVE Adds(f, G(S), S) /\ IsFiniteSet(S)
  <2>1. IsFiniteSet(S)
    BY FS_Subset
  <2>2. \E g : Adds(f, g, S)
    BY <2>1, AddsAlways
  <2>3. QED
    BY <2>1, <2>2
<1>2. \A S : SumOf(f, S) = G(S)[S]
  BY DEF SumOf
<1> HIDE DEF G
<1>3. ASSUME NEW S \in SUBSET D PROVE G(S)[S] = Added(f, G(S), S)
  BY <1>1 DEF Adds
<1>4. SumOf(f, {}) = 0
  BY <1>2, <1>3 DEF Added
<1>5. ASSUME NEW S \in SUBSET D, S # {}
      PROVE  SumOf(f, S) = f[Turn(S)] + SumOf(f, S \ {Turn(S)})
  <2>1. S \ {Turn(S)} \in SUBSET S /\ S \ {Turn(S)} \in SUBSET D
    OBVIOUS
  <2>2. G(S \ {Turn(S)})[S \ {Turn(S)}] = G(S)[S \ {Turn(S)}]
    BY <1>1, <2>1, AddsOnce
  <2>3. QED
    BY <1>2, <1>3, <1>5, <2>2 DEF Added
<1>6. \A S \in SUBSET D : SumOf(f, S) \in Int
  <2> DEFINE M == {S \in SUBSET D : SumOf(f, S) \in Int}
  <2>1. ASSUME NEW S \in SUBSET D, \A t \in SUBSET S : t # S => t \in M PROVE S \in M
    <3>1. CASE S = {}
      BY <1>4, <3>1
    <3>2. CASE S # {}
      <4>1. Turn(S) \in S /\ S \ {Turn(S)} \in M
        BY <2>1, <3>2, TurnIsOf
      <4>2. QED
        BY <1>5, <3>2, <4>1
    <3>3. QED
      BY <3>1, <3>2
  <2>2. \A S \in SUBSET D : S \in M
    <3> HIDE DEF M
    <3> QED
      BY <2>1, AllSubsets
  <2>3. QED
    BY <2>2
<1>7. QED
  BY <1>4, <1>5, <1>6

(* One after the other, in any order.                                      *)
LEMMA SumAdds ==
  ASSUME NEW D, IsFiniteSet(D), NEW f \in [D -> Int], NEW T \in SUBSET D, NEW a \in T
  PROVE  SumOf(f, T) = f[a] + SumOf(f, T \ {a})
<1> DEFINE M == {S \in SUBSET D : \A b \in S : SumOf(f, S) = f[b] + SumOf(f, S \ {b})}
<1>1. ASSUME NEW S \in SUBSET D, \A t \in SUBSET S : t # S => t \in M PROVE S \in M
  <2>1. ASSUME NEW b \in S PROVE SumOf(f, S) = f[b] + SumOf(f, S \ {b})
    <3>1. PICK x \in S : x = Turn(S)
      BY <2>1, TurnIsOf
    <3>2. SumOf(f, S) = f[x] + SumOf(f, S \ {x})
      BY <3>1, Sums
    <3>3. CASE x = b
      BY <3>2, <3>3
    <3>4. CASE x # b
      <4>1. S \ {x} \in M /\ S \ {b} \in M
        BY <1>1
      <4>2. SumOf(f, S \ {x}) = f[b] + SumOf(f, (S \ {x}) \ {b})
        BY <2>1, <3>4, <4>1
      <4>3. SumOf(f, S \ {b}) = f[x] + SumOf(f, (S \ {b}) \ {x})
        BY <3>4, <4>1
      <4>4. (S \ {b}) \ {x} = (S \ {x}) \ {b}
        OBVIOUS
      <4>5. f[x] \in Int /\ f[b] \in Int
        OBVIOUS
      <4>6. PICK rest \in Int : rest = SumOf(f, (S \ {x}) \ {b})
        BY Sums
      <4>7. SumOf(f, S) = f[x] + (f[b] + rest) /\ SumOf(f, S \ {b}) = f[x] + rest
        BY <3>2, <4>2, <4>3, <4>4, <4>6
      <4>8. QED
        BY <4>5, <4>7
    <3>5. QED
      BY <3>3, <3>4
  <2>2. QED
    BY <2>1
<1>2. \A S \in SUBSET D : S \in M
  <2> HIDE DEF M
  <2> QED
    BY <1>1, AllSubsets
<1>3. QED
  BY <1>2

(* Sums of the same numbers are the same, and zeros do not count.          *)
LEMMA SumsAgree ==
  ASSUME NEW D, IsFiniteSet(D), NEW f \in [D -> Int], NEW h \in [D -> Int],
         NEW S \in SUBSET D, NEW T \in SUBSET S,
         \A a \in T : f[a] = h[a], \A a \in S \ T : f[a] = 0
  PROVE  SumOf(f, S) = SumOf(h, T)
<1> DEFINE M == {s \in SUBSET S : SumOf(f, s) = SumOf(h, s \cap T)}
<1>1. IsFiniteSet(S)
  BY FS_Subset
<1>2. ASSUME NEW s \in SUBSET S, \A t \in SUBSET s : t # s => t \in M PROVE s \in M
  <2>1. CASE s = {}
    BY <2>1, Sums
  <2>2. CASE s # {}
    <3>1. PICK a \in s : TRUE
      BY <2>2
    <3>2. SumOf(f, s \ {a}) = SumOf(h, (s \ {a}) \cap T)
      BY <1>2
    <3>3. s \in SUBSET D /\ s \cap T \in SUBSET D
      OBVIOUS
    <3>4. SumOf(f, s) = f[a] + SumOf(f, s \ {a})
      BY <3>3, SumAdds
    <3>5. CASE a \in T
      <4>1. SumOf(h, s \cap T) = h[a] + SumOf(h, (s \cap T) \ {a})
        BY <3>3, <3>5, SumAdds
      <4>2. (s \cap T) \ {a} = (s \ {a}) \cap T
        OBVIOUS
      <4>3. QED
        BY <3>2, <3>4, <3>5, <4>1, <4>2
    <3>6. CASE a \notin T
      <4>1. (s \ {a}) \cap T = s \cap T /\ f[a] = 0
        BY <3>6
      <4>2. PICK rest \in Int : rest = SumOf(f, s \ {a})
        BY <3>3, Sums
      <4>3. SumOf(f, s) = 0 + rest /\ SumOf(h, s \cap T) = rest
        BY <3>2, <3>4, <4>1, <4>2
      <4>4. QED
        BY <4>2, <4>3
    <3>7. QED
      BY <3>5, <3>6
  <2>3. QED
    BY <2>1, <2>2
<1>3. \A s \in SUBSET S : s \in M
  <2> HIDE DEF M
  <2> QED
    BY <1>1, <1>2, AllSubsets
<1>4. S \cap T = T
  OBVIOUS
<1>5. QED
  BY <1>3, <1>4

-----------------------------------------------------------------------------
(* The amounts of a report are such sums.                                  *)
Worths(k, rs, cs) == [a \in Holdings |-> Worth(k, a, rs, cs)]
Counts(k, rs, cs, g, S) ==
  g = [s \in SUBSET S |->
         IF s = {} THEN 0
         ELSE Worth(k, CHOOSE x \in s : TRUE, rs, cs) + g[s \ {CHOOSE x \in s : TRUE}]]

LEMMA AmountsAreSums ==
  ASSUME NEW k, NEW rs, NEW cs, NEW S \in SUBSET Holdings, IsFiniteSet(Holdings),
         Worths(k, rs, cs) \in [Holdings -> Int]
  PROVE  Amount(k, S, rs, cs) = SumOf(Worths(k, rs, cs), S)
<1> DEFINE f == Worths(k, rs, cs)
<1> DEFINE G == CHOOSE g : Counts(k, rs, cs, g, S)
<1>1. Amount(k, S, rs, cs) = G[S]
  BY DEF Amount, MapThenSumSet, MapThenFoldSet, Counts
<1>2. \A a \in S : f[a] = Worth(k, a, rs, cs)
  BY DEF Worths
<1> HIDE DEF f, G
<1>3. ASSUME NEW g PROVE Counts(k, rs, cs, g, S) <=> Adds(f, g, S)
  <2>1. [s \in SUBSET S |->
           IF s = {} THEN 0
           ELSE Worth(k, CHOOSE x \in s : TRUE, rs, cs) + g[s \ {CHOOSE x \in s : TRUE}]]
         = [s \in SUBSET S |-> Added(f, g, s)]
    BY <1>2 DEF Added, Turn
  <2>2. QED
    BY <2>1 DEF Counts, Adds
<1>4. IsFiniteSet(S)
  BY FS_Subset
<1>5. f \in [Holdings -> Int]
  BY DEF f
<1>6. \E g : Adds(f, g, S)
  BY <1>4, <1>5, AddsAlways
<1>7. Adds(f, G, S)
  BY <1>3, <1>6 DEF G
<1>8. Adds(f, CHOOSE g : Adds(f, g, S), S)
  BY <1>6
<1>9. G[S] = (CHOOSE g : Adds(f, g, S))[S]
  BY <1>4, <1>7, <1>8, AddsOnce
<1>10. QED
  BY <1>1, <1>9 DEF SumOf, f

-----------------------------------------------------------------------------
(* What reports answer *)

Rates == DollarRates \cup {0, Unread}
Pending(k, rs, cs) == {a \in Converting(k, rs) : rs[a].held /\ cs[a] = Unread}
UsedBy(k, rs, cs) == {cs[a] : a \in Converting(k, rs) \ Sold(rs)} \ {Unread}

LEMMA Constants ==
  /\ IsFiniteSet(Holdings) /\ Won \in Holdings /\ Won \in Stable /\ Won \notin InDollars
  /\ Stable \subseteq Holdings /\ InDollars \subseteq Holdings
  /\ FirstSums \subseteq [Holdings -> Int] /\ DollarRates \subseteq Nat \ {0} /\ Levels \subseteq 1..5
  /\ Gain \in Nat /\ Rates \subseteq Int
  BY PortfolioAssumption DEF PortfolioAssumption, Rates, Unread

LEMMA WorthsAreNumbers ==
  ASSUME NEW k, NEW rs \in Books, NEW cs \in [Holdings -> Rates]
  PROVE  Worths(k, rs, cs) \in [Holdings -> Int]
<1>1. ASSUME NEW a \in Holdings PROVE Worth(k, a, rs, cs) \in Int
  <2>1. rs[a].sum \in Int /\ cs[a] \in Int
    BY Constants DEF Books
  <2>2. rs[a].sum * cs[a] \in Int
    BY <2>1
  <2>3. QED
    BY <2>1, <2>2 DEF Worth
<1>2. QED
  BY <1>1 DEF Worths

LEMMA AmountIsSum ==
  ASSUME NEW k, NEW rs \in Books, NEW cs \in [Holdings -> Rates], NEW S \in SUBSET Holdings
  PROVE  /\ Amount(k, S, rs, cs) = SumOf(Worths(k, rs, cs), S)
         /\ Amount(k, S, rs, cs) \in Int
<1>1. Worths(k, rs, cs) \in [Holdings -> Int]
  BY WorthsAreNumbers
<1>2. Amount(k, S, rs, cs) = SumOf(Worths(k, rs, cs), S)
  BY <1>1, AmountsAreSums, Constants
<1>3. SumOf(Worths(k, rs, cs), S) \in Int
  BY <1>1, Sums, Constants
<1>4. QED
  BY <1>2, <1>3

LEMMA LevelsAllow ==
  \A l \in Levels : /\ MaxVolatileAssetRate[l] \in {15, 20, 25, 30, 40}
                    /\ MinVolatileAssetRate[l] \in Nat
<1>1. ASSUME NEW l \in Levels
      PROVE  MaxVolatileAssetRate[l] \in {15, 20, 25, 30, 40} /\ MinVolatileAssetRate[l] \in Nat
  <2>1. l \in 1..5
    BY Constants
  <2>2. l = 1 \/ l = 2 \/ l = 3 \/ l = 4 \/ l = 5
    BY <2>1
  <2>3. QED
    BY <2>2 DEF MaxVolatileAssetRate, MinVolatileAssetRate
<1>2. QED
  BY <1>1

(* All that is answered is a number.                                       *)
LEMMA AnswersAreNumbers ==
  ASSUME NEW k \in {"total", "portion", "available"}, NEW rs \in Books,
         NEW cs \in [Holdings -> Rates], NEW l, k = "available" => l \in Levels
  PROVE  /\ Total(k, rs, cs) \in Int /\ Volatile(k, rs, cs) \in Int
         /\ k # "portion" => Answer(k, Total(k, rs, cs), Volatile(k, rs, cs), l) \in Int
<1>1. Total(k, rs, cs) \in Int /\ Volatile(k, rs, cs) \in Int
  BY AmountIsSum DEF Total, Volatile, Counted
<1>2. CASE k = "available"
  <2>1. MaxVolatileAssetRate[l] \in Int
    BY <1>2, LevelsAllow
  <2>2. (MaxVolatileAssetRate[l] * Total(k, rs, cs)) \in Int
    BY <1>1, <2>1
  <2>3. (MaxVolatileAssetRate[l] * Total(k, rs, cs)) \div 100 \in Int
    BY <2>2
  <2>4. QED
    BY <1>1, <1>2, <2>3 DEF Answer, InvestAvailableAmount
<1>3. CASE k # "available"
  BY <1>1, <1>3 DEF Answer
<1>4. QED
  BY <1>2, <1>3

-----------------------------------------------------------------------------
(* Spending fills the portion *)

LEMMA SumShifts ==
  ASSUME NEW D, IsFiniteSet(D), NEW f \in [D -> Int], NEW h \in [D -> Int],
         NEW S \in SUBSET D, NEW a \in S, NEW n \in Int,
         h[a] = f[a] + n, \A b \in S \ {a} : h[b] = f[b]
  PROVE  SumOf(h, S) = SumOf(f, S) + n
<1>1. SumOf(h, S) = h[a] + SumOf(h, S \ {a}) /\ SumOf(f, S) = f[a] + SumOf(f, S \ {a})
  BY SumAdds
<1>2. S \ {a} \in SUBSET D /\ (S \ {a}) \ (S \ {a}) = {}
  OBVIOUS
<1>3. SumOf(h, S \ {a}) = SumOf(f, S \ {a})
  BY <1>2, SumsAgree
<1>4. PICK rest \in Int : rest = SumOf(f, S \ {a})
  BY <1>2, Sums
<1>5. SumOf(h, S) = (f[a] + n) + rest /\ SumOf(f, S) = f[a] + rest /\ f[a] \in Int
  BY <1>1, <1>3, <1>4
<1>6. QED
  BY <1>5

(* The holdings after rs is spent on a.                                    *)
Spent(rs, a, n) == [rs EXCEPT ![a].held = TRUE, ![a].sum = @ + n, ![Won].sum = @ - n]

LEMMA SpentRows ==
  ASSUME NEW rs \in Books, NEW a \in Holdings \ {Won}, NEW n \in Int
  PROVE  /\ Spent(rs, a, n) \in Books
         /\ Spent(rs, a, n)[a] = [held |-> TRUE, live |-> rs[a].live, sum |-> rs[a].sum + n]
         /\ Spent(rs, a, n)[Won] = [held |-> rs[Won].held, live |-> rs[Won].live, sum |-> rs[Won].sum - n]
         /\ \A b \in Holdings \ {a, Won} : Spent(rs, a, n)[b] = rs[b]
         /\ \A b \in Holdings : Spent(rs, a, n)[b].live = rs[b].live
<1>1. /\ Spent(rs, a, n)[a] = [held |-> TRUE, live |-> rs[a].live, sum |-> rs[a].sum + n]
      /\ Spent(rs, a, n)[Won] = [held |-> rs[Won].held, live |-> rs[Won].live, sum |-> rs[Won].sum - n]
      /\ \A b \in Holdings \ {a, Won} : Spent(rs, a, n)[b] = rs[b]
      /\ DOMAIN Spent(rs, a, n) = Holdings
  <2>1. /\ DOMAIN rs = Holdings /\ rs = [b \in Holdings |-> rs[b]] /\ a # Won /\ {a, Won} \subseteq Holdings
        /\ \A b \in Holdings : rs[b] = [held |-> rs[b].held, live |-> rs[b].live, sum |-> rs[b].sum]
    BY Constants DEF Books
  <2>2. /\ DOMAIN Spent(rs, a, n) = Holdings
        /\ \A b \in Holdings \ {a, Won} : Spent(rs, a, n)[b] = rs[b]
    BY <2>1 DEF Spent
  <2>3. Spent(rs, a, n)[a] = [held |-> TRUE, live |-> rs[a].live, sum |-> rs[a].sum + n]
    <3>1. Spent(rs, a, n)[a] = [[rs[a] EXCEPT !.held = TRUE] EXCEPT !.sum = rs[a].sum + n]
      BY <2>1 DEF Spent
    <3>2. rs[a] = [held |-> rs[a].held, live |-> rs[a].live, sum |-> rs[a].sum]
      BY <2>1
    <3>3. QED
      BY <3>1, <3>2
  <2>4. Spent(rs, a, n)[Won] = [held |-> rs[Won].held, live |-> rs[Won].live, sum |-> rs[Won].sum - n]
    BY <2>1 DEF Spent
  <2>5. QED
    BY <2>2, <2>3, <2>4
<1>2. \A b \in Holdings : rs[b].sum \in Int /\ rs[b].held \in BOOLEAN /\ rs[b].live \in BOOLEAN
  BY DEF Books
<1>3. \A b \in Holdings : Spent(rs, a, n)[b] \in [held : BOOLEAN, live : BOOLEAN, sum : Int]
  <2>1. Spent(rs, a, n)[a] \in [held : BOOLEAN, live : BOOLEAN, sum : Int]
    BY <1>1, <1>2
  <2>2. Spent(rs, a, n)[Won] \in [held : BOOLEAN, live : BOOLEAN, sum : Int]
    BY <1>1, <1>2, Constants
  <2>3. \A b \in Holdings \ {a, Won} : Spent(rs, a, n)[b] \in [held : BOOLEAN, live : BOOLEAN, sum : Int]
    BY <1>1 DEF Books
  <2>4. QED
    BY <2>1, <2>2, <2>3
<1>4. Spent(rs, a, n) \in Books
  <2>1. Spent(rs, a, n) = [b \in Holdings |-> Spent(rs, a, n)[b]]
    BY <1>1, ZenonT(60) DEF Spent, Books
  <2>2. QED
    BY <1>3, <2>1 DEF Books
<1>5. \A b \in Holdings : Spent(rs, a, n)[b].live = rs[b].live
  BY <1>1
<1>6. QED
  BY <1>1, <1>4, <1>5

(* The available amount n, at rate r, is spent on a volatile asset that    *)
(* has nothing left of what was sold.                                      *)
MaySpend(rs, cs, a, l, n, r) ==
  /\ rs[a].live /\ rs[Won].live /\ rs[Won].held /\ (rs[a].held \/ rs[a].sum = 0)
  /\ n = InvestAvailableAmount(Total("available", rs, cs), Volatile("available", rs, cs), l)
  /\ Pending("available", rs, cs) = {} /\ UsedBy("available", rs, cs) \subseteq {r}

(* A portion is computed from rs, at rate r.                               *)
Shows(rs, cs, r) == Pending("portion", rs, cs) = {} /\ UsedBy("portion", rs, cs) \subseteq {r}

Filled(rs, cs, l) ==
  Volatile("portion", rs, cs) = (MaxVolatileAssetRate[l] * Total("portion", rs, cs)) \div 100

LEMMA SpendingFills ==
  ASSUME NEW rs \in Books, NEW cs \in [Holdings -> Rates], NEW ds \in [Holdings -> Rates],
         NEW a \in Holdings \ (Stable \cup InDollars), NEW l \in Levels, NEW n \in Int, NEW r,
         MaySpend(rs, cs, a, l, n, r), Shows(Spent(rs, a, n), ds, r)
  PROVE  Filled(Spent(rs, a, n), ds, l)
<1> USE DEF MaySpend, Shows, Filled
<1> DEFINE rt == Spent(rs, a, n)
           f == Worths("available", rs, cs)
           h == Worths("portion", rt, ds)
           S == Holdings \ Sold(rs)
           T == Holdings \ Sold(rt)
<1>1. /\ rt \in Books /\ a # Won
      /\ rt[a] = [held |-> TRUE, live |-> rs[a].live, sum |-> rs[a].sum + n]
      /\ rt[Won] = [held |-> rs[Won].held, live |-> rs[Won].live, sum |-> rs[Won].sum - n]
      /\ \A b \in Holdings \ {a, Won} : rt[b] = rs[b]
      /\ \A b \in Holdings : rt[b].live = rs[b].live
  <2>1. a \in Holdings \ {Won}
    BY Constants
  <2> HIDE DEF f, h, S, T
  <2>2. rs \in Books /\ n \in Int
    OBVIOUS
  <2>3. QED
    BY ONLY <2>1, <2>2, SpentRows DEF rt
<1> HIDE DEF rt
<1>2. f \in [Holdings -> Int] /\ h \in [Holdings -> Int]
  BY <1>1, WorthsAreNumbers
<1>3. T = S \cup {a} /\ Won \in S /\ Won \in T /\ a \in T
  BY <1>1, Constants DEF Sold
<1>4. Converting("portion", rt) = Converting("available", rs) /\ IsStable(rt) = IsStable(rs)
  BY <1>1, Constants DEF Converting, IsStable
<1> DEFINE C == Converting("available", rs)
<1>5. a \notin C /\ Won \notin C
  BY Constants DEF Converting
<1>6. /\ f[a] = rs[a].sum /\ f[Won] = rs[Won].sum
      /\ h[a] = rs[a].sum + n /\ h[Won] = rs[Won].sum - n
  BY <1>1, <1>4, <1>5, Constants DEF Worths, Worth
<1>7. ASSUME NEW b \in T \ {a, Won} PROVE h[b] = f[b]
  <2>1. b \in S /\ b \in Holdings /\ rt[b] = rs[b]
    BY <1>1, <1>3
  <2>2. CASE b \notin C
    BY <1>4, <2>1, <2>2 DEF Worths, Worth
  <2>3. CASE b \in C
    <3>1. rs[b].held /\ rt[b].held /\ b \notin Sold(rs) /\ b \notin Sold(rt)
      BY <2>1 DEF Sold
    <3>2. cs[b] # Unread /\ ds[b] # Unread
      BY <1>4, <2>3, <3>1 DEF Pending, rt
    <3>3. cs[b] \in UsedBy("available", rs, cs) /\ ds[b] \in UsedBy("portion", rt, ds)
      BY <1>4, <2>3, <3>1, <3>2 DEF UsedBy
    <3>4. cs[b] = r /\ ds[b] = r
      BY <3>3 DEF rt
    <3>5. QED
      BY <1>4, <2>1, <2>3, <3>4 DEF Worths, Worth
  <2>4. QED
    BY <2>2, <2>3
<1> DEFINE V == T \ IsStable(rs)
<1>8. Won \notin V /\ a \in V
  BY <1>3, Constants DEF IsStable
<1>9. /\ Total("available", rs, cs) = SumOf(f, S)
      /\ Volatile("available", rs, cs) = SumOf(f, S \ IsStable(rs))
  BY AmountIsSum DEF Total, Volatile, Counted
<1>10. Total("portion", rt, ds) = SumOf(h, T) /\ Volatile("portion", rt, ds) = SumOf(h, V)
  BY <1>1, <1>4, AmountIsSum DEF Total, Volatile, Counted
<1> HIDE DEF f, h, S, T, V, C
<1>11. S \in SUBSET Holdings /\ T \in SUBSET Holdings /\ V \in SUBSET T /\ V \in SUBSET Holdings
  BY DEF S, T, V
<1>12. S \in SUBSET T /\ \A b \in T \ S : f[b] = 0
  <2>1. a \in S \/ f[a] = 0
    BY <1>6 DEF S, Sold
  <2>2. QED
    BY <1>3, <2>1
<1>13. SumOf(f, T) = SumOf(f, S)
  BY <1>2, <1>11, <1>12, SumsAgree, Constants
<1>14. SumOf(f, V) = SumOf(f, S \ IsStable(rs))
  <2>1. S \ IsStable(rs) \in SUBSET V /\ \A b \in V \ (S \ IsStable(rs)) : f[b] = 0
    BY <1>12 DEF V
  <2>2. QED
    BY <1>2, <1>11, <2>1, SumsAgree, Constants
<1> DEFINE g == [f EXCEPT ![a] = f[a] + n]
<1>15. /\ g \in [Holdings -> Int] /\ g[a] = f[a] + n /\ g[Won] = f[Won]
       /\ \A b \in T \ {a} : g[b] = f[b]
  BY <1>1, <1>2, <1>3, <1>11, Constants
<1> HIDE DEF g
<1>16. SumOf(g, T) = SumOf(f, T) + n
  BY <1>2, <1>3, <1>11, <1>15, SumShifts, Constants
<1>17. h[Won] = g[Won] + (-n) /\ -n \in Int /\ \A b \in T \ {Won} : h[b] = g[b]
  <2>1. h[Won] = g[Won] + (-n)
    <3>1. rs[Won].sum \in Int
      BY Constants DEF Books
    <3>2. QED
      BY <1>6, <1>15, <3>1
  <2>2. ASSUME NEW b \in T \ {Won} PROVE h[b] = g[b]
    BY <1>6, <1>7, <1>15
  <2>3. QED
    BY <2>1, <2>2
<1>18. SumOf(h, T) = SumOf(g, T) + (-n)
  BY <1>2, <1>3, <1>11, <1>15, <1>17, SumShifts, Constants
<1>19. SumOf(h, V) = SumOf(f, V) + n
  <2>1. h[a] = f[a] + n /\ \A b \in V \ {a} : h[b] = f[b]
    BY <1>6, <1>7, <1>8, <1>11
  <2>2. QED
    BY <1>2, <1>8, <1>11, <2>1, SumShifts, Constants
<1>20. PICK all \in Int, part \in Int : all = SumOf(f, S) /\ part = SumOf(f, S \ IsStable(rs))
  BY <1>2, <1>11, Sums, Constants
<1>21. SumOf(h, T) = all /\ SumOf(h, V) = part + n
  BY <1>13, <1>14, <1>16, <1>18, <1>19, <1>20
<1>22. n = (MaxVolatileAssetRate[l] * all) \div 100 - part
  BY <1>9, <1>20 DEF InvestAvailableAmount
<1>23. (MaxVolatileAssetRate[l] * all) \div 100 \in Int
  <2>1. MaxVolatileAssetRate[l] \in Int
    BY LevelsAllow
  <2>2. MaxVolatileAssetRate[l] * all \in Int
    BY <2>1
  <2>3. QED
    BY <2>2
<1>24. SumOf(h, V) = (MaxVolatileAssetRate[l] * all) \div 100
  BY <1>21, <1>22, <1>23
<1>25. QED
  BY <1>10, <1>21, <1>24 DEF rt

(* A portion that is cut shows the percent meant or one less.              *)
LEMMA PortionIsCut ==
  ASSUME NEW all \in Int, all >= 100, NEW p \in {15, 20, 25, 30, 40}
  PROVE  FundPortion(all, (p * all) \div 100) \in {p - 1, p}
<1> DEFINE part == (p * all) \div 100
<1>1. part \in Int /\ 100 * part <= p * all /\ p * all < 100 * part + 100
  BY Z3
<1> DEFINE shown == (100 * part) \div all
<1>2. shown \in Int /\ all * shown <= 100 * part /\ 100 * part < all * shown + all
  BY <1>1, Z3
<1>3. FundPortion(all, part) = shown
  <2>1. p * all >= 1500
    BY Z3
  <2>2. 100 * part >= 0
    BY <1>1, <2>1
  <2>3. Cut(100 * part, all) = shown
    <3> HIDE DEF part
    <3> QED
      BY <1>1, <2>2 DEF Cut, Size
  <2>4. QED
    BY <2>3 DEF FundPortion
<1> HIDE DEF part, shown
<1>4. PICK c \in Int, d \in Int : c = all * (p - shown) /\ d = p - shown
  BY <1>2
<1>5. c >= 0 /\ c < all + 100
  BY <1>1, <1>2, <1>4, Z3
<1>6. c = all * d
  BY <1>4
<1>7. d >= 0
  BY <1>5, <1>6, Z3
<1>8. d < 2
  BY <1>5, <1>6, Z3
<1>9. shown = p - d /\ (d = 0 \/ d = 1)
  BY <1>2, <1>4, <1>7, <1>8
<1>10. QED
  BY <1>2, <1>3, <1>9 DEF part

-----------------------------------------------------------------------------
(* An answer of one moment *)

WorthsAt(m, r) == [a \in Holdings |-> WorthAt(a, m, r)]
CountsAt(m, r, g, S) ==
  g = [s \in SUBSET S |->
         IF s = {} THEN 0
         ELSE WorthAt(CHOOSE x \in s : TRUE, m, r) + g[s \ {CHOOSE x \in s : TRUE}]]

LEMMA MomentsAreSums ==
  ASSUME NEW m, NEW r, NEW S \in SUBSET Holdings, WorthsAt(m, r) \in [Holdings -> Int]
  PROVE  SumAt(S, m, r) = SumOf(WorthsAt(m, r), S)
<1> DEFINE f == WorthsAt(m, r)
<1> DEFINE G == CHOOSE g : CountsAt(m, r, g, S)
<1>1. SumAt(S, m, r) = G[S]
  BY DEF SumAt, MapThenSumSet, MapThenFoldSet, CountsAt
<1>2. \A a \in S : f[a] = WorthAt(a, m, r)
  BY DEF WorthsAt
<1> HIDE DEF f, G
<1>3. ASSUME NEW g PROVE CountsAt(m, r, g, S) <=> Adds(f, g, S)
  <2>1. [s \in SUBSET S |->
           IF s = {} THEN 0
           ELSE WorthAt(CHOOSE x \in s : TRUE, m, r) + g[s \ {CHOOSE x \in s : TRUE}]]
         = [s \in SUBSET S |-> Added(f, g, s)]
    BY <1>2 DEF Added, Turn
  <2>2. QED
    BY <2>1 DEF CountsAt, Adds
<1>4. IsFiniteSet(S)
  BY FS_Subset, Constants
<1>5. f \in [Holdings -> Int]
  BY DEF f
<1>6. \E g : Adds(f, g, S)
  BY <1>4, <1>5, AddsAlways
<1>7. Adds(f, G, S)
  BY <1>3, <1>6 DEF G
<1>8. Adds(f, CHOOSE g : Adds(f, g, S), S)
  BY <1>6
<1>9. G[S] = (CHOOSE g : Adds(f, g, S))[S]
  BY <1>4, <1>7, <1>8, AddsOnce
<1>10. QED
  BY <1>1, <1>9 DEF SumOf, f

LEMMA OneMoment ==
  ASSUME NEW k \in {"total", "portion", "available"}, NEW m \in [rows : Books, level : Levels],
         NEW cs \in [Holdings -> Rates], NEW r \in DollarRates, NEW l, k = "available" => l = m.level,
         \A a \in Converting(k, m.rows) \ Sold(m.rows) : cs[a] = r,
         \A a \in Holdings : m.rows[a].live \/ m.rows[a].sum = 0,
         k = "total" => \A a \in Sold(m.rows) : m.rows[a].sum = 0,
         ~(k = "portion" /\ Total(k, m.rows, cs) = 0 /\ Volatile(k, m.rows, cs) # 0)
  PROVE  Answer(k, Total(k, m.rows, cs), Volatile(k, m.rows, cs), l) = AnswerAt(k, m, r)
<1> DEFINE rs == m.rows
           f == Worths(k, rs, cs)
           h == WorthsAt(m, r)
           S == Counted(k, rs)
           T == {a \in Holdings : rs[a].held}
<1>1. rs \in Books /\ \A a \in Holdings : rs[a].sum \in Int /\ cs[a] \in Int /\ r \in Int
  <2>1. rs \in Books /\ r \in Int
    BY Constants
  <2>2. \A a \in Holdings : cs[a] \in Int
    BY Constants
  <2>3. \A a \in Holdings : rs[a].sum \in Int
    BY <2>1 DEF Books
  <2>4. QED
    BY <2>1, <2>2, <2>3
<1>2. f \in [Holdings -> Int]
  BY <1>1, WorthsAreNumbers
<1>3. h \in [Holdings -> Int]
  <2>1. ASSUME NEW a \in Holdings PROVE WorthAt(a, m, r) \in Int
    <3>1. rs[a].sum * r \in Int /\ rs[a].sum * 1 \in Int
      BY <1>1
    <3>2. QED
      BY <3>1 DEF WorthAt
  <2>2. QED
    BY <2>1 DEF WorthsAt
<1>4. ASSUME NEW a \in Holdings, rs[a].sum = 0 PROVE f[a] = 0 /\ h[a] = 0
  <2>1. 0 * cs[a] = 0 /\ 0 * r = 0 /\ 0 * 1 = 0
    BY <1>1
  <2>2. QED
    BY <1>4, <2>1 DEF Worths, Worth, WorthsAt, WorthAt
<1>5. ASSUME NEW a \in T PROVE f[a] = h[a]
  <2>1. a \in Holdings /\ a \notin Sold(rs)
    BY DEF Sold
  <2>2. CASE rs[a].sum = 0
    BY <1>4, <2>1, <2>2
  <2>3. CASE rs[a].sum # 0
    <3>1. rs[a].live
      BY <2>1, <2>3
    <3>2. CASE a \in InDollars
      <4>1. a \in Converting(k, rs) /\ cs[a] = r
        BY <2>1, <3>1, <3>2 DEF Converting
      <4>2. QED
        BY <2>1, <3>2, <4>1 DEF Worths, Worth, WorthsAt, WorthAt
    <3>3. CASE a \notin InDollars
      <4>1. a \notin Converting(k, rs)
        BY <3>1, <3>3 DEF Converting
      <4>2. rs[a].sum * 1 = rs[a].sum
        BY <1>1, <2>1
      <4>3. QED
        BY <2>1, <3>3, <4>1, <4>2 DEF Worths, Worth, WorthsAt, WorthAt
    <3>4. QED
      BY <3>2, <3>3
  <2>4. QED
    BY <2>2, <2>3
<1>6. /\ T \in SUBSET S /\ S \in SUBSET Holdings
      /\ \A a \in S \ T : rs[a].sum = 0
  BY DEF Counted, Sold
<1>7. /\ T \ Stable \in SUBSET (S \ IsStable(rs))
      /\ \A a \in (S \ IsStable(rs)) \ (T \ Stable) : rs[a].sum = 0
  BY <1>6 DEF IsStable
<1>8. /\ Total(k, rs, cs) = SumOf(f, S) /\ Total(k, rs, cs) \in Int
      /\ Volatile(k, rs, cs) = SumOf(f, S \ IsStable(rs)) /\ Volatile(k, rs, cs) \in Int
  BY <1>1, <1>6, AmountIsSum DEF Total, Volatile
<1>9. SumAt(T, m, r) = SumOf(h, T) /\ SumAt(T \ Stable, m, r) = SumOf(h, T \ Stable)
  BY <1>3, MomentsAreSums
<1> HIDE DEF f, h, S, T
<1>10. SumOf(f, S) = SumOf(h, T)
  <2>1. \A a \in S \ T : f[a] = 0
    BY <1>4, <1>6
  <2>2. QED
    BY <1>2, <1>3, <1>5, <1>6, <2>1, SumsAgree, Constants
<1>11. SumOf(f, S \ IsStable(rs)) = SumOf(h, T \ Stable)
  <2>1. S \ IsStable(rs) \in SUBSET Holdings
    BY <1>6
  <2>2. \A a \in (S \ IsStable(rs)) \ (T \ Stable) : f[a] = 0
    BY <1>4, <1>6, <1>7
  <2>3. \A a \in T \ Stable : f[a] = h[a]
    BY <1>5
  <2>4. QED
    BY <1>2, <1>3, <1>7, <2>1, <2>2, <2>3, SumsAgree, Constants
<1>12. PICK all \in Int, part \in Int :
         /\ all = Total(k, rs, cs) /\ all = SumAt(T, m, r)
         /\ part = Volatile(k, rs, cs) /\ part = SumAt(T \ Stable, m, r)
  BY <1>8, <1>9, <1>10, <1>11
<1>13. AnswerAt(k, m, r) =
         CASE k = "total" -> all
           [] k = "portion" -> IF all = 0 THEN 0 ELSE Cut(100 * part, all)
           [] OTHER -> (MaxVolatileAssetRate[m.level] * all) \div 100 - part
  BY <1>12 DEF AnswerAt, T
<1>14. CASE k = "total"
  BY <1>12, <1>13, <1>14 DEF Answer
<1>15. CASE k = "portion"
  BY <1>12, <1>13, <1>15 DEF Answer, FundPortion
<1>16. CASE k = "available"
  BY <1>12, <1>13, <1>16 DEF Answer, InvestAvailableAmount
<1>17. QED
  BY <1>14, <1>15, <1>16

-----------------------------------------------------------------------------
(* The reports under way *)

Answering == {"total", "portion", "available"}
RowsRead(k, s) == k \in Answering /\ ~(k = "total" /\ s \in {"rate", "list"})

(* What a report reports, by where it is.                                  *)
Reporting(s, k) ==
  /\ s = "idle" => k = "none"
  /\ s = "convert" => k \in {"portion", "available"}
  /\ s = "rate" => k \in {"total", "message"}
  /\ s = "list" => k = "total"
  /\ s = "level" => k \in {"available", "message"}
  /\ s = "answered" => k \in Answering
  /\ s \in {"judge", "mark", "order"} => k = "message"

(* The rates it has converted with.                                        *)
Rated(s, k, sn, cv, rts) ==
  /\ k \in {"portion", "available"} /\ s \in {"level", "answered"} => Pending(k, sn, cv) = {}
  /\ k = "total" /\ s \in {"list", "answered"} =>
       \E r \in rts \cup {0} : cv = [a \in Holdings |-> r]
  /\ s \in {"judge", "mark", "order"} => 0 \notin UsedBy(k, sn, cv)

(* The moments it has read the rows and the level at.                      *)
Read(s, k, sn, lv, ms) ==
  /\ RowsRead(k, s) => sn \in Books /\ \E m \in ms : m.rows = sn
  /\ k = "message" => sn \in Books
  /\ k = "available" /\ s = "answered" => \E m \in ms : m.level = lv

Course(s, k, sn, cv, lv, ms, rts) ==
  /\ Reporting(s, k) /\ Rated(s, k, sn, cv, rts) /\ Read(s, k, sn, lv, ms)
  /\ IsFiniteSet(ms)

Moments == [rows : Books, level : Levels]

Shapes ==
  /\ step \in [Reports -> Stages] /\ kind \in [Reports -> Kinds \cup {"none"}]
  /\ seen \in [Reports -> Books \cup {<<>>}]
  /\ conv \in [Reports -> [Holdings -> rates \cup {0, Unread}]]
  /\ lvl \in [Reports -> Levels \cup {0}] /\ moments \in [Reports -> SUBSET Moments]

Courses ==
  \A x \in Reports :
    /\ Course(step[x], kind[x], seen[x], conv[x], lvl[x], moments[x], rates)
    /\ kind[x] \in Answering => [rows |-> rows, level |-> level] \in moments[x]

(* Cash is never sold out, and every rate read is one the dollar has had.  *)
Fund ==
  /\ rows \in Books /\ rows[Won].held /\ level \in Levels
  /\ usd \in rates /\ known \in rates \cup {0} /\ rates \subseteq DollarRates

Cached == portCache \in BOOLEAN /\ tellings \in Nat /\ hushed \in BOOLEAN /\ crossed \in BOOLEAN

(* The last rows that were spent: at the rate of then, the portion is all  *)
(* the level allowed.                                                      *)
GoalFits ==
  ~goal.residue /\ goal.rows \in Books =>
    /\ goal.percent \in {15, 20, 25, 30, 40}
    /\ \A cs \in [Holdings -> Rates] :
         Pending("portion", goal.rows, cs) = {} /\ UsedBy("portion", goal.rows, cs) = goal.rates =>
           Volatile("portion", goal.rows, cs)
             = (goal.percent * Total("portion", goal.rows, cs)) \div 100

DeskInv == Fund /\ Cached /\ Shapes /\ Courses /\ GoalFits

-----------------------------------------------------------------------------
LEMMA DeskInvInitially == ASSUME DeskInit PROVE DeskInv
<1>0. PICK sum \in FirstSums :
        rows = [a \in Holdings |-> [held |-> a = Won \/ sum[a] # 0, live |-> TRUE, sum |-> sum[a]]]
  BY DEF DeskInit
<1>1. /\ rows = [a \in Holdings |-> [held |-> a = Won \/ sum[a] # 0, live |-> TRUE, sum |-> sum[a]]]
      /\ level \in Levels /\ usd \in DollarRates /\ known = 0 /\ rates = {usd}
      /\ portCache = FALSE /\ tellings = 0 /\ hushed = FALSE /\ crossed = FALSE
  BY <1>0 DEF DeskInit
<1>2. \A a \in Holdings : sum[a] \in Int
  BY Constants
<1>3. rows \in Books
  BY <1>1, <1>2 DEF Books
<1>4. Fund /\ Cached
  BY <1>1, <1>3, Constants DEF Fund, Cached
<1>5. /\ step = [x \in Reports |-> "idle"] /\ kind = [x \in Reports |-> "none"]
      /\ seen = [x \in Reports |-> <<>>] /\ conv = [x \in Reports |-> NoConversion]
      /\ lvl = [x \in Reports |-> 0] /\ moments = [x \in Reports |-> {}]
  BY DEF DeskInit
<1>6. NoConversion \in [Holdings -> rates \cup {0, Unread}]
  BY DEF NoConversion
<1>7. Shapes
  BY <1>5, <1>6 DEF Shapes, Stages
<1>8. Courses
  <2>1. ASSUME NEW x \in Reports
        PROVE  /\ Course("idle", "none", <<>>, NoConversion, 0, {}, rates)
               /\ "none" \notin Answering
    BY FS_EmptySet DEF Course, Reporting, Rated, Read, RowsRead, Answering
  <2>2. QED
    BY <1>5, <2>1 DEF Courses
<1>9. goal.rows \notin Books
  <2>1. goal.rows = <<>>
    BY DEF DeskInit, NoGoal
  <2>2. DOMAIN <<>> = {}
    OBVIOUS
  <2>3. QED
    BY <2>1, <2>2, Constants DEF Books
<1>10. QED
  BY <1>4, <1>7, <1>8, <1>9 DEF DeskInv, GoalFits

-----------------------------------------------------------------------------
(* One report moves; nothing around it does but what is known of the rate. *)
Moves(x, s, k, sn, cv, lv, ms) ==
  /\ step' = [step EXCEPT ![x] = s] /\ kind' = [kind EXCEPT ![x] = k]
  /\ seen' = [seen EXCEPT ![x] = sn] /\ conv' = [conv EXCEPT ![x] = cv]
  /\ lvl' = [lvl EXCEPT ![x] = lv] /\ moments' = [moments EXCEPT ![x] = ms]

LEMMA MovesSafely ==
  ASSUME DeskInv, UNCHANGED <<rows, level, usd, rates, goal>>, known' \in rates \cup {0}, Cached',
         NEW x \in Reports, NEW s \in Stages, NEW k \in Kinds \cup {"none"},
         NEW sn \in Books \cup {<<>>}, NEW cv \in [Holdings -> rates \cup {0, Unread}],
         NEW lv \in Levels \cup {0}, NEW ms \in SUBSET Moments,
         Moves(x, s, k, sn, cv, lv, ms), Course(s, k, sn, cv, lv, ms, rates),
         k \in Answering => [rows |-> rows, level |-> level] \in ms
  PROVE  DeskInv'
<1>1. Fund'
  BY DEF DeskInv, Fund
<1>2. Shapes'
  BY DEF DeskInv, Shapes, Moves
<1>3. /\ step'[x] = s /\ kind'[x] = k /\ seen'[x] = sn /\ conv'[x] = cv /\ lvl'[x] = lv /\ moments'[x] = ms
      /\ \A y \in Reports \ {x} :
           /\ step'[y] = step[y] /\ kind'[y] = kind[y] /\ seen'[y] = seen[y]
           /\ conv'[y] = conv[y] /\ lvl'[y] = lvl[y] /\ moments'[y] = moments[y]
  BY DEF DeskInv, Shapes, Moves
<1>4. Courses'
  <2>1. ASSUME NEW y \in Reports
        PROVE  /\ Course(step'[y], kind'[y], seen'[y], conv'[y], lvl'[y], moments'[y], rates')
               /\ kind'[y] \in Answering => [rows |-> rows', level |-> level'] \in moments'[y]
    <3>1. CASE y = x
      BY <1>3, <3>1
    <3>2. CASE y # x
      BY <1>3, <3>2 DEF DeskInv, Courses
    <3>3. QED
      BY <3>1, <3>2
  <2>2. QED
    BY <2>1 DEF Courses
<1>5. GoalFits'
  BY DEF DeskInv, GoalFits
<1>6. QED
  BY <1>1, <1>2, <1>4, <1>5 DEF DeskInv

(* The fund moves; the reports note the moment.                            *)
LEMMA FundMovesSafely ==
  ASSUME DeskInv, Fund', Cached', rates \subseteq rates', GoalFits',
         UNCHANGED report,
         Notice(rows', level') \/ UNCHANGED <<rows, level, moments>>
  PROVE  DeskInv'
<1> DEFINE m == [rows |-> rows', level |-> level']
<1>1. m \in Moments
  BY DEF Fund, Moments
<1>2. /\ moments' \in [Reports -> SUBSET Moments]
      /\ \A x \in Reports : moments[x] \subseteq moments'[x]
      /\ \A x \in Reports : moments'[x] \subseteq moments[x] \cup {m}
      /\ \A x \in Reports : kind[x] \in Answering => m \in moments'[x]
  <2>1. \A x \in Reports : moments[x] \in SUBSET Moments
    BY DEF DeskInv, Shapes
  <2>2. \A x \in Reports : kind[x] \in Answering => [rows |-> rows, level |-> level] \in moments[x]
    BY DEF DeskInv, Courses
  <2>3. CASE Notice(rows', level')
    BY <1>1, <2>1, <2>2, <2>3 DEF Notice
  <2>4. CASE UNCHANGED <<rows, level, moments>>
    BY <2>2, <2>4 DEF DeskInv, Shapes
  <2>5. QED
    BY <2>3, <2>4
<1> HIDE DEF m
<1>3. Shapes'
  BY <1>2 DEF DeskInv, Shapes, report
<1>4. Courses'
  <2>1. ASSUME NEW x \in Reports
        PROVE  Course(step[x], kind[x], seen[x], conv[x], lvl[x], moments'[x], rates')
    <3>1. Course(step[x], kind[x], seen[x], conv[x], lvl[x], moments[x], rates)
      BY DEF DeskInv, Courses
    <3>2. IsFiniteSet(moments[x] \cup {m})
      BY <3>1, FS_AddElement DEF Course
    <3>3. IsFiniteSet(moments'[x])
      BY <1>2, <3>2, FS_Subset
    <3>4. Rated(step[x], kind[x], seen[x], conv[x], rates')
      BY <3>1 DEF Course, Rated
    <3>5. Read(step[x], kind[x], seen[x], lvl[x], moments'[x])
      BY <1>2, <3>1 DEF Course, Read
    <3>6. QED
      BY <3>1, <3>3, <3>4, <3>5 DEF Course
  <2>2. QED
    BY <1>2, <2>1 DEF Courses, report, m
<1>5. QED
  BY <1>3, <1>4 DEF DeskInv

-----------------------------------------------------------------------------
(* The steps of a report *)

(* What the invariant says of one report.                                  *)
LEMMA OfReport ==
  ASSUME DeskInv, NEW x \in Reports
  PROVE  /\ step[x] \in Stages /\ kind[x] \in Kinds \cup {"none"} /\ seen[x] \in Books \cup {<<>>}
         /\ conv[x] \in [Holdings -> rates \cup {0, Unread}] /\ lvl[x] \in Levels \cup {0}
         /\ moments[x] \in SUBSET Moments
         /\ Course(step[x], kind[x], seen[x], conv[x], lvl[x], moments[x], rates)
         /\ kind[x] \in Answering => [rows |-> rows, level |-> level] \in moments[x]
         /\ step = [step EXCEPT ![x] = step[x]] /\ kind = [kind EXCEPT ![x] = kind[x]]
         /\ seen = [seen EXCEPT ![x] = seen[x]] /\ conv = [conv EXCEPT ![x] = conv[x]]
         /\ lvl = [lvl EXCEPT ![x] = lvl[x]] /\ moments = [moments EXCEPT ![x] = moments[x]]
  BY DEF DeskInv, Shapes, Courses

LEMMA LeavesSafely ==
  ASSUME DeskInv, NEW x \in Reports, Leave(x),
         UNCHANGED <<rows, level, usd, rates, goal>>, known' \in rates \cup {0}, Cached'
  PROVE  DeskInv'
<1>1. Moves(x, "idle", "none", <<>>, NoConversion, 0, {})
  BY DEF Leave, To, Moves
<1>2. Course("idle", "none", <<>>, NoConversion, 0, {}, rates) /\ "none" \notin Answering
  BY FS_EmptySet DEF Course, Reporting, Rated, Read, RowsRead, Answering
<1>3. NoConversion \in [Holdings -> rates \cup {0, Unread}] /\ "idle" \in Stages
  BY DEF NoConversion, Stages
<1>4. QED
  BY <1>1, <1>2, <1>3, MovesSafely, SMTT(40)

LEMMA BeginsSafely ==
  ASSUME DeskInv, NEW x \in Reports, NEW k \in Kinds, Begin(x, k)
  PROVE  DeskInv'
<1> DEFINE s == CASE k = "total" -> "rate" [] k = "message" -> "level" [] OTHER -> "convert"
           sn == IF k = "total" THEN <<>> ELSE rows
           m == [rows |-> rows, level |-> level]
           ms == IF k = "message" THEN {} ELSE {m}
<1>1. Moves(x, s, k, sn, conv[x], lvl[x], ms)
  BY OfReport DEF Begin, To, Moves
<1>2. s \in Stages /\ (k = "total" => s = "rate") /\ (k = "message" => s = "level")
      /\ (k \in {"portion", "available"} => s = "convert")
  BY DEF Stages, Kinds
<1>3. rows \in Books /\ m \in Moments /\ m.rows = rows
  BY DEF DeskInv, Fund, Moments
<1>4. IsFiniteSet(ms) /\ ms \in SUBSET Moments /\ (k \in Answering => m \in ms)
  BY <1>3, FS_EmptySet, FS_Singleton DEF Answering
<1> HIDE DEF s, m, ms
<1>5. Reporting(s, k)
  BY <1>2 DEF Reporting, Kinds
<1>6. Rated(s, k, sn, conv[x], rates)
  BY <1>2 DEF Rated, Kinds
<1>7. Read(s, k, sn, lvl[x], ms)
  BY <1>2, <1>3, <1>4 DEF Read, RowsRead, Answering, Kinds
<1>8. Course(s, k, sn, conv[x], lvl[x], ms, rates)
  BY <1>4, <1>5, <1>6, <1>7 DEF Course
<1>9. sn \in Books \cup {<<>>}
  BY <1>3
<1>10. UNCHANGED <<rows, level, usd, rates, goal>> /\ known' \in rates \cup {0} /\ Cached'
  BY DEF Begin, market, ofCache, DeskInv, Fund, Cached
<1> HIDE DEF sn
<1>11. (k \in Answering => [rows |-> rows, level |-> level] \in ms)
  BY <1>4 DEF m
<1>12. QED
  BY <1>1, <1>2, <1>4, <1>8, <1>9, <1>10, <1>11, OfReport, MovesSafely

(* A rate that is read is one the dollar has had, or none.                 *)
LEMMA RatesAreHad ==
  ASSUME DeskInv, NEW r, ExchageRate(r)
  PROVE  r \in rates \cup {0} /\ known' \in rates \cup {0}
  BY DEF DeskInv, Fund, ExchageRate

LEMMA ConvertsSafely ==
  ASSUME DeskInv, NEW x \in Reports, Convert(x)
  PROVE  DeskInv'
<1>1. PICK a \in ToConvert(x), r \in DollarRates \cup {0} :
        ExchageRate(r) /\ conv' = [conv EXCEPT ![x][a] = r]
  BY DEF Convert
<1>2. r \in rates \cup {0} /\ known' \in rates \cup {0}
  BY <1>1, RatesAreHad
<1> DEFINE cv == [conv[x] EXCEPT ![a] = r]
<1>3. cv \in [Holdings -> rates \cup {0, Unread}] /\ conv' = [conv EXCEPT ![x] = cv]
  BY <1>1, <1>2, OfReport DEF DeskInv, Shapes
<1> HIDE DEF cv
<1>4. step[x] = "convert" /\ UNCHANGED <<market, step, kind, seen, lvl, ofCache, moments, rates, goal>>
  BY DEF Convert
<1>5. Moves(x, step[x], kind[x], seen[x], cv, lvl[x], moments[x])
  BY <1>3, <1>4, OfReport DEF Moves
<1>6. Course(step[x], kind[x], seen[x], cv, lvl[x], moments[x], rates)
  <2>1. Course("convert", kind[x], seen[x], conv[x], lvl[x], moments[x], rates)
    BY <1>4, OfReport
  <2>2. QED
    BY <1>4, <2>1 DEF Course, Rated
<1>7. UNCHANGED <<rows, level, usd, rates, goal>> /\ Cached'
  BY <1>4 DEF market, ofCache, DeskInv, Cached
<1>8. QED
  BY <1>2, <1>3, <1>5, <1>6, <1>7, OfReport, MovesSafely

LEMMA ConvertedSafely ==
  ASSUME DeskInv, NEW x \in Reports, Converted(x)
  PROVE  DeskInv'
<1>1. /\ step[x] = "convert" /\ ToConvert(x) = {}
      /\ UNCHANGED <<market, known, kind, seen, conv, lvl, ofCache, limits, moments, rates, goal>>
  BY DEF Converted
<1> DEFINE s == IF kind[x] = "available" THEN "level" ELSE "answered"
<1>2. Moves(x, s, kind[x], seen[x], conv[x], lvl[x], moments[x])
  BY <1>1, OfReport DEF Converted, To, Moves
<1>3. s \in Stages /\ (s = "level" => kind[x] = "available") /\ s \in {"level", "answered"}
      /\ (s = "answered" => kind[x] # "available")
  BY DEF Stages
<1> HIDE DEF s
<1>4. Course("convert", kind[x], seen[x], conv[x], lvl[x], moments[x], rates)
  BY <1>1, OfReport
<1>5. kind[x] \in {"portion", "available"}
  BY <1>4 DEF Course, Reporting
<1>6. Reporting(s, kind[x])
  BY <1>3, <1>5 DEF Reporting, Answering
<1>7. Rated(s, kind[x], seen[x], conv[x], rates)
  BY <1>1, <1>3, <1>5 DEF Rated, ToConvert, Pending
<1>8. Read(s, kind[x], seen[x], lvl[x], moments[x])
  BY <1>3, <1>4, <1>5 DEF Course, Read, RowsRead
<1>9. Course(s, kind[x], seen[x], conv[x], lvl[x], moments[x], rates)
  BY <1>4, <1>6, <1>7, <1>8 DEF Course
<1>10. UNCHANGED <<rows, level, usd, rates, goal>> /\ known' \in rates \cup {0} /\ Cached'
  BY <1>1 DEF market, ofCache, DeskInv, Cached, Fund
<1>11. QED
  BY <1>2, <1>3, <1>9, <1>10, OfReport, MovesSafely

LEMMA ReadsRateSafely ==
  ASSUME DeskInv, NEW x \in Reports, ReadRate(x)
  PROVE  DeskInv'
<1>1. PICK r \in DollarRates \cup {0} :
        /\ ExchageRate(r)
        /\ IF NoMessage(x, r) THEN Leave(x)
           ELSE /\ To(x, IF kind[x] = "total" THEN "list" ELSE "judge")
                /\ conv' = [conv EXCEPT ![x] = [a \in Holdings |-> r]]
                /\ UNCHANGED <<kind, seen, lvl, moments>>
  BY DEF ReadRate
<1>2. r \in rates \cup {0} /\ known' \in rates \cup {0}
  BY <1>1, RatesAreHad
<1>3. step[x] = "rate" /\ UNCHANGED <<rows, level, usd, rates, goal>> /\ Cached'
  BY DEF ReadRate, market, ofCache, DeskInv, Cached
<1>4. CASE NoMessage(x, r)
  BY <1>1, <1>2, <1>3, <1>4, LeavesSafely
<1>5. CASE ~NoMessage(x, r)
  <2> DEFINE s == IF kind[x] = "total" THEN "list" ELSE "judge"
             cv == [a \in Holdings |-> r]
  <2>1. Moves(x, s, kind[x], seen[x], cv, lvl[x], moments[x])
    BY <1>1, <1>5, OfReport DEF To, Moves
  <2>2. /\ s \in Stages /\ (kind[x] = "total" => s = "list") /\ (kind[x] # "total" => s = "judge")
        /\ cv \in [Holdings -> rates \cup {0, Unread}]
    BY <1>2 DEF Stages
  <2>3. Course("rate", kind[x], seen[x], conv[x], lvl[x], moments[x], rates)
    BY <1>3, OfReport
  <2>4. kind[x] \in {"total", "message"}
    BY <2>3 DEF Course, Reporting
  <2>5. \A a \in Holdings : cv[a] = r
    OBVIOUS
  <2>6. kind[x] = "message" => 0 \notin UsedBy(kind[x], seen[x], cv)
    <3>1. SUFFICES ASSUME kind[x] = "message", 0 \in UsedBy(kind[x], seen[x], cv) PROVE FALSE
      OBVIOUS
    <3>2. r # 0
      BY <1>5, <3>1 DEF NoMessage
    <3>3. PICK a \in Converting(kind[x], seen[x]) : cv[a] = 0
      BY <3>1 DEF UsedBy
    <3>4. a \in Holdings
      BY <3>3, Constants DEF Converting
    <3>5. QED
      BY <2>5, <3>2, <3>3, <3>4
  <2>7. Rated(s, kind[x], seen[x], cv, rates)
    <3>1. \E q \in rates \cup {0} : cv = [a \in Holdings |-> q]
      BY <1>2
    <3> HIDE DEF cv
    <3>2. QED
      BY <2>2, <2>4, <2>6, <3>1 DEF Rated
  <2> HIDE DEF s, cv
  <2>8. Reporting(s, kind[x])
    BY <2>2, <2>4 DEF Reporting
  <2>9. Read(s, kind[x], seen[x], lvl[x], moments[x])
    BY <2>2, <2>3, <2>4 DEF Course, Read, RowsRead
  <2>10. Course(s, kind[x], seen[x], cv, lvl[x], moments[x], rates)
    BY <2>3, <2>7, <2>8, <2>9 DEF Course
  <2>11. QED
    BY <1>2, <1>3, <2>1, <2>2, <2>10, OfReport, MovesSafely
<1>6. QED
  BY <1>4, <1>5

LEMMA ListsSafely ==
  ASSUME DeskInv, NEW x \in Reports, ListRows(x)
  PROVE  DeskInv'
<1>1. /\ step[x] = "list"
      /\ UNCHANGED <<market, known, kind, conv, lvl, ofCache, limits, moments, rates, goal>>
  BY DEF ListRows
<1>2. Moves(x, "answered", kind[x], rows, conv[x], lvl[x], moments[x])
  BY <1>1, OfReport DEF ListRows, To, Moves
<1>3. Course("list", kind[x], seen[x], conv[x], lvl[x], moments[x], rates)
  BY <1>1, OfReport
<1>4. kind[x] = "total"
  BY <1>3 DEF Course, Reporting
<1>5. rows \in Books
  BY DEF DeskInv, Fund
<1>6. \E m \in moments[x] : m.rows = rows
  BY <1>4, OfReport DEF Answering
<1>7. Course("answered", kind[x], rows, conv[x], lvl[x], moments[x], rates)
  BY <1>3, <1>4, <1>5, <1>6 DEF Course, Reporting, Rated, Read, RowsRead, Answering
<1>8. UNCHANGED <<rows, level, usd, rates, goal>> /\ known' \in rates \cup {0} /\ Cached'
  BY <1>1 DEF market, ofCache, DeskInv, Cached, Fund
<1>9. "answered" \in Stages
  BY DEF Stages
<1>10. QED
  BY <1>2, <1>5, <1>7, <1>8, <1>9, OfReport, MovesSafely

LEMMA ReadsLevelSafely ==
  ASSUME DeskInv, NEW x \in Reports, ReadLevel(x)
  PROVE  DeskInv'
<1>1. /\ step[x] = "level"
      /\ UNCHANGED <<market, known, kind, seen, conv, ofCache, limits, moments, rates, goal>>
  BY DEF ReadLevel
<1> DEFINE s == IF kind[x] = "available" THEN "answered" ELSE "rate"
<1>2. Moves(x, s, kind[x], seen[x], conv[x], level, moments[x])
  BY <1>1, OfReport DEF ReadLevel, To, Moves
<1>3. s \in Stages /\ (kind[x] = "available" => s = "answered") /\ (kind[x] # "available" => s = "rate")
  BY DEF Stages
<1> HIDE DEF s
<1>4. Course("level", kind[x], seen[x], conv[x], lvl[x], moments[x], rates)
  BY <1>1, OfReport
<1>5. kind[x] \in {"available", "message"}
  BY <1>4 DEF Course, Reporting
<1>6. kind[x] = "available" => \E m \in moments[x] : m.level = level
  BY OfReport DEF Answering
<1>7. Reporting(s, kind[x]) /\ Rated(s, kind[x], seen[x], conv[x], rates)
  BY <1>3, <1>4, <1>5 DEF Course, Reporting, Rated, Answering
<1>8. Read(s, kind[x], seen[x], level, moments[x])
  BY <1>3, <1>4, <1>5, <1>6 DEF Course, Read, RowsRead
<1>9. Course(s, kind[x], seen[x], conv[x], level, moments[x], rates)
  BY <1>4, <1>7, <1>8 DEF Course
<1>10. UNCHANGED <<rows, level, usd, rates, goal>> /\ known' \in rates \cup {0} /\ Cached' /\ level \in Levels
  BY <1>1 DEF market, ofCache, DeskInv, Cached, Fund
<1>11. QED
  BY <1>2, <1>3, <1>9, <1>10, OfReport, MovesSafely

(* Those that end leave nothing behind.                                    *)
LEMMA EndsSafely ==
  ASSUME DeskInv, NEW x \in Reports, ReadFails(x) \/ Finish(x) \/ Tell(x) \/ OrderFails(x)
  PROVE  DeskInv'
<1>1. Leave(x) /\ UNCHANGED <<rows, level, usd, rates, goal>> /\ known' = known
  BY DEF ReadFails, Finish, Tell, OrderFails, market
<1>2. Cached'
  <2>1. CASE ReadFails(x) \/ Finish(x)
    BY <2>1 DEF ReadFails, Finish, ofCache, DeskInv, Cached
  <2>2. CASE Tell(x) \/ OrderFails(x)
    <3>1. tellings \in Nat /\ tellings + 1 \in Nat
      BY DEF DeskInv, Cached
    <3>2. UNCHANGED <<portCache, crossed>> /\ tellings' \in {tellings, tellings + 1} /\ hushed' \in {hushed, TRUE}
      BY <2>2 DEF Tell, OrderFails
    <3>3. QED
      BY <3>1, <3>2 DEF DeskInv, Cached
  <2>3. QED
    BY <2>1, <2>2
<1>3. QED
  BY <1>1, <1>2, LeavesSafely DEF DeskInv, Fund

(* The message is judged, and marked, with what was read.                  *)
LEMMA MarksSafely ==
  ASSUME DeskInv, NEW x \in Reports, NEW s \in {"mark", "order"}, GoOn(x, s),
         step[x] \in {"judge", "mark"},
         UNCHANGED <<rows, level, usd, known, rates, goal>>, Cached'
  PROVE  DeskInv'
<1>1. Moves(x, s, kind[x], seen[x], conv[x], lvl[x], moments[x])
  BY OfReport DEF GoOn, To, Moves
<1>2. Course(step[x], kind[x], seen[x], conv[x], lvl[x], moments[x], rates)
  BY OfReport
<1>3. kind[x] = "message" /\ s \in Stages
  BY <1>2 DEF Course, Reporting, Stages
<1>4. Reporting(s, kind[x]) /\ Rated(s, kind[x], seen[x], conv[x], rates)
  BY <1>2, <1>3 DEF Course, Reporting, Rated
<1>5. Read(s, kind[x], seen[x], lvl[x], moments[x])
  BY <1>2, <1>3 DEF Course, Read, RowsRead, Answering
<1>6. Course(s, kind[x], seen[x], conv[x], lvl[x], moments[x], rates)
  BY <1>2, <1>4, <1>5 DEF Course
<1>7. known' \in rates \cup {0}
  BY DEF DeskInv, Fund
<1>8. QED
  BY <1>1, <1>3, <1>6, <1>7, OfReport, MovesSafely

LEMMA JudgesSafely ==
  ASSUME DeskInv, NEW x \in Reports, Judge(x) \/ SetPortCache(x)
  PROVE  DeskInv'
<1>1. CASE SetPortCache(x)
  <2>1. Cached'
    BY <1>1 DEF SetPortCache, DeskInv, Cached
  <2>2. QED
    BY <1>1, <2>1, MarksSafely DEF SetPortCache, market
<1>2. CASE Judge(x)
  <2> DEFINE quiet == TotalSum(x) = 0 \/ portCache \/ Inside(x)
  <2>1. /\ IF quiet THEN Leave(x) ELSE GoOn(x, "mark")
        /\ crossed' = (crossed \/ (~quiet /\ \E y \in Reports \ {x} : step[y] = "mark"))
        /\ step[x] = "judge" /\ UNCHANGED <<market, known, portCache, tellings, hushed, limits, rates, goal>>
    BY <1>2 DEF Judge
  <2>2. crossed' \in BOOLEAN
    BY <2>1
  <2> HIDE DEF quiet
  <2>3. Cached' /\ UNCHANGED <<rows, level, usd, rates, goal>> /\ known' \in rates \cup {0}
    BY <2>1, <2>2 DEF DeskInv, Cached, market, Fund
  <2>4. CASE quiet
    BY <2>1, <2>3, <2>4, LeavesSafely
  <2>5. CASE ~quiet
    BY <2>1, <2>3, <2>5, MarksSafely
  <2>6. QED
    BY <2>4, <2>5
<1>3. QED
  BY <1>1, <1>2

-----------------------------------------------------------------------------
(* The steps around the reports *)

LEMMA AtMostOne ==
  ASSUME NEW S, IsFiniteSet(S), ~(Cardinality(S) > 1), NEW u \in S, NEW v \in S
  PROVE  u = v
<1>1. Cardinality(S) \in Nat /\ IsFiniteSet(S \ {u}) /\ Cardinality(S \ {u}) = Cardinality(S) - 1
  BY FS_CardinalityType, FS_RemoveElement
<1>2. Cardinality(S \ {u}) \in Nat
  BY <1>1, FS_CardinalityType
<1>3. Cardinality(S \ {u}) = 0
  BY <1>1, <1>2
<1>4. S \ {u} = {}
  BY <1>1, <1>3, FS_EmptySet
<1>5. QED
  BY <1>4

LEMMA UsedIsFinite ==
  ASSUME NEW k, NEW rs, NEW cs
  PROVE  IsFiniteSet(UsedBy(k, rs, cs))
<1> DEFINE S == Converting(k, rs) \ Sold(rs)
           T == {cs[a] : a \in S}
           f == [a \in S |-> cs[a]]
<1>1. S \in SUBSET Holdings
  BY Constants DEF Converting
<1>2. IsFiniteSet(S)
  BY <1>1, Constants, FS_Subset
<1>3. f \in Surjection(S, T)
  BY DEF Surjection
<1>4. IsFiniteSet(T)
  <2> HIDE DEF S, T, f
  <2> QED
    BY <1>2, <1>3, FS_Surjection
<1>5. UsedBy(k, rs, cs) \in SUBSET T
  BY DEF UsedBy
<1> HIDE DEF T
<1>6. QED
  BY <1>4, <1>5, FS_Subset

LEMMA ConvIsRated ==
  ASSUME DeskInv, NEW x \in Reports
  PROVE  conv[x] \in [Holdings -> Rates]
<1>1. conv[x] \in [Holdings -> rates \cup {0, Unread}] /\ rates \subseteq DollarRates
  BY OfReport DEF DeskInv, Fund
<1>2. QED
  BY <1>1 DEF Rates

LEMMA SpendsSafely ==
  ASSUME DeskInv, NEW x \in Reports, NEW a \in Holdings, Spend(x, a)
  PROVE  DeskInv'
<1> DEFINE n == Result(x)
<1>1. /\ step[x] = "answered" /\ kind[x] = "available" /\ seen[x] = rows
      /\ Cardinality(Used(x)) <= 1 /\ a \notin Stable \cup InDollars
      /\ rows[a].live /\ rows[Won].live
  BY DEF Spend
<1>2. rows' = Spent(rows, a, n) /\ Notice(rows', level) /\ UNCHANGED <<level, usd, known, report, ofCache, rates>>
  BY DEF Spend, Book, Spent
<1>3. goal' = [rows |-> rows', rates |-> Used(x), percent |-> MaxVolatileAssetRate[lvl[x]],
               residue |-> ~rows[a].held /\ rows[a].sum # 0]
  BY DEF Spend
<1>4. rows \in Books /\ rows[Won].held /\ conv[x] \in [Holdings -> Rates]
  BY ConvIsRated DEF DeskInv, Fund
<1>5. Course("answered", "available", rows, conv[x], lvl[x], moments[x], rates)
  BY <1>1, OfReport
<1>6. lvl[x] \in Levels
  <2>1. PICK m \in moments[x] : m.level = lvl[x]
    BY <1>5 DEF Course, Read
  <2>2. QED
    BY <2>1, OfReport DEF Moments
<1>7. n \in Int
  BY <1>1, <1>4, <1>6, AnswersAreNumbers DEF Result, TotalSum, VolatileSum
<1>8. n = InvestAvailableAmount(Total("available", rows, conv[x]), Volatile("available", rows, conv[x]), lvl[x])
  BY <1>1 DEF Result, TotalSum, VolatileSum, Answer
<1> HIDE DEF n
<1>9. a \in Holdings \ {Won} /\ a \in Holdings \ (Stable \cup InDollars)
  BY <1>1, Constants
<1>10. Spent(rows, a, n) \in Books /\ Spent(rows, a, n)[Won].held
  <2>1. Spent(rows, a, n) \in Books
    BY <1>4, <1>7, <1>9, SpentRows
  <2>2. Spent(rows, a, n)[Won] = [held |-> rows[Won].held, live |-> rows[Won].live, sum |-> rows[Won].sum - n]
    BY <1>4, <1>7, <1>9, SpentRows, ZenonT(60)
  <2>3. QED
    BY <1>4, <2>1, <2>2
<1>11. Fund' /\ Cached'
  BY <1>2, <1>10 DEF DeskInv, Fund, Cached, ofCache
<1>12. Used(x) = UsedBy("available", rows, conv[x]) /\ Pending("available", rows, conv[x]) = {}
  BY <1>1, <1>5 DEF Used, UsedBy, Course, Rated
<1>13. PICK r : Used(x) \subseteq {r}
  <2>1. IsFiniteSet(Used(x))
    BY <1>12, UsedIsFinite
  <2>2. ~(Cardinality(Used(x)) > 1)
    BY <1>1, <2>1, FS_CardinalityType
  <2>3. \A u, v \in Used(x) : u = v
    BY <2>1, <2>2, AtMostOne
  <2>4. QED
    BY <2>3
<1>14. GoalFits'
  <2>1. SUFFICES ASSUME ~goal'.residue PROVE
          /\ goal'.percent \in {15, 20, 25, 30, 40}
          /\ \A cs \in [Holdings -> Rates] :
               Pending("portion", goal'.rows, cs) = {} /\ UsedBy("portion", goal'.rows, cs) = goal'.rates =>
                 Volatile("portion", goal'.rows, cs)
                   = (goal'.percent * Total("portion", goal'.rows, cs)) \div 100
    BY DEF GoalFits
  <2>2. /\ goal'.rows = Spent(rows, a, n) /\ goal'.rates = Used(x)
        /\ goal'.percent = MaxVolatileAssetRate[lvl[x]] /\ (rows[a].held \/ rows[a].sum = 0)
    BY <1>2, <1>3, <2>1
  <2>3. ASSUME NEW cs \in [Holdings -> Rates], Pending("portion", Spent(rows, a, n), cs) = {},
               UsedBy("portion", Spent(rows, a, n), cs) = Used(x)
        PROVE  Volatile("portion", Spent(rows, a, n), cs)
                 = (MaxVolatileAssetRate[lvl[x]] * Total("portion", Spent(rows, a, n), cs)) \div 100
    <3>1. UsedBy("portion", Spent(rows, a, n), cs) \subseteq {r} /\ UsedBy("available", rows, conv[x]) \subseteq {r}
      BY <1>12, <1>13, <2>3
    <3>2. rows[a].held \/ rows[a].sum = 0
      BY <2>2
    <3>3. MaySpend(rows, conv[x], a, lvl[x], n, r) /\ Shows(Spent(rows, a, n), cs, r)
      BY <1>1, <1>4, <1>8, <1>12, <2>3, <3>1, <3>2 DEF MaySpend, Shows
    <3>4. Filled(Spent(rows, a, n), cs, lvl[x])
      BY <1>4, <1>6, <1>7, <1>9, <3>3, SpendingFills
    <3>5. QED
      BY <3>4 DEF Filled
  <2>4. MaxVolatileAssetRate[lvl[x]] \in {15, 20, 25, 30, 40}
    BY <1>6, LevelsAllow
  <2>5. QED
    BY <2>2, <2>3, <2>4
<1>15. UNCHANGED report /\ Notice(rows', level') /\ rates \subseteq rates'
  BY <1>2
<1>16. QED
  BY <1>11, <1>14, <1>15, FundMovesSafely

(* Trades, repricings and deletions book other rows; the goal stays.       *)
LEMMA BooksSafely ==
  ASSUME DeskInv, NEW rs \in Books, rs[Won].held, Book(rs), UNCHANGED <<rates, goal>>
  PROVE  DeskInv'
<1>1. rows' = rs /\ Notice(rows', level') /\ UNCHANGED <<level, usd, known, report, ofCache>>
  BY DEF Book
<1>2. Fund' /\ Cached' /\ GoalFits'
  BY <1>1 DEF DeskInv, Fund, Cached, GoalFits, ofCache
<1>3. QED
  BY <1>1, <1>2, FundMovesSafely

LEMMA TradesSafely ==
  ASSUME DeskInv, NEW a \in Holdings, SellOut(a) \/ DeleteAsset(a)
  PROVE  DeskInv'
<1>1. rows \in Books /\ rows[Won].held
  BY DEF DeskInv, Fund
<1>2. \A b \in Holdings : rows[b] \in [held : BOOLEAN, live : BOOLEAN, sum : Int]
  BY <1>1 DEF Books
<1>3. CASE SellOut(a)
  <2> DEFINE rs == [rows EXCEPT ![a].held = FALSE, ![a].sum = -Gain,
                                ![Won].sum = @ + rows[a].sum + Gain]
  <2>1. a # Won /\ Book(rs) /\ UNCHANGED <<rates, goal>>
    BY <1>3 DEF SellOut
  <2>2. DOMAIN rs = Holdings /\ rs = [b \in Holdings |-> rs[b]]
    BY <1>1 DEF Books
  <2>3. /\ rs[a] = [held |-> FALSE, live |-> rows[a].live, sum |-> -Gain]
        /\ rs[Won] = [held |-> rows[Won].held, live |-> rows[Won].live, sum |-> (rows[Won].sum + rows[a].sum) + Gain]
        /\ \A b \in Holdings \ {a, Won} : rs[b] = rows[b]
    <3>1. /\ DOMAIN rows = Holdings /\ {a, Won} \subseteq Holdings
          /\ \A b \in Holdings : rows[b] = [held |-> rows[b].held, live |-> rows[b].live, sum |-> rows[b].sum]
          /\ rows[Won].sum \in Int /\ rows[a].sum \in Int /\ Gain \in Int
      BY <1>1, <1>2, Constants DEF Books
    <3>2. rs[a] = [[rows[a] EXCEPT !.held = FALSE] EXCEPT !.sum = -Gain]
      BY <2>1, <3>1
    <3>3. rs[Won] = [rows[Won] EXCEPT !.sum = (rows[Won].sum + rows[a].sum) + Gain]
      BY <2>1, <3>1
    <3>4. \A b \in Holdings \ {a, Won} : rs[b] = rows[b]
      BY <2>1, <3>1
    <3>5. /\ rows[a] = [held |-> rows[a].held, live |-> rows[a].live, sum |-> rows[a].sum]
          /\ rows[Won] = [held |-> rows[Won].held, live |-> rows[Won].live, sum |-> rows[Won].sum]
      BY <3>1
    <3> HIDE DEF rs
    <3>6. rs[a] = [held |-> FALSE, live |-> rows[a].live, sum |-> -Gain]
      BY <3>2, <3>5
    <3>7. rs[Won] = [held |-> rows[Won].held, live |-> rows[Won].live,
                     sum |-> (rows[Won].sum + rows[a].sum) + Gain]
      BY <3>3, <3>5
    <3>8. QED
      BY <3>4, <3>6, <3>7
  <2> HIDE DEF rs
  <2>4. rs[a] \in [held : BOOLEAN, live : BOOLEAN, sum : Int]
    BY <1>2, <2>3, Constants
  <2>5. rs[Won] \in [held : BOOLEAN, live : BOOLEAN, sum : Int]
    BY <1>2, <2>3, Constants
  <2>6. rs \in Books /\ rs[Won].held
    BY <1>1, <1>2, <2>2, <2>3, <2>4, <2>5 DEF Books
  <2>7. QED
    BY <2>1, <2>6, BooksSafely
<1>4. CASE DeleteAsset(a)
  <2> DEFINE rs == [rows EXCEPT ![a].live = FALSE]
  <2>1. Book(rs) /\ UNCHANGED <<rates, goal>>
    BY <1>4 DEF DeleteAsset
  <2>2. rs = [b \in Holdings |-> rs[b]]
    BY <1>1 DEF Books
  <2>3. /\ rs[a] = [held |-> rows[a].held, live |-> FALSE, sum |-> rows[a].sum]
        /\ \A b \in Holdings \ {a} : rs[b] = rows[b]
    BY <1>1, <1>2 DEF Books
  <2> HIDE DEF rs
  <2>4. \A b \in Holdings : rs[b] \in [held : BOOLEAN, live : BOOLEAN, sum : Int] /\ rs[b].held = rows[b].held
    <3>1. rs[a] \in [held : BOOLEAN, live : BOOLEAN, sum : Int] /\ rs[a].held = rows[a].held
      BY <1>2, <2>3
    <3>2. QED
      BY <1>2, <2>3, <3>1
  <2>5. rs \in Books /\ rs[Won].held
    BY <1>1, <2>2, <2>4, Constants DEF Books
  <2>6. QED
    BY <2>1, <2>5, BooksSafely
<1>5. QED
  BY <1>3, <1>4

LEMMA RepricesSafely ==
  ASSUME DeskInv, Reprice
  PROVE  DeskInv'
<1>1. rows \in Books /\ rows[Won].held
  BY DEF DeskInv, Fund
<1> DEFINE new(a) == IF rows[a].held /\ rows[a].live THEN rows[a] ELSE [rows[a] EXCEPT !.sum = 0]
           rs == [a \in Holdings |-> new(a)]
<1>2. ASSUME NEW a \in Holdings
      PROVE  new(a) \in [held : BOOLEAN, live : BOOLEAN, sum : Int] /\ new(a).held = rows[a].held
  <2>1. rows[a] \in [held : BOOLEAN, live : BOOLEAN, sum : Int]
    BY <1>1 DEF Books
  <2>2. QED
    BY <2>1
<1>3. rs \in Books /\ rs[Won].held
  BY <1>1, <1>2, Constants DEF Books
<1>4. Book(rs) /\ UNCHANGED <<rates, goal>>
  BY DEF Reprice
<1>5. QED
  BY <1>3, <1>4, BooksSafely

LEMMA MarketMovesSafely ==
  ASSUME DeskInv,
         \/ \E l \in Levels : ChangeMarketStatus(l)
         \/ \E r \in DollarRates : MoveDollar(r)
         \/ RateAges \/ CacheAges \/ UNCHANGED deskVars
  PROVE  DeskInv'
<1>1. CASE \E l \in Levels : ChangeMarketStatus(l)
  <2>1. PICK l \in Levels : ChangeMarketStatus(l)
    BY <1>1
  <2>2. level' = l /\ Notice(rows', level') /\ UNCHANGED <<rows, usd, known, report, ofCache, rates, goal>>
    BY <2>1 DEF ChangeMarketStatus
  <2>3. Fund' /\ Cached' /\ GoalFits'
    BY <2>2 DEF DeskInv, Fund, Cached, GoalFits, ofCache
  <2>4. QED
    BY <2>2, <2>3, FundMovesSafely
<1>2. CASE \E r \in DollarRates : MoveDollar(r)
  <2>1. PICK r \in DollarRates : usd' = r /\ rates' = rates \cup {r}
    BY <1>2 DEF MoveDollar
  <2>2. UNCHANGED <<rows, level, known, report, ofCache, moments, goal>>
    BY <1>2 DEF MoveDollar
  <2>3. Fund' /\ Cached' /\ GoalFits'
    BY <2>1, <2>2 DEF DeskInv, Fund, Cached, GoalFits, ofCache
  <2>4. QED
    BY <2>1, <2>2, <2>3, FundMovesSafely
<1>3. CASE RateAges \/ UNCHANGED deskVars
  <2>1. /\ UNCHANGED <<rows, level, usd, report, ofCache, moments, rates, goal>>
        /\ known' \in {0, known}
    BY <1>3 DEF RateAges, deskVars, market
  <2>2. Fund' /\ Cached' /\ GoalFits'
    BY <2>1 DEF DeskInv, Fund, Cached, GoalFits, ofCache
  <2>3. QED
    BY <2>1, <2>2, FundMovesSafely
<1>4. CASE CacheAges
  <2>1. /\ UNCHANGED <<rows, level, usd, known, report, moments, rates, goal>>
        /\ portCache' = FALSE /\ tellings' = 0 /\ hushed' = FALSE /\ crossed' = FALSE
    BY <1>4 DEF CacheAges, market
  <2>2. Fund' /\ Cached' /\ GoalFits'
    BY <2>1 DEF DeskInv, Fund, Cached, GoalFits
  <2>3. QED
    BY <2>1, <2>2, FundMovesSafely
<1>5. QED
  BY <1>1, <1>2, <1>3, <1>4

LEMMA DeskInvKept == DeskInv /\ [DeskNext]_deskVars => DeskInv'
<1> SUFFICES ASSUME DeskInv, [DeskNext]_deskVars PROVE DeskInv'
  OBVIOUS
<1>1. ASSUME NEW x \in Reports, NEW k \in Kinds, Begin(x, k) PROVE DeskInv'
  BY <1>1, BeginsSafely
<1>2. ASSUME NEW x \in Reports, Convert(x) \/ Converted(x) \/ ReadRate(x) \/ ListRows(x) \/ ReadLevel(x)
      PROVE  DeskInv'
  BY <1>2, ConvertsSafely, ConvertedSafely, ReadsRateSafely, ListsSafely, ReadsLevelSafely
<1>3. ASSUME NEW x \in Reports, ReadFails(x) \/ Finish(x) \/ Tell(x) \/ OrderFails(x) PROVE DeskInv'
  BY <1>3, EndsSafely
<1>4. ASSUME NEW x \in Reports, Judge(x) \/ SetPortCache(x) PROVE DeskInv'
  BY <1>4, JudgesSafely
<1>5. ASSUME NEW x \in Reports, NEW a \in Holdings, Spend(x, a) PROVE DeskInv'
  BY <1>5, SpendsSafely
<1>6. ASSUME NEW a \in Holdings, SellOut(a) \/ DeleteAsset(a) PROVE DeskInv'
  BY <1>6, TradesSafely
<1>7. CASE Reprice
  BY <1>7, RepricesSafely
<1>8. CASE \/ \E l \in Levels : ChangeMarketStatus(l)
           \/ \E r \in DollarRates : MoveDollar(r)
           \/ RateAges \/ CacheAges \/ UNCHANGED deskVars
  BY <1>8, MarketMovesSafely
<1>9. QED
  BY <1>1, <1>2, <1>3, <1>4, <1>5, <1>6, <1>7, <1>8 DEF DeskNext

-----------------------------------------------------------------------------
(* What follows *)

LEMMA InvIsTyped == DeskInv => DeskTypeOK
<1> SUFFICES ASSUME DeskInv PROVE DeskTypeOK
  OBVIOUS
<1>1. /\ rows \in Books /\ level \in Levels /\ usd \in DollarRates /\ known \in DollarRates \cup {0}
      /\ portCache \in BOOLEAN /\ tellings \in Nat /\ hushed \in BOOLEAN /\ crossed \in BOOLEAN
  BY DEF DeskInv, Fund, Cached
<1>2. /\ step \in [Reports -> {"idle", "convert", "rate", "list", "level", "answered", "judge",
                                "mark", "order"}]
      /\ kind \in [Reports -> Kinds \cup {"none"}]
      /\ seen \in [Reports -> Books \cup {<<>>}]
      /\ lvl \in [Reports -> Levels \cup {0}]
  BY DEF DeskInv, Shapes, Stages
<1>3. conv \in [Reports -> [Holdings -> DollarRates \cup {0, Unread}]]
  <2>1. \A x \in Reports : conv[x] \in [Holdings -> Rates]
    BY ConvIsRated
  <2>2. conv = [x \in Reports |-> conv[x]]
    BY DEF DeskInv, Shapes
  <2>3. QED
    BY <2>1, <2>2 DEF Rates
<1>4. ASSUME NEW x \in Reports, step[x] \in {"judge", "mark", "order"} PROVE 0 \notin Used(x)
  BY <1>4, OfReport DEF Course, Rated, Used, UsedBy
<1>5. QED
  BY <1>1, <1>2, <1>3, <1>4 DEF DeskTypeOK

LEMMA InvFillsPortion == DeskInv => SpendingFillsPortion
<1> SUFFICES ASSUME DeskInv, NEW x \in Reports, step[x] = "answered", kind[x] = "portion",
                    ~goal.residue, seen[x] = goal.rows, Used(x) = goal.rates
             PROVE  /\ VolatileSum(x) = (goal.percent * TotalSum(x)) \div 100
                    /\ TotalSum(x) >= 100 => Result(x) \in {goal.percent - 1, goal.percent}
  BY DEF SpendingFillsPortion
<1>1. Course("answered", "portion", seen[x], conv[x], lvl[x], moments[x], rates)
  BY OfReport
<1>2. seen[x] \in Books /\ Pending("portion", seen[x], conv[x]) = {} /\ conv[x] \in [Holdings -> Rates]
  BY <1>1, ConvIsRated DEF Course, Rated, Read, RowsRead, Answering
<1>3. UsedBy("portion", seen[x], conv[x]) = goal.rates
  BY DEF Used, UsedBy
<1>4. goal.percent \in {15, 20, 25, 30, 40}
  BY <1>2 DEF DeskInv, GoalFits
<1>5. VolatileSum(x) = (goal.percent * TotalSum(x)) \div 100
  BY <1>2, <1>3 DEF DeskInv, GoalFits, VolatileSum, TotalSum
<1>6. TotalSum(x) \in Int /\ Result(x) = FundPortion(TotalSum(x), VolatileSum(x))
  BY <1>2, AnswersAreNumbers DEF TotalSum, Result, Answer
<1>7. ASSUME TotalSum(x) >= 100 PROVE Result(x) \in {goal.percent - 1, goal.percent}
  BY <1>4, <1>5, <1>6, <1>7, PortionIsCut
<1>8. QED
  BY <1>5, <1>7

LEMMA InvIsOfOneMoment == DeskInv => AnswersAreOfOneMoment
<1> SUFFICES ASSUME DeskInv, NEW x \in Reports, step[x] = "answered", kind[x] # "message",
                    0 \notin Used(x), ~(Cardinality(Used(x)) > 1),
                    ~(/\ Cardinality({m.rows : m \in moments[x]}) > 1
                      /\ Cardinality({m.level : m \in moments[x]}) > 1),
                    ~\E a \in Holdings : ~seen[x][a].live /\ seen[x][a].sum # 0,
                    ~(kind[x] = "total" /\ \E a \in Sold(seen[x]) : seen[x][a].sum # 0),
                    ~(kind[x] = "portion" /\ TotalSum(x) = 0 /\ VolatileSum(x) # 0)
             PROVE  \E m \in moments[x], r \in rates : Result(x) = AnswerAt(kind[x], m, r)
  BY DEF AnswersAreOfOneMoment
<1>1. Course("answered", kind[x], seen[x], conv[x], lvl[x], moments[x], rates)
  BY OfReport
<1>2. kind[x] \in Answering
  BY <1>1 DEF Course, Reporting
<1>3. /\ seen[x] \in Books /\ IsFiniteSet(moments[x]) /\ moments[x] \in SUBSET Moments
      /\ conv[x] \in [Holdings -> Rates] /\ rates \subseteq DollarRates /\ usd \in rates
  BY <1>1, <1>2, ConvIsRated, OfReport DEF Course, Read, RowsRead, DeskInv, Fund
<1>4. PICK r \in rates : \A a \in Converting(kind[x], seen[x]) \ Sold(seen[x]) : conv[x][a] = r
  <2>1. Used(x) = UsedBy(kind[x], seen[x], conv[x])
    BY DEF Used, UsedBy
  <2>2. IsFiniteSet(Used(x))
    BY <2>1, UsedIsFinite
  <2>3. \A u, v \in Used(x) : u = v
    BY <2>2, AtMostOne
  <2>4. ASSUME NEW a \in Converting(kind[x], seen[x]) \ Sold(seen[x])
        PROVE  conv[x][a] \in Used(x) /\ conv[x][a] \in rates
    <3>1. a \in Holdings /\ seen[x][a].held
      BY Constants DEF Converting, Sold
    <3>2. conv[x][a] \in rates \cup {0, Unread}
      BY <3>1, OfReport
    <3>3. conv[x][a] # Unread
      <4>1. CASE kind[x] = "total"
        <5>1. PICK q \in rates \cup {0} : conv[x] = [b \in Holdings |-> q]
          BY <1>1, <4>1 DEF Course, Rated
        <5>2. Unread \notin rates \cup {0}
          BY <1>3, Constants DEF Unread
        <5>3. QED
          BY <3>1, <5>1, <5>2
      <4>2. CASE kind[x] \in {"portion", "available"}
        BY <1>1, <3>1, <4>2 DEF Course, Rated, Pending
      <4>3. QED
        BY <1>2, <4>1, <4>2 DEF Answering
    <3>4. conv[x][a] \in Used(x)
      BY <2>1, <3>3 DEF UsedBy
    <3>5. QED
      BY <3>2, <3>3, <3>4
  <2>5. CASE Converting(kind[x], seen[x]) \ Sold(seen[x]) = {}
    BY <1>3, <2>5
  <2>6. CASE Converting(kind[x], seen[x]) \ Sold(seen[x]) # {}
    <3>1. PICK b \in Converting(kind[x], seen[x]) \ Sold(seen[x]) : TRUE
      BY <2>6
    <3>2. conv[x][b] \in rates /\ \A a \in Converting(kind[x], seen[x]) \ Sold(seen[x]) : conv[x][a] = conv[x][b]
      BY <2>3, <2>4, <3>1
    <3>3. QED
      BY <3>2
  <2>7. QED
    BY <2>5, <2>6
<1>5. PICK m \in moments[x] : m.rows = seen[x] /\ (kind[x] = "available" => lvl[x] = m.level)
  <2>1. PICK p \in moments[x] : p.rows = seen[x]
    BY <1>1, <1>2 DEF Course, Read, RowsRead
  <2>2. CASE kind[x] # "available"
    BY <2>1, <2>2
  <2>3. CASE kind[x] = "available"
    <3>1. PICK q \in moments[x] : q.level = lvl[x]
      BY <1>1, <2>3 DEF Course, Read
    <3> DEFINE R == {o.rows : o \in moments[x]}
               L == {o.level : o \in moments[x]}
    <3>2. IsFiniteSet(R) /\ IsFiniteSet(L)
      <4> DEFINE f == [o \in moments[x] |-> o.rows]
                 g == [o \in moments[x] |-> o.level]
      <4>1. f \in Surjection(moments[x], R) /\ g \in Surjection(moments[x], L)
        BY DEF Surjection
      <4> HIDE DEF f, g, R, L
      <4>2. QED
        BY <1>3, <4>1, FS_Surjection
    <3>3. p.rows \in R /\ q.rows \in R /\ p.level \in L /\ q.level \in L
      BY <2>1, <3>1
    <3>4. ~(Cardinality(R) > 1) \/ ~(Cardinality(L) > 1)
      OBVIOUS
    <3> HIDE DEF R, L
    <3>5. p.rows = q.rows \/ p.level = q.level
      BY <3>2, <3>3, <3>4, AtMostOne
    <3>6. QED
      BY <2>1, <3>1, <3>5
  <2>4. QED
    BY <2>2, <2>3
<1>6. m \in [rows : Books, level : Levels] /\ r \in DollarRates /\ kind[x] \in {"total", "portion", "available"}
  BY <1>2, <1>3, <1>4, <1>5 DEF Moments, Answering
<1>7. /\ \A a \in Holdings : m.rows[a].live \/ m.rows[a].sum = 0
      /\ kind[x] = "total" => \A a \in Sold(m.rows) : m.rows[a].sum = 0
      /\ \A a \in Converting(kind[x], m.rows) \ Sold(m.rows) : conv[x][a] = r
  BY <1>4, <1>5
<1>8. Answer(kind[x], Total(kind[x], m.rows, conv[x]), Volatile(kind[x], m.rows, conv[x]), lvl[x])
        = AnswerAt(kind[x], m, r)
  <2>0. PICK l : l = lvl[x]
    OBVIOUS
  <2>1. PICK k \in {"total", "portion", "available"}, cs \in [Holdings -> Rates] :
          k = kind[x] /\ cs = conv[x]
    BY <1>3, <1>6
  <2>2. /\ k = "available" => l = m.level
        /\ \A a \in Converting(k, m.rows) \ Sold(m.rows) : cs[a] = r
        /\ \A a \in Holdings : m.rows[a].live \/ m.rows[a].sum = 0
        /\ k = "total" => \A a \in Sold(m.rows) : m.rows[a].sum = 0
        /\ ~(k = "portion" /\ Total(k, m.rows, cs) = 0 /\ Volatile(k, m.rows, cs) # 0)
    BY <1>5, <1>7, <2>0, <2>1 DEF TotalSum, VolatileSum
  <2>3. Answer(k, Total(k, m.rows, cs), Volatile(k, m.rows, cs), l) = AnswerAt(k, m, r)
    BY <1>6, <2>2, OneMoment
  <2>4. QED
    BY <2>0, <2>1, <2>3
<1>9. Result(x) = AnswerAt(kind[x], m, r)
  BY <1>5, <1>8 DEF Result, TotalSum, VolatileSum
<1>10. QED
  BY <1>4, <1>5, <1>9

(* Whatever is traded, repriced, deleted or fails while it is made, for    *)
(* any fund: an answer is that of one moment, but for the six reasons the  *)
(* property names.                                                         *)
THEOREM AnswersOfOneMoment == DeskSpec => []AnswersAreOfOneMoment
  BY DeskInvInitially, DeskInvKept, InvIsOfOneMoment, PTL DEF DeskSpec

(* For any fund, and rates and levels that move between the two requests:  *)
(* what is said to be available, when it is spent, brings the volatile     *)
(* part to all the level allows, to the unit.                              *)
THEOREM SpendingFillsIt == DeskSpec => []SpendingFillsPortion
  BY DeskInvInitially, DeskInvKept, InvFillsPortion, PTL DEF DeskSpec

(* Sums of any fund are numbers, and a message is made with a rate.        *)
THEOREM DeskTypesCorrect == DeskSpec => []DeskTypeOK
  BY DeskInvInitially, DeskInvKept, InvIsTyped, PTL DEF DeskSpec

(* The program as a whole, ids included, reports as Portfolio does.        *)
THEOREM DeskReports == SpecDesk => DeskSpec
<1>1. InitDesk => DeskInit
  BY DEF InitDesk
<1>2. [NextDesk]_desk => [DeskNext]_deskVars
  BY DEF NextDesk, OfPortfolio, OfIds, desk
<1>3. QED
  BY <1>1, <1>2, PTL DEF SpecDesk, DeskSpec

-----------------------------------------------------------------------------
(* Types *)

(* A bound that does not name a state, so that it can be used of the next. *)
IdsWithin(n) ==
  /\ assets \in Seq(Row) /\ Len(assets) = n
  /\ redis \in [Cash -> 0..n] /\ memory \in [Kept -> 0..n]
  /\ idFaults \in Nat /\ stale \in SUBSET Roles /\ lost \in SUBSET Cash
  /\ used.role \in Cash \cup Kept \cup {"none"} /\ used.id \in 0..n

LEMMA TypesAreWithin == IdsTypeOK <=> IdsWithin(Len(assets))
  BY DEF IdsTypeOK, IdsWithin, Row

LEMMA FilledWithin ==
  ASSUME assets \in Seq(Row), NEW ids \in [Cash -> 0..Len(assets)]
  PROVE  RedisCurrencyIdInit(ids) \in [Cash -> 0..Len(assets)]
<1>1. Len(assets) \in Nat /\ \A r : RetrieveAssetList(r) \in SUBSET 1..Len(assets)
  BY DEF RetrieveAssetList, Ids
<1>2. ASSUME NEW c \in Cash PROVE LastOf(RetrieveAssetList(c), ids[c]) \in 0..Len(assets)
  <2>1. CASE RetrieveAssetList(c) = {}
    BY <2>1 DEF LastOf
  <2>2. CASE RetrieveAssetList(c) # {}
    <3>1. LastOf(RetrieveAssetList(c), ids[c]) \in RetrieveAssetList(c)
      BY <1>1, <2>2, LastIsListed
    <3>2. QED
      BY <1>1, <3>1
  <2>3. QED
    BY <2>1, <2>2
<1>3. QED
  BY <1>2 DEF RedisCurrencyIdInit

LEMMA IdsTypedInitially == ASSUME IdsInit PROVE IdsTypeOK
<1>1. assets \in Seq(Row)
  BY Initially DEF IdsInv, Typed
<1>2. Len(assets) \in Nat /\ [c \in Cash |-> 0] \in [Cash -> 0..Len(assets)]
  BY <1>1
<1>3. redis \in [Cash -> 0..Len(assets)]
  BY <1>1, <1>2, FilledWithin DEF IdsInit
<1>4. memory \in [Kept -> 0..Len(assets)] /\ idFaults \in Nat /\ stale \in SUBSET Roles /\ lost \in SUBSET Cash
  BY <1>2 DEF IdsInit
<1>5. used.role = "none" /\ used.id = 0
  BY DEF IdsInit, NoUse
<1>6. QED
  BY <1>1, <1>2, <1>3, <1>4, <1>5 DEF IdsTypeOK, Row

(* Where no row is added, the number of rows stays.                        *)
LEMMA IdsTypesKept ==
  ASSUME IdsTypeOK, [IdsNext]_idVars
  PROVE  IdsTypeOK'
<1>1. PICK n \in Nat : IdsWithin(n) /\ n = Len(assets)
  BY TypesAreWithin DEF IdsTypeOK
<1>2. ASSUME IdsWithin(n)' PROVE IdsTypeOK'
  BY <1>2 DEF IdsWithin, IdsTypeOK, Row
<1>3. \A k \in Kept \cup Cash : k \in Roles
  BY Apart
<1>4. ASSUME NEW r \in Roles, SaveAssetInfo(r) PROVE IdsTypeOK'
  <2>1. /\ assets' = Append(assets, [role |-> r, live |-> TRUE])
        /\ stale' = stale \cup ({r} \cap Cash) /\ used' = NoUse /\ UNCHANGED <<redis, memory, idFaults, lost>>
    BY <1>4 DEF SaveAssetInfo
  <2>2. [role |-> r, live |-> TRUE] \in Row
    BY DEF Row
  <2>3. assets' \in Seq(Row) /\ Len(assets') = n + 1
    BY <1>1, <2>1, <2>2 DEF IdsWithin
  <2>4. \A i \in 0..n : i \in 0..n + 1
    OBVIOUS
  <2>5. redis' \in [Cash -> 0..n + 1] /\ memory' \in [Kept -> 0..n + 1]
    BY <1>1, <2>1, <2>4 DEF IdsWithin
  <2>6. used'.role = "none" /\ used'.id = 0 /\ 0 \in 0..n + 1
    BY <2>1 DEF NoUse
  <2>7. QED
    BY <1>1, <2>1, <2>3, <2>5, <2>6 DEF IdsWithin, IdsTypeOK, Row
<1>5. ASSUME NEW id \in Ids, DeleteAssetInfo(id) PROVE IdsTypeOK'
  <2>1. /\ assets' = [assets EXCEPT ![id].live = FALSE] /\ stale' = stale \cup {assets[id].role}
        /\ used' = NoUse /\ UNCHANGED <<redis, memory, idFaults, lost>>
    BY <1>5 DEF DeleteAssetInfo
  <2>2. assets[id] \in Row /\ id \in 1..Len(assets)
    BY <1>1 DEF IdsWithin, Ids
  <2>3. PICK row \in Row : row = [assets[id] EXCEPT !.live = FALSE]
    BY <2>2 DEF Row
  <2>4. assets' = [assets EXCEPT ![id] = row]
    BY <2>1, <2>3
  <2>5. assets' \in Seq(Row) /\ Len(assets') = n
    BY <1>1, <2>2, <2>3, <2>4 DEF IdsWithin
  <2>6. used'.role = "none" /\ used'.id = 0 /\ 0 \in 0..n /\ stale' \in SUBSET Roles
    BY <1>1, <2>1, <2>2 DEF NoUse, Row, IdsWithin
  <2>7. QED
    BY <1>1, <1>2, <2>1, <2>5, <2>6 DEF IdsWithin
<1>6. ASSUME NEW id \in Ids, Record(id) PROVE IdsTypeOK'
  <2>1. UNCHANGED <<assets, redis, memory, idFaults, stale, lost>>
    BY <1>6 DEF Record
  <2>2. CashOf(id) \in Cash /\ redis[CashOf(id)] \in 0..n /\ 0 \in 0..n
    BY <1>1 DEF CashOf, Cash, IdsWithin
  <2>3. used'.role \in Cash \cup Kept \cup {"none"} /\ used'.id \in 0..n
    <3>1. CASE used' = NoUse
      BY <2>2, <3>1 DEF NoUse
    <3>2. CASE used' = [role |-> CashOf(id), id |-> IF BothFound THEN redis[CashOf(id)] ELSE 0]
      BY <2>2, <3>2
    <3>3. QED
      BY <1>6, <3>1, <3>2 DEF Record
  <2>4. QED
    BY <1>1, <1>2, <2>1, <2>3 DEF IdsWithin
<1>7. CASE Restart \/ LookPanics
  <2>1. /\ redis' = RedisCurrencyIdInit(redis) /\ memory' = [k \in Kept |-> 0] /\ idFaults' \in Nat
        /\ stale' \in SUBSET Roles /\ lost' \in SUBSET Cash /\ used' = NoUse /\ assets' = assets
    BY <1>1, <1>7 DEF Restart, LookPanics, Fault, StartAgain, IdsWithin
  <2>2. redis' \in [Cash -> 0..n] /\ memory' \in [Kept -> 0..n]
    BY <1>1, <2>1, FilledWithin DEF IdsWithin
  <2>3. used'.role = "none" /\ used'.id = 0 /\ 0 \in 0..n
    BY <2>1 DEF NoUse
  <2>4. QED
    BY <1>1, <1>2, <2>1, <2>2, <2>3 DEF IdsWithin
<1>8. ASSUME NEW S \in SUBSET Cash, LoseKeys(S) PROVE IdsTypeOK'
  <2>1. /\ redis' \in [Cash -> 0..n] /\ idFaults' \in Nat /\ lost' \in SUBSET Cash
        /\ used'.role = "none" /\ used'.id = 0 /\ 0 \in 0..n /\ UNCHANGED <<assets, memory, stale>>
    BY <1>1, <1>8 DEF LoseKeys, Fault, IdsWithin, NoUse
  <2>2. QED
    BY <1>1, <1>2, <2>1 DEF IdsWithin
<1>9. ASSUME NEW k \in Kept, Look(k) PROVE IdsTypeOK'
  <2>1. FirstOf(RetrieveAssetList(k)) \in 0..n
    <3>1. RetrieveAssetList(k) \in SUBSET 1..n
      BY <1>1 DEF RetrieveAssetList, Ids
    <3>2. CASE RetrieveAssetList(k) = {}
      BY <3>2 DEF FirstOf
    <3>3. CASE RetrieveAssetList(k) # {}
      BY <3>1, <3>3, FirstIsListed
    <3>4. QED
      BY <3>2, <3>3
  <2>2. memory' \in [Kept -> 0..n]
    BY <1>1, <1>9, <2>1 DEF Look, LookedUp, IdsWithin
  <2>3. used'.role = k /\ used'.id = memory'[k] /\ stale' \in SUBSET Roles /\ UNCHANGED <<assets, redis, idFaults, lost>>
    BY <1>1, <1>9 DEF Look, IdsWithin
  <2>4. QED
    BY <1>1, <1>2, <2>2, <2>3 DEF IdsWithin
<1>10. CASE UNCHANGED idVars
  BY <1>10 DEF idVars, IdsTypeOK
<1>11. QED
  BY <1>4, <1>5, <1>6, <1>7, <1>8, <1>9, <1>10 DEF IdsNext

(* Whatever is asked of it, in any order, what the program knows of funds  *)
(* and assets keeps its types.                                             *)
THEOREM DeskTypes == SpecDesk => []TypesOK
<1>1. IdsInit => IdsTypeOK
  BY IdsTypedInitially
<1>2. IdsTypeOK /\ [IdsNext]_idVars => IdsTypeOK'
  BY IdsTypesKept
<1>3. IdsSpec => []IdsTypeOK
  BY <1>1, <1>2, PTL DEF IdsSpec
<1>4. DeskTypeOK /\ IdsTypeOK => TypesOK
  BY DEF TypesOK
<1>5. QED
  BY <1>3, <1>4, DeskTypesCorrect, DeskLooksUp, DeskReports, PTL

(* All of this holds of reports and ids side by side.                      *)
THEOREM DeskHolds ==
  SpecDesk => [](/\ AnswersAreOfOneMoment /\ SpendingFillsPortion /\ ToldOnceAPeriod
                 /\ OnlyStaleIdsMislead)
  BY AnswersOfOneMoment, SpendingFillsIt, ToldOnce, StaleIdsOnly, DeskLooksUp, DeskReports, PTL
=============================================================================
