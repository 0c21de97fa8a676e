------------------------------- MODULE AssetIds -------------------------------
(***************************************************************************)
(* Ids of assets that the program looks up and keeps: those of won and     *)
(* dollar in Redis, from the start after they are missing there on, and    *)
(* those of gold and of the coin of the DEX advice in package variables,   *)
(* from their first use on.  Meanwhile assets are registered and deleted,  *)
(* keys are lost and the program restarts.  A purchase is charged to one   *)
(* of the first two; the premium of gold and the advice use the others.    *)
(***************************************************************************)
EXTENDS Integers, Sequences

CONSTANTS
  Roles,      \* assets a user registers: the four, and others
  PaidInUsd,  \* those whose currency is USD
  MaxAssets,  \* bound: rows of the table
  MaxFaults   \* bound: restarts, and Redis losing its keys

Cash == {"won", "dollar"}
Kept == {"gold", "avax"}

ASSUME IdsAssumption ==
  /\ Cash \cup Kept \subseteq Roles /\ PaidInUsd \subseteq Roles \ {"won", "gold"}
  /\ "dollar" \in PaidInUsd
  /\ MaxAssets \in Nat /\ MaxFaults \in Nat

VARIABLES
  assets,    \* the table, by id: what each is, and whether it is not deleted
  redis,     \* the ids under KRW and USD, 0 if missing
  memory,    \* goldId and avaxId
  idFaults,
  (* History variables: no code reads them. *)
  stale,     \* roles with assets registered or deleted since their id was looked up
  lost,      \* keys lost and not put there again
  used       \* what the last step used an id for, and the id

idVars == <<assets, redis, memory, idFaults, stale, lost, used>>

NoUse == [role |-> "none", id |-> 0]

Ids == DOMAIN assets
IsLive(id) == id \in Ids /\ assets[id].live

(* Faulty variant: deleted assets are listed.                              *)
RetrieveAssetList_All(role) == {id \in Ids : assets[id].role = role}

RetrieveAssetList(role) == {id \in Ids : assets[id].role = role /\ assets[id].live}

FirstOf(S) == IF S = {} THEN 0 ELSE CHOOSE i \in S : \A j \in S : i <= j
LastOf(S, old) == IF S = {} THEN old ELSE CHOOSE i \in S : \A j \in S : i >= j

(* The loop over the list overwrites: the last of each category stays.     *)
RedisCurrencyIdInit(ids) ==
  IF ids["won"] # 0 THEN ids
  ELSE [c \in Cash |-> LastOf(RetrieveAssetList(c), ids[c])]

IdsInit ==
  /\ assets \in {<<>>, <<[role |-> "won", live |-> TRUE]>>}
  /\ redis = RedisCurrencyIdInit([c \in Cash |-> 0])
  /\ memory = [k \in Kept |-> 0]
  /\ idFaults = 0 /\ stale = {} /\ lost = {} /\ used = NoUse

-----------------------------------------------------------------------------
SaveAssetInfo(role) ==
  /\ Len(assets) < MaxAssets
  /\ assets' = Append(assets, [role |-> role, live |-> TRUE])
  /\ stale' = stale \cup ({role} \cap Cash)
  /\ used' = NoUse
  /\ UNCHANGED <<redis, memory, idFaults, lost>>

(* Soft: the row stays, and what refers to it.                             *)
DeleteAssetInfo(id) ==
  /\ IsLive(id)
  /\ assets' = [assets EXCEPT ![id].live = FALSE]
  /\ stale' = stale \cup {assets[id].role}
  /\ used' = NoUse
  /\ UNCHANGED <<redis, memory, idFaults, lost>>

(* The package variables are 0; Redis still has its keys, and is not asked *)
(* for that of the dollar.                                                 *)
StartAgain ==
  /\ redis' = RedisCurrencyIdInit(redis)
  /\ memory' = [k \in Kept |-> 0]
  /\ stale' = stale \ (IF redis["won"] = 0 THEN Cash \cup Kept ELSE Kept)
  /\ lost' = IF redis["won"] = 0 THEN {} ELSE lost
  /\ used' = NoUse
  /\ UNCHANGED assets

Fault == idFaults < MaxFaults /\ idFaults' = idFaults + 1

Restart == Fault /\ StartAgain

(* All of them, or some.                                                   *)
LoseKeys(S) ==
  /\ Fault
  /\ redis' = [c \in Cash |-> IF c \in S THEN 0 ELSE redis[c]]
  /\ lost' = lost \cup S
  /\ used' = NoUse
  /\ UNCHANGED <<assets, memory, stale>>

-----------------------------------------------------------------------------
(* runGoldKimchiPremium and runAvaxDexEvent: the first of the list; when   *)
(* there is none, the next run looks again.                                *)
LookedUp(k) == IF memory[k] = 0 THEN FirstOf(RetrieveAssetList(k)) ELSE memory[k]

(* An asset that is not there is an error for the advice.  For gold the    *)
(* error does not return, and the run panics: cron recovers it.            *)
Look(k) ==
  /\ memory' = [memory EXCEPT ![k] = LookedUp(k)]
  /\ used' = [role |-> k, id |-> memory'[k]]
  /\ stale' = IF memory[k] = 0 THEN stale \ {k} ELSE stale
  /\ UNCHANGED <<assets, redis, idFaults, lost>>

(* When a user has launched it, the panic takes the process down, which is *)
(* started again.  A query that fails does the same: Restart.              *)
LookPanics ==
  /\ ~IsLive(LookedUp("gold"))
  /\ StartAgain
  /\ UNCHANGED idFaults

(* RecordInvest of an asset that exists; the cash is looked up unless the  *)
(* asset is deleted, and both ids must be found.  Won itself is not paid   *)
(* for.                                                                    *)
CashOf(id) == IF assets[id].role \in PaidInUsd /\ id # redis["dollar"] THEN "dollar" ELSE "won"
BothFound == redis["won"] # 0 /\ redis["dollar"] # 0

Record(id) ==
  /\ id \in Ids
  /\ used' = IF ~IsLive(id) \/ (BothFound /\ id = redis["won"]) THEN NoUse
             ELSE [role |-> CashOf(id), id |-> IF BothFound THEN redis[CashOf(id)] ELSE 0]
  /\ UNCHANGED <<assets, redis, memory, idFaults, stale, lost>>

IdsNext ==
  \/ \E r \in Roles : SaveAssetInfo(r)
  \/ \E id \in Ids : DeleteAssetInfo(id) \/ Record(id)
  \/ Restart \/ LookPanics
  \/ \E S \in SUBSET Cash : S # {} /\ LoseKeys(S)
  \/ \E k \in Kept : Look(k)

IdsSpec == IdsInit /\ [][IdsNext]_idVars

-----------------------------------------------------------------------------
(* Properties *)

IdsTypeOK ==
  /\ assets \in Seq([role : Roles, live : BOOLEAN])
  /\ redis \in [Cash -> 0..Len(assets)] /\ memory \in [Kept -> 0..Len(assets)]
  /\ idFaults \in Nat /\ stale \in SUBSET Roles /\ lost \in SUBSET Cash
  /\ used.role \in Cash \cup Kept \cup {"none"} /\ used.id \in 0..Len(assets)

(* A purchase is charged to an asset that is won, or dollar, and not       *)
(* deleted, and gold's premium and the advice are about the asset they     *)
(* name; the only exceptions are assets registered or deleted since their  *)
(* id was looked up, or not registered at all.  A key that is lost never   *)
(* misleads: until it is put there again nothing is charged to either.     *)
(* Where one of the cash assets is missing it is the same.                 *)
Misleading(role) == role \in stale \/ ~\E id \in Ids : assets[id] = [role |-> role, live |-> TRUE]
OnlyStaleIdsMislead ==
  \/ used = NoUse
  \/ used.id \in Ids /\ assets[used.id] = [role |-> used.role, live |-> TRUE]
  \/ Misleading(used.role)
  \/ used.id = 0 /\ used.role \in Cash /\ \E c \in Cash : c \in lost \/ Misleading(c)
===============================================================================
