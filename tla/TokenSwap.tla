------------------------------ MODULE TokenSwap ------------------------------
(***************************************************************************)
(* The swap event: ten swaps of one token for the other, USDT for USDC and *)
(* back, by way of the universal router.                                   *)
(*                                                                         *)
(* A swap reads the router's permission at the latest block, adds a signed *)
(* permit if that is used up or expired, takes the account's nonce at the  *)
(* pending block, sends, and asks for the receipt a number of times.  The  *)
(* two readings and the sending are separate requests, cron and the user   *)
(* can run the event at once, and nothing in the program orders them.      *)
(*                                                                         *)
(* A transaction sent is a record of the sequence sent: its nonce is its   *)
(* place, since the node takes only the next one.  Amounts are in swaps:   *)
(* a permit is for Cover of them.                                          *)
(***************************************************************************)
EXTENDS Integers, Sequences, FiniteSets

CONSTANTS
  Jobs,        \* runs of the event that can overlap: the cron job, a request
  Cron,        \* those the cron runner recovers when they panic
  Legs,        \* swaps of a run (10)
  Polls,       \* requests for a receipt (10)
  Cover,       \* swaps a permit is for (100)
  NoPermit,    \* a transaction carries no permit
  MaxLaunches, \* bound: runs in all
  MaxFaults    \* bound: failed requests, expiries and swaps the pool refuses

ASSUME SwapAssumption ==
  /\ Cron \subseteq Jobs
  /\ Legs \in Nat \ {0} /\ Legs % 2 = 0
  /\ Polls \in Nat \ {0} /\ Cover \in Nat \ {0}
  /\ NoPermit \notin Nat
  /\ MaxLaunches \in Nat /\ MaxFaults \in Nat

Tokens == {"usdt", "usdc"}

VARIABLES
  pc,       \* step of each job
  leg,      \* swaps it has begun
  permit,   \* the nonce of the permit it signed for this swap
  nonce,    \* the account's nonce it was told
  tx,       \* the transaction it waits for
  tries,    \* receipts it has asked for
  (* The chain, as a node shows it. *)
  sent,     \* transactions the node has taken
  mined,    \* how many of them are in blocks
  grant,    \* the router's permission for each token
  launches, faults,
  (* History variables: no code reads them. *)
  risks,    \* per job: what may still spoil the swap it prepares
  carried,  \* the risks of each transaction sent and not in a block
  clash,    \* what swaps have failed for, and the risks of each
  told      \* swaps reported as failed, and runs cut short

job    == <<pc, leg, permit, nonce, tx, tries>>
chain  == <<sent, mined, grant>>
ghosts == <<risks, carried, clash, told>>
vars   == <<job, chain, launches, faults, ghosts>>

Init ==
  /\ pc = [j \in Jobs |-> "idle"] /\ leg = [j \in Jobs |-> 0]
  /\ permit = [j \in Jobs |-> NoPermit] /\ nonce = [j \in Jobs |-> 0]
  /\ tx = [j \in Jobs |-> 0] /\ tries = [j \in Jobs |-> 0]
  /\ sent = <<>> /\ mined = 0
  /\ grant = [t \in Tokens |-> [left |-> 0, live |-> FALSE, nonce |-> 0]]
  /\ launches = 0 /\ faults = 0
  /\ risks = [j \in Jobs |-> {}] /\ carried = {} /\ clash = {} /\ told = 0

Fault == faults < MaxFaults /\ faults' = faults + 1

(* isUsdcIn starts FALSE and is turned over after every swap.              *)
TokenIn(j) == IF leg[j] % 2 = 1 THEN "usdt" ELSE "usdc"

Pending(t) == {i \in (mined + 1)..Len(sent) : sent[i].in = t}
Preparing(t) == {j \in Jobs : pc[j] \in {"nonce", "send"} /\ TokenIn(j) = t}
Sending == {j \in Jobs : pc[j] = "send"}

(* Another may send with the nonce a job has read; another swap of its     *)
(* token is under way when it reads the permission, or is begun before it  *)
(* sends; the permission ends between its reading and its block.           *)
PermitRisks == {"beside", "lapse"}
AtRisk(S, r) == risks' = [j \in Jobs |-> IF j \in S THEN risks[j] \cup {r} ELSE risks[j]]
RisksOf(i) == {r \in PermitRisks : <<i, r>> \in carried}

-----------------------------------------------------------------------------
(* The run *)

(* runAvalancheSwap10TxEvent, from cron or LaunchEvent.                    *)
Launch(j) ==
  /\ pc[j] = "idle" /\ launches < MaxLaunches
  /\ pc' = [pc EXCEPT ![j] = "grant"] /\ leg' = [leg EXCEPT ![j] = 1]
  /\ launches' = launches + 1
  /\ UNCHANGED <<permit, nonce, tx, tries, chain, faults, ghosts>>

(* Faulty variant: a swap that failed is tried again the same way.         *)
EndLeg_Retry(j, failed) ==
  /\ pc' = [pc EXCEPT ![j] = IF leg[j] < Legs THEN "grant" ELSE "idle"]
  /\ leg' = [leg EXCEPT ![j] = CASE leg[j] >= Legs -> 0
                                 [] leg[j] < Legs /\ failed -> leg[j] + 2
                                 [] leg[j] < Legs /\ ~failed -> leg[j] + 1]
  /\ permit' = [permit EXCEPT ![j] = NoPermit]
  /\ nonce' = [nonce EXCEPT ![j] = 0]
  /\ tx' = [tx EXCEPT ![j] = 0] /\ tries' = [tries EXCEPT ![j] = 0]
  /\ risks' = [risks EXCEPT ![j] = {}]
  /\ told' = IF failed THEN told + 1 ELSE told

(* SwapUsdtUsdc returns; its error is sent to the user and the next swap   *)
(* goes the other way.                                                     *)
EndLeg(j, failed) ==
  /\ pc' = [pc EXCEPT ![j] = IF leg[j] < Legs THEN "grant" ELSE "idle"]
  /\ leg' = [leg EXCEPT ![j] = IF @ < Legs THEN @ + 1 ELSE 0]
  /\ permit' = [permit EXCEPT ![j] = NoPermit]
  /\ nonce' = [nonce EXCEPT ![j] = 0]
  /\ tx' = [tx EXCEPT ![j] = 0] /\ tries' = [tries EXCEPT ![j] = 0]
  /\ risks' = [risks EXCEPT ![j] = {}]
  /\ told' = IF failed THEN told + 1 ELSE told

-----------------------------------------------------------------------------
(* UniswapClient.Swap *)

NeedsPermit(g) == 1 > g.left \/ ~g.live

(* permit2Nonce reads the latest block; permit2 signs with the nonce read. *)
ReadGrant(j) ==
  LET t == TokenIn(j)
  IN  /\ pc[j] = "grant"
      /\ pc' = [pc EXCEPT ![j] = "nonce"]
      /\ permit' = [permit EXCEPT ![j] = IF NeedsPermit(grant[t])
                                         THEN grant[t].nonce ELSE NoPermit]
      /\ IF Pending(t) = {} /\ Preparing(t) = {} THEN UNCHANGED risks
         ELSE AtRisk(Preparing(t) \cup {j}, "beside")
      /\ UNCHANGED <<leg, nonce, tx, tries, chain, launches, faults, carried, clash, told>>

(* Faulty variant: the nonce of the latest block.                          *)
ReadNonce_Latest(j) ==
  /\ pc[j] = "nonce"
  /\ pc' = [pc EXCEPT ![j] = "send"]
  /\ nonce' = [nonce EXCEPT ![j] = mined]
  /\ IF Sending = {} THEN UNCHANGED risks ELSE AtRisk(Sending \cup {j}, "nonce")
  /\ UNCHANGED <<leg, permit, tx, tries, chain, launches, faults, carried, clash, told>>

(* PendingNonceAt counts the transactions that wait as well.               *)
ReadNonce(j) ==
  /\ pc[j] = "nonce"
  /\ pc' = [pc EXCEPT ![j] = "send"]
  /\ nonce' = [nonce EXCEPT ![j] = Len(sent)]
  /\ IF Sending = {} THEN UNCHANGED risks ELSE AtRisk(Sending \cup {j}, "nonce")
  /\ UNCHANGED <<leg, permit, tx, tries, chain, launches, faults, carried, clash, told>>

(* What send signs.                                                        *)
Signed(j) == [in |-> TokenIn(j), permit |-> permit[j], res |-> "pending"]

(* The node takes it; its risks are those of the job until now.            *)
Submit(j) ==
  /\ sent' = Append(sent, Signed(j))
  /\ carried' = carried \cup ({Len(sent) + 1} \X (risks[j] \cap PermitRisks))

(* SendTransaction: the node takes the next nonce and refuses one in use.  *)
(* The gas estimate has a default to fall back on and decides nothing.     *)
Send(j) ==
  /\ pc[j] = "send"
  /\ IF nonce[j] = Len(sent)
     THEN /\ Submit(j)
          /\ pc' = [pc EXCEPT ![j] = "poll"]
          /\ tx' = [tx EXCEPT ![j] = Len(sent')]
          /\ tries' = [tries EXCEPT ![j] = 0]
          /\ risks' = [risks EXCEPT ![j] = {}]
          /\ UNCHANGED <<leg, permit, nonce, clash, told>>
     ELSE /\ EndLeg(j, TRUE)
          /\ clash' = clash \cup {[over |-> "nonce", risks |-> risks[j]]}
          /\ UNCHANGED <<sent, carried>>
  /\ UNCHANGED <<mined, grant, launches, faults>>

(* A request of Swap fails.  If it is the last one, the node may have      *)
(* taken the transaction all the same.                                     *)
SwapFails(j) ==
  /\ pc[j] \in {"grant", "nonce", "send"}
  /\ Fault
  /\ EndLeg(j, TRUE)
  /\ \/ UNCHANGED <<sent, carried>>
     \/ pc[j] = "send" /\ nonce[j] = Len(sent) /\ Submit(j)
  /\ UNCHANGED <<mined, grant, launches, clash>>

-----------------------------------------------------------------------------
(* The receipt *)

Confirmed(j) == tx[j] <= mined

(* A receipt: status 0x1 is success.                                       *)
Receipt(j) ==
  /\ pc[j] = "poll" /\ Confirmed(j)
  /\ EndLeg(j, sent[tx[j]].res # "ok")
  /\ UNCHANGED <<chain, launches, faults, carried, clash>>

(* Faulty variant: only failed requests count as tries.                    *)
NotFound_NoCount(j) ==
  /\ pc[j] = "poll" /\ ~Confirmed(j)
  /\ IF tries[j] + 1 < Polls
     THEN UNCHANGED <<pc, leg, permit, nonce, tx, tries, risks, told>>
     ELSE EndLeg(j, TRUE)
  /\ UNCHANGED <<chain, launches, faults, carried, clash>>

(* Faulty variant: one try too many.                                       *)
NotFound_OffByOne(j) ==
  /\ pc[j] = "poll" /\ ~Confirmed(j)
  /\ IF tries[j] < Polls
     THEN /\ tries' = [tries EXCEPT ![j] = @ + 1]
          /\ UNCHANGED <<pc, leg, permit, nonce, tx, risks, told>>
     ELSE EndLeg(j, TRUE)
  /\ UNCHANGED <<chain, launches, faults, carried, clash>>

(* No receipt yet: a second later it is asked for again, Polls times.      *)
NotFound(j) ==
  /\ pc[j] = "poll" /\ ~Confirmed(j)
  /\ IF tries[j] + 1 < Polls
     THEN /\ tries' = [tries EXCEPT ![j] = @ + 1]
          /\ UNCHANGED <<pc, leg, permit, nonce, tx, risks, told>>
     ELSE EndLeg(j, TRUE)
  /\ UNCHANGED <<chain, launches, faults, carried, clash>>

(* The request itself fails.  GetReceipt drops the error, and a nil        *)
(* receipt without an error is dereferenced: the goroutine panics.  The    *)
(* cron runner recovers, a request takes the process down.                 *)
PollFails(j) ==
  LET lost == IF j \in Cron THEN {j} ELSE {k \in Jobs : pc[k] # "idle"}
      Clear(f, v) == [k \in Jobs |-> IF k \in lost THEN v ELSE f[k]]
  IN  /\ pc[j] = "poll" /\ Fault
      /\ pc' = Clear(pc, "idle") /\ leg' = Clear(leg, 0)
      /\ permit' = Clear(permit, NoPermit) /\ nonce' = Clear(nonce, 0)
      /\ tx' = Clear(tx, 0) /\ tries' = Clear(tries, 0)
      /\ risks' = Clear(risks, {}) /\ told' = told + Cardinality(lost)
      /\ UNCHANGED <<chain, launches, carried, clash>>

-----------------------------------------------------------------------------
(* The chain *)

(* A permit must carry the nonce of the permission it renews; a swap       *)
(* without one needs some permission left.                                 *)
Stale(t, g) == IF t.permit = NoPermit THEN NeedsPermit(g) ELSE t.permit # g.nonce
Renewed(t, g) == IF t.permit = NoPermit THEN g
                 ELSE [left |-> Cover, live |-> TRUE, nonce |-> g.nonce + 1]

(* The next transaction is in a block: the swap is done, or it reverts.    *)
Mine ==
  LET i == mined + 1
      t == sent[i]
      g == grant[t.in]
  IN  /\ mined < Len(sent)
      /\ mined' = i
      /\ \/ /\ ~Stale(t, g)
            /\ sent' = [sent EXCEPT ![i].res = "ok"]
            /\ grant' = [grant EXCEPT ![t.in] = [Renewed(t, g) EXCEPT !.left = @ - 1]]
            /\ UNCHANGED <<faults, clash>>
         \/ /\ Stale(t, g)
            /\ sent' = [sent EXCEPT ![i].res = "reverted"]
            /\ clash' = clash \cup {[over |-> "permit", risks |-> RisksOf(i)]}
            /\ UNCHANGED <<grant, faults>>
         \/ /\ ~Stale(t, g) /\ Fault     \* the price has moved, no balance
            /\ sent' = [sent EXCEPT ![i].res = "reverted"]
            /\ UNCHANGED <<grant, clash>>
      /\ carried' = {c \in carried : c[1] # i}
      /\ UNCHANGED <<job, launches, risks, told>>

(* A month has passed.                                                     *)
Expire(t) ==
  /\ grant[t].live /\ Fault
  /\ grant' = [grant EXCEPT ![t].live = FALSE]
  /\ AtRisk(Preparing(t), "lapse")
  /\ carried' = carried \cup (Pending(t) \X {"lapse"})
  /\ UNCHANGED <<job, sent, mined, launches, clash, told>>

-----------------------------------------------------------------------------
Step(j) == ReadGrant(j) \/ ReadNonce(j) \/ Send(j) \/ Receipt(j) \/ NotFound(j)

(* The event has been run as often as the bound allows.                    *)
Done ==
  /\ launches = MaxLaunches /\ mined = Len(sent)
  /\ \A j \in Jobs : pc[j] = "idle"
  /\ UNCHANGED vars

Next ==
  \/ \E j \in Jobs : Launch(j) \/ Step(j) \/ SwapFails(j) \/ PollFails(j)
  \/ Mine
  \/ \E t \in Tokens : Expire(t)
  \/ Done

Spec == Init /\ [][Next]_vars

(* A goroutine goes on.  Nothing is assumed of the chain.                  *)
Fairness == \A j \in Jobs : WF_vars(Step(j))

FairSpec == Spec /\ Fairness

-----------------------------------------------------------------------------
(* Properties *)

(* A job waits only for a transaction that was sent, and one in a block    *)
(* has a result.                                                           *)
TypeOK ==
  /\ pc \in [Jobs -> {"idle", "grant", "nonce", "send", "poll"}]
  /\ leg \in [Jobs -> 0..Legs] /\ nonce \in [Jobs -> Nat]
  /\ permit \in [Jobs -> Nat \cup {NoPermit}]
  /\ tries \in [Jobs -> 0..(Polls - 1)]
  /\ \A j \in Jobs : IF pc[j] = "poll" THEN tx[j] \in 1..Len(sent) ELSE tx[j] = 0
  /\ \A j \in Jobs : pc[j] = "idle" <=> leg[j] = 0
  /\ sent \in Seq([in : Tokens, permit : Nat \cup {NoPermit},
                   res : {"pending", "ok", "reverted"}])
  /\ mined \in 0..Len(sent)
  /\ \A i \in 1..Len(sent) : sent[i].res = "pending" <=> i > mined
  /\ grant \in [Tokens -> [left : 0..Cover, live : BOOLEAN, nonce : Nat]]
  /\ told \in Nat

(* Of every swap that failed so: for the nonce of the account, only if     *)
(* another one read it between its own reading and its sending; for that   *)
(* of its permit or what is left of a permission, only if another swap of  *)
(* the token was under way while it was prepared, of the other run or one  *)
(* given up before it was in a block, or if the permission ended between   *)
(* its reading and its block.  A swap that nothing of this befell fails    *)
(* for neither, whatever befell others before it.                          *)
ClashesAreExplained ==
  \A c \in clash : IF c.over = "nonce" THEN "nonce" \in c.risks ELSE c.risks # {}

Swapped(t) == Cardinality({i \in 1..Len(sent) : sent[i].in = t /\ sent[i].res = "ok"})

(* The swaps of a run go to and fro: when nothing is under way, the        *)
(* holdings have moved by at most one swap for each one the user was told  *)
(* had failed and each run a panic cut short, whatever was done late.      *)
DriftIsReported ==
  ((\A j \in Jobs : pc[j] = "idle") /\ mined = Len(sent))
     => /\ Swapped("usdt") - Swapped("usdc") <= told
        /\ Swapped("usdc") - Swapped("usdt") <= told

(* A run comes to its end although its transactions need not.              *)
RunsEnd == \A j \in Jobs : pc[j] # "idle" ~> pc[j] = "idle"
=============================================================================
