------------------------- MODULE InvestLedgerProofs -------------------------
(***************************************************************************)
(* Proofs about InvestLedger, for any number of writers, funds, assets and *)
(* records and any number of faults.                                       *)
(***************************************************************************)
EXTENDS InvestLedger, SequenceTheorems, WellFoundedInduction, TLAPS

(* A writer that found a row is about to write back its current Count,     *)
(* unless the pair was raced for.  A pair without a row holds nothing.     *)
CopiesAreCurrent ==
  /\ \A p \in Pairs \ rows : count[p] = 0
  /\ \A w \in Writers :
       (pc[w] \in Updating /\ snap[w].found)
         => /\ Leg(w).pair \in rows
            /\ Leg(w).pair \notin raced => snap[w].count = count[Leg(w).pair]

(* Active writers work on different history rows, none of them broken, and *)
(* the step a writer has reached says which legs it has booked.            *)
StepsMatchLegs ==
  /\ broken \subseteq Ids
  /\ \A v, w \in Writers : Active(v) /\ Active(w) /\ rec[v] = rec[w] => v = w
  /\ \A w \in Writers :
       Active(w) =>
         /\ rec[w] \notin broken
         /\ posted[rec[w]] = IF pc[w] \in {"find1", "upd1"} THEN <<>>
                             ELSE <<FirstLeg(Inv(w))>>
         /\ pc[w] \in {"find2", "upd2"} => Inv(w).asset # Krw

(* Products of integers are integers.                                      *)
LEMMA IntProduct ==
  ASSUME NEW a \in Int, NEW b \in Int
  PROVE  a * b \in Int
OBVIOUS

(* Every quantity, price and rate is a number.                             *)
LEMMA Numbers ==
  /\ \A x \in Prices : x \in Int
  /\ \A x \in Counts : x \in Int
  /\ \A x \in Rates : x \in Nat
BY LedgerAssumption

(* What an active writer records, and the leg it books, are well typed.    *)
LEMMA InvTypes ==
  ASSUME TypeOK, NEW w \in Writers, Active(w)
  PROVE  /\ rec[w] \in Ids
         /\ Inv(w) \in Invests
         /\ Leg(w) \in Legs
         /\ FirstLeg(Inv(w)) \in Legs
         /\ CashLeg(Inv(w)) \in Legs
<1>1. rec[w] \in Ids /\ hist \in Seq(Invests)
  BY DEF TypeOK
<1>2. Inv(w) \in Invests
  BY <1>1 DEF Inv, Ids
<1>3. Inv(w).price * Inv(w).count \in Int
  <2>1. Inv(w).price \in Int /\ Inv(w).count \in Int
    <3>1. Inv(w).price \in Prices /\ Inv(w).count \in Counts
      BY <1>2 DEF Invests
    <3>2. QED
      BY <3>1, Numbers
  <2>2. QED
    BY <2>1, IntProduct
<1>4. FirstLeg(Inv(w)) \in Legs
  BY <1>2, LedgerAssumption DEF FirstLeg, Legs, Pairs, Invests
<1>5. CashLeg(Inv(w)) \in Legs
  <2>1. CashOf(Inv(w).asset) \in Assets
    BY LedgerAssumption DEF CashOf
  <2>2. Inv(w).fund \in Funds
    BY <1>2 DEF Invests
  <2>3. -(Inv(w).price * Inv(w).count) \in Int
    BY <1>3
  <2>4. QED
    BY <2>1, <2>2, <2>3 DEF CashLeg, Legs, Pairs
<1>6. QED
  BY <1>1, <1>2, <1>4, <1>5 DEF Leg

(* The initial state is well typed.                                        *)
LEMMA TypeInit == Init => TypeOK
BY LedgerAssumption, EmptySeq DEF Init, TypeOK, Ids, Active, NoRow, Rows, Steps, Finding, Updating

(* Moving a writer to a step keeps the type of pc.                         *)
LEMMA StepTypes ==
  ASSUME TypeOK, NEW w \in Writers, NEW step \in Steps, Goto(w, step)
  PROVE  pc' \in [Writers -> Steps]
BY DEF TypeOK, Goto

(* A step of one writer that leaves the history alone and moves no other   *)
(* writer keeps every active writer on a history row.                      *)
LEMMA StillActive ==
  ASSUME TypeOK, NEW w \in Writers, NEW step \in Steps, Goto(w, step), Active(w),
         UNCHANGED <<hist, rec>>
  PROVE  \A v \in Writers : Active(v)' => rec'[v] \in Ids'
BY DEF TypeOK, Goto, Active, Ids

(* Creating a history row preserves the types.                             *)
LEMMA TypeSaveInvest ==
  ASSUME TypeOK, NEW w \in Writers, NEW inv \in Invests, SaveInvest(w, inv)
  PROVE  TypeOK'
<1>1. Len(hist) \in Nat
  BY LenProperties DEF TypeOK
<1>2. hist' \in Seq(Invests) /\ Len(hist') = Len(hist) + 1
  BY AppendProperties DEF SaveInvest, TypeOK
<1>3. posted' \in Seq(Seq(Legs)) /\ Len(posted') = Len(posted) + 1
  BY AppendProperties, EmptySeq DEF SaveInvest, TypeOK
<1>4. pc' \in [Writers -> Steps]
  BY StepTypes DEF SaveInvest, Steps, Finding
<1>5. rec' \in [Writers -> Nat]
  BY <1>1 DEF SaveInvest, TypeOK
<1>6. ASSUME NEW v \in Writers, Active(v)'
      PROVE  rec'[v] \in Ids'
  BY <1>1, <1>2, <1>6 DEF SaveInvest, TypeOK, Active, Ids, Goto
<1>7. UNCHANGED <<rows, count, sum, later, live, rate, snap, stage, priced, todo,
                  faults, applied, split, raced, broken>>
  BY DEF SaveInvest, event
<1>8. QED
  BY <1>1, <1>2, <1>3, <1>4, <1>5, <1>6, <1>7 DEF TypeOK

(* Reading a holdings row preserves the types.                             *)
LEMMA TypeFind ==
  ASSUME TypeOK, NEW w \in Writers, FindRow(w) \/ FindRowFails(w)
  PROVE  TypeOK'
<1>1. Active(w) /\ Leg(w).pair \in Pairs
  BY InvTypes DEF FindRow, FindRowFails, Active, Finding, Legs
<1>2. Found(Leg(w).pair) \in Rows /\ NoRow \in Rows
  BY <1>1 DEF Found, NoRow, Rows, TypeOK
<1>3. snap' \in [Writers -> Rows]
  BY <1>2 DEF FindRow, FindRowFails, TypeOK
<1>4. PICK step \in Steps : Goto(w, step)
  BY DEF FindRow, FindRowFails, Steps, Updating
<1>5. faults' \in Nat
  BY DEF FindRow, FindRowFails, Fault, TypeOK
<1>6. UNCHANGED <<hist, rows, count, sum, later, live, rec, rate, stage, priced,
                  todo, posted, applied, split, raced, broken>>
  BY DEF FindRow, FindRowFails, ledger, event, ghosts
<1>7. pc' \in [Writers -> Steps]
  BY <1>4, StepTypes
<1>8. \A v \in Writers : Active(v)' => rec'[v] \in Ids'
  BY <1>1, <1>4, <1>6, StillActive
<1>9. QED
  BY <1>3, <1>5, <1>6, <1>7, <1>8 DEF TypeOK, Ids

(* Writing a holdings row back, or creating one, preserves its types.      *)
LEMMA TypeWriteRow ==
  ASSUME TypeOK, NEW p \in Pairs, NEW old \in Rows, NEW change \in Int, NEW amount \in Int,
         WriteBack(p, old, change, amount) \/ CreateRow(p, change, amount)
  PROVE  /\ rows' \in SUBSET Pairs
         /\ count' \in [Pairs -> Int] /\ sum' \in [Pairs -> Int]
         /\ later' \in [Pairs -> Seq(Int)] /\ split' \in [Pairs -> Int]
<1>1. CASE WriteBack(p, old, change, amount)
  <2>1. old.count + change \in Int /\ old.sum + amount \in Int
    BY DEF Rows
  <2>2. QED
    BY <1>1, <2>1 DEF WriteBack, TypeOK
<1>2. CASE CreateRow(p, change, amount) /\ p \notin rows
  BY <1>2 DEF CreateRow, TypeOK
<1>3. CASE CreateRow(p, change, amount) /\ p \in rows
  <2>1. later[p] \in Seq(Int) /\ split[p] + change \in Int
    BY DEF TypeOK
  <2>2. Append(later[p], change) \in Seq(Int)
    BY <2>1, AppendProperties
  <2>3. QED
    BY <1>3, <2>1, <2>2 DEF CreateRow, TypeOK
<1>4. QED
  BY <1>1, <1>2, <1>3

(* Booking a leg preserves the types.                                      *)
LEMMA TypeUpdateRow ==
  ASSUME TypeOK, NEW w \in Writers, UpdateRow(w)
  PROVE  TypeOK'
<1> DEFINE leg == Leg(w)
           amount == leg.change * LegPrice(w)
<1>1. Active(w) /\ leg.pair \in Pairs /\ leg.change \in Int /\ leg \in Legs /\ rec[w] \in Ids
  BY InvTypes DEF UpdateRow, Active, Updating, Legs
<1>2. LegPrice(w) \in Int
  <2>1. Inv(w) \in Invests
    BY <1>1, InvTypes
  <2>2. rate[w] \in Nat
    BY DEF TypeOK
  <2>3. Inv(w).price \in Int
    BY <2>1, Numbers DEF Invests
  <2>4. QED
    BY <2>2, <2>3 DEF LegPrice
<1>3. amount \in Int
  BY <1>1, <1>2, IntProduct
<1>4. snap[w].count \in Int /\ snap[w].sum \in Int
  BY DEF TypeOK, Rows
<1>5. /\ rows' \in SUBSET Pairs
      /\ count' \in [Pairs -> Int] /\ sum' \in [Pairs -> Int]
      /\ later' \in [Pairs -> Seq(Int)] /\ split' \in [Pairs -> Int]
  <2>1. snap[w] \in Rows
    BY DEF TypeOK
  <2>2. WriteBack(leg.pair, snap[w], leg.change, amount)
          \/ CreateRow(leg.pair, leg.change, amount)
    BY DEF UpdateRow
  <2>3. QED
    BY <2>1, <2>2, <1>1, <1>3, TypeWriteRow
<1>6. posted' \in Seq(Seq(Legs)) /\ Len(posted') = Len(posted)
  <2>1. Append(posted[rec[w]], leg) \in Seq(Legs)
    BY <1>1, AppendProperties DEF TypeOK, Ids
  <2>2. QED
    BY <1>1, <2>1, ExceptSeq DEF UpdateRow, TypeOK, Ids
<1>7. applied' \in [Pairs -> Int] /\ raced' \in SUBSET Pairs
  BY <1>1, SMTT(40) DEF UpdateRow, TypeOK
<1>8. PICK step \in Steps : Goto(w, step)
  BY DEF UpdateRow, Steps
<1>9. UNCHANGED <<hist, live, rec, rate, snap, stage, priced, todo, faults, broken>>
  BY DEF UpdateRow, event
<1>10. pc' \in [Writers -> Steps] /\ \A v \in Writers : Active(v)' => rec'[v] \in Ids'
  BY <1>1, <1>8, <1>9, StepTypes, StillActive
<1>11. QED
  BY <1>5, <1>6, <1>7, <1>9, <1>10 DEF TypeOK, Ids

(* Looking up the cash account preserves the types.                        *)
LEMMA TypeLookUpCash ==
  ASSUME TypeOK, NEW w \in Writers, LookUpCash(w)
  PROVE  TypeOK'
<1>1. Active(w)
  BY DEF LookUpCash, Active
<1>2. PICK step \in Steps : Goto(w, step)
  BY DEF LookUpCash, Steps, Finding
<1>3. rate' \in [Writers -> Nat]
  BY Numbers DEF LookUpCash, TypeOK
<1>4. UNCHANGED <<hist, rows, count, sum, later, live, rec, snap, stage, priced, todo,
                  faults, posted, applied, split, raced, broken>>
  BY DEF LookUpCash, ledger, event
<1>5. pc' \in [Writers -> Steps] /\ \A v \in Writers : Active(v)' => rec'[v] \in Ids'
  BY <1>1, <1>2, <1>4, StepTypes, StillActive
<1>6. QED
  BY <1>3, <1>4, <1>5 DEF TypeOK, Ids

(* A RecordInvest that ends early preserves the types.                     *)
LEMMA TypeGiveUp ==
  ASSUME TypeOK, NEW w \in Writers, LookUpFails(w) \/ UpdateRowFails(w)
  PROVE  TypeOK'
<1>1. Active(w)
  BY DEF LookUpFails, UpdateRowFails, Updating, Active
<1>2. PICK step \in Steps : Goto(w, step)
  BY DEF LookUpFails, UpdateRowFails, Steps
<1>3. broken' \in SUBSET Nat
  <2>1. rec[w] \in Nat /\ broken \subseteq Nat
    BY DEF TypeOK
  <2>2. broken' = broken \cup {rec[w]}
    BY DEF LookUpFails, UpdateRowFails, GiveUp
  <2>3. QED
    BY <2>1, <2>2
<1>4. faults' \in Nat
  BY DEF LookUpFails, UpdateRowFails, Fault, TypeOK
<1>5. UNCHANGED <<hist, rows, count, sum, later, live, rec, rate, snap, stage, priced,
                  todo, posted, applied, split, raced>>
  BY DEF LookUpFails, UpdateRowFails, GiveUp, ledger, event
<1>6. pc' \in [Writers -> Steps] /\ \A v \in Writers : Active(v)' => rec'[v] \in Ids'
  BY <1>1, <1>2, <1>5, StepTypes, StillActive
<1>7. QED
  BY <1>3, <1>4, <1>5, <1>6 DEF TypeOK, Ids

(* Passes touch their own state and the Sums, a deletion the assets, and a *)
(* crash stops every writer.                                               *)
PassStep(x) ==
  \/ PriceAssets(x) \/ ListRows(x) \/ PassFails(x)
  \/ \E t \in todo[x] : Reprice(x, t) \/ SumNotWritten(x, t)

Environment ==
  \/ \E x \in Passes : PassStep(x)
  \/ \E a \in Assets : DeleteAsset(a)
  \/ Crash

(* No pass, deletion or crash changes what writers read and book.          *)
LEMMA EnvironmentFrame ==
  ASSUME Environment
  PROVE  /\ UNCHANGED <<hist, rows, count, later, rec, rate, snap, posted, applied, split,
                        raced>>
         /\ Crash \/ UNCHANGED <<pc, broken>>
BY DEF Environment, PassStep, PriceAssets, ListRows, Reprice, SumNotWritten, PassFails,
       DeleteAsset, Crash, ledger, ghosts, event

(* A step of a pass keeps the types of the pass and of the Sums.           *)
LEMMA TypePass ==
  ASSUME TypeOK, NEW x \in Passes, PassStep(x)
  PROVE  /\ stage' \in [Passes -> {"idle", "list", "write"}]
         /\ priced' \in [Passes -> SUBSET Assets]
         /\ todo' \in [Passes -> SUBSET (Pairs \X Int)]
         /\ sum' \in [Pairs -> Int] /\ faults' \in Nat /\ live' = live
<1>1. CASE PriceAssets(x) \/ PassFails(x)
  <2>1. UNCHANGED <<sum, live>> /\ faults' \in Nat
    BY <1>1 DEF PriceAssets, PassFails, Fault, ledger, TypeOK
  <2>2. stage' \in [Passes -> {"idle", "list", "write"}]
    BY <1>1 DEF PriceAssets, PassFails, TypeOK
  <2>3. priced' \in [Passes -> SUBSET Assets]
    BY <1>1 DEF PriceAssets, PassFails, TypeOK
  <2>4. todo' \in [Passes -> SUBSET (Pairs \X Int)]
    BY <1>1 DEF PriceAssets, PassFails, TypeOK
  <2>5. QED
    BY <2>1, <2>2, <2>3, <2>4 DEF TypeOK
<1>2. CASE ListRows(x)
  <2>1. ASSUME NEW p \in rows PROVE <<p, count[p]>> \in Pairs \X Int
    BY DEF TypeOK
  <2>2. ASSUME NEW p \in rows, NEW i \in DOMAIN later[p]
        PROVE  <<p, later[p][i]>> \in Pairs \X Int
    BY DEF TypeOK
  <2>3. Listed(rows) \in SUBSET (Pairs \X Int)
    BY <2>1, <2>2 DEF Listed
  <2>4. QED
    BY <1>2, <2>3 DEF ListRows, ledger, TypeOK
<1>3. ASSUME NEW t \in todo[x], Reprice(x, t) \/ SumNotWritten(x, t)
      PROVE  /\ stage' \in [Passes -> {"idle", "list", "write"}]
             /\ priced' \in [Passes -> SUBSET Assets]
             /\ todo' \in [Passes -> SUBSET (Pairs \X Int)]
             /\ sum' \in [Pairs -> Int] /\ faults' \in Nat /\ live' = live
  <2>1. t[1] \in Pairs /\ t[2] \in Int /\ t[1][2] \in Assets
    BY DEF TypeOK, Pairs
  <2>2. Quote[t[1][2]] \in Int
    BY <2>1, LedgerAssumption
  <2>3. Value(x, t[1][2], t[2]) \in Int
    BY <2>1, <2>2, IntProduct DEF Value
  <2>4. sum' \in [Pairs -> Int]
    BY <1>3, <2>1, <2>3 DEF Reprice, SumNotWritten, ledger, TypeOK
  <2>5. /\ stage' \in [Passes -> {"idle", "list", "write"}]
        /\ todo' \in [Passes -> SUBSET (Pairs \X Int)]
    BY <1>3, ZenonT(60) DEF Reprice, SumNotWritten, Rest, TypeOK
  <2>6. UNCHANGED <<priced, live>> /\ faults' \in Nat
    BY <1>3 DEF Reprice, SumNotWritten, Fault, TypeOK
  <2>7. QED
    BY <2>4, <2>5, <2>6 DEF TypeOK
<1>4. QED
  BY <1>1, <1>2, <1>3 DEF PassStep

(* Passes, deletions and crashes preserve the types.                       *)
LEMMA TypeEnvironment ==
  ASSUME TypeOK, Environment
  PROVE  TypeOK'
<1>1. UNCHANGED <<hist, rows, count, later, rec, rate, snap, posted, applied, split,
                  raced>>
  BY EnvironmentFrame
<1>2. /\ stage' \in [Passes -> {"idle", "list", "write"}]
      /\ priced' \in [Passes -> SUBSET Assets]
      /\ todo' \in [Passes -> SUBSET (Pairs \X Int)]
      /\ sum' \in [Pairs -> Int] /\ faults' \in Nat /\ live' \in SUBSET Assets
  <2>1. CASE \E a \in Assets : DeleteAsset(a)
    BY <2>1 DEF DeleteAsset, Fault, ledger, event, TypeOK
  <2>2. CASE Crash
    BY <2>2 DEF Crash, Fault, ledger, TypeOK
  <2>3. QED
    BY <2>1, <2>2, TypePass DEF Environment, TypeOK
<1>6. broken' \in SUBSET Nat
  <2>1. \A w \in Writers : rec[w] \in Nat
    BY DEF TypeOK
  <2>2. Crash => broken' \subseteq Nat
    BY <2>1 DEF Crash, TypeOK
  <2>3. QED
    BY <2>2, EnvironmentFrame DEF TypeOK
<1>7. pc' \in [Writers -> Steps] /\ \A v \in Writers : Active(v)' => rec'[v] \in Ids'
  <2>1. CASE Crash
    BY <2>1, <1>1 DEF Crash, TypeOK, Active, Steps
  <2>2. CASE UNCHANGED pc
    BY <2>2, <1>1 DEF TypeOK, Active, Ids
  <2>3. QED
    BY <2>1, <2>2, EnvironmentFrame
<1>8. QED
  BY <1>1, <1>2, <1>6, <1>7 DEF TypeOK, Ids

(* Next, by who takes the step.                                            *)
LEMMA NextCases ==
  ASSUME Next
  PROVE  \/ \E w \in Writers, inv \in Invests : SaveInvest(w, inv)
         \/ \E w \in Writers : FindRow(w) \/ FindRowFails(w)
         \/ \E w \in Writers : UpdateRow(w)
         \/ \E w \in Writers : LookUpCash(w)
         \/ \E w \in Writers : LookUpFails(w) \/ UpdateRowFails(w)
         \/ Environment
BY DEF Next, Record, Fail, Environment, Pass, Write, PassStep

(* So does a step that changes nothing.                                    *)
LEMMA TypeStutter ==
  ASSUME TypeOK, UNCHANGED vars
  PROVE  TypeOK'
BY DEF vars, ledger, event, ghosts, TypeOK, Ids, Active

(* The tables, the writers and the asset event keep their types, and an    *)
(* active writer works on a history row, in every reachable state.         *)
THEOREM TypeCorrect == Spec => []TypeOK
<1>1. Init => TypeOK
  BY TypeInit
<1>2. TypeOK /\ [Next]_vars => TypeOK'
  <2> SUFFICES ASSUME TypeOK, [Next]_vars
               PROVE  TypeOK'
    OBVIOUS
  <2>1. CASE UNCHANGED vars
    BY <2>1, TypeStutter
  <2>2. CASE Next
    BY <2>2, NextCases, TypeSaveInvest, TypeFind, TypeUpdateRow, TypeLookUpCash,
       TypeGiveUp, TypeEnvironment
  <2>3. QED
    BY <2>1, <2>2
<1>3. QED
  BY <1>1, <1>2, PTL DEF Spec

-----------------------------------------------------------------------------
(* Only races lose changes *)

Exact == OnlyRacesLoseChanges /\ CopiesAreCurrent

(* The leg an active writer is booking depends on nothing that the other   *)
(* steps change.                                                           *)
LEMMA SameLeg ==
  ASSUME TypeOK, NEW v \in Writers, Active(v), UNCHANGED <<pc[v], rec[v]>>,
         UNCHANGED hist \/ \E inv \in Invests : hist' = Append(hist, inv)
  PROVE  Inv(v)' = Inv(v) /\ Leg(v)' = Leg(v)
<1>1. rec[v] \in 1..Len(hist) /\ hist \in Seq(Invests)
  BY DEF TypeOK, Ids
<1>2. hist'[rec[v]] = hist[rec[v]]
  <2>1. CASE UNCHANGED hist
    BY <2>1
  <2>2. CASE \E inv \in Invests : hist' = Append(hist, inv)
    BY <2>2, <1>1, AppendProperties
  <2>3. QED
    BY <2>1, <2>2
<1>3. Inv(v)' = Inv(v)
  BY <1>2 DEF Inv
<1>4. QED
  BY <1>3 DEF Leg

(* A step that writes no row keeps the rows and copies exact, if it        *)
(* overwrites no copy that is about to be written back.                    *)
LEMMA ExactFrame ==
  ASSUME TypeOK, Exact,
         UNCHANGED <<rows, count, split, applied, raced>>,
         UNCHANGED hist \/ \E inv \in Invests : hist' = Append(hist, inv),
         \A v \in Writers : pc'[v] \in Updating =>
           pc'[v] = pc[v] /\ UNCHANGED <<rec[v], snap[v]>>
  PROVE  Exact'
<1>1. OnlyRacesLoseChanges'
  BY DEF Exact, OnlyRacesLoseChanges
<1>2. ASSUME NEW v \in Writers, pc'[v] \in Updating, snap'[v].found
      PROVE  /\ (Leg(v).pair \in rows)'
             /\ (Leg(v).pair \notin raced => snap[v].count = count[Leg(v).pair])'
  <2>1. Active(v) /\ pc[v] \in Updating /\ snap[v].found
    BY <1>2 DEF Active, Updating
  <2>2. Leg(v)' = Leg(v)
    BY <1>2, <2>1, SameLeg
  <2>3. QED
    BY <1>2, <2>1, <2>2 DEF Exact, CopiesAreCurrent
<1>3. QED
  BY <1>1, <1>2 DEF Exact, CopiesAreCurrent

(* Reading a row keeps the rows and the copies exact.                      *)
LEMMA ExactFind ==
  ASSUME TypeOK, Exact, NEW w \in Writers, FindRow(w) \/ FindRowFails(w)
  PROVE  Exact'
<1>1. UNCHANGED <<hist, rows, count, split, applied, raced, rec>>
  BY DEF FindRow, FindRowFails, ledger, ghosts
<1>2. OnlyRacesLoseChanges'
  BY <1>1 DEF Exact, OnlyRacesLoseChanges
<1>3. ASSUME NEW v \in Writers, pc'[v] \in Updating, snap'[v].found
      PROVE  /\ (Leg(v).pair \in rows)'
             /\ (Leg(v).pair \notin raced => snap[v].count = count[Leg(v).pair])'
  <2>1. CASE v = w
    <3>1. Leg(w)' = Leg(w)
      BY <1>1 DEF FindRow, FindRowFails, Goto, Leg, Inv, TypeOK, Finding
    <3>2. snap'[w] = Found(Leg(w).pair)
      BY <1>3, <2>1 DEF FindRow, FindRowFails, NoRow, TypeOK
    <3>3. QED
      BY <1>1, <1>3, <2>1, <3>1, <3>2 DEF Found, NoRow
  <2>2. CASE v # w
    <3>1. pc'[v] = pc[v] /\ snap'[v] = snap[v]
      BY <2>2 DEF FindRow, FindRowFails, Goto, TypeOK
    <3>2. Leg(v)' = Leg(v)
      BY <1>1, <1>3, <3>1, SameLeg DEF Active, Updating
    <3>3. QED
      BY <1>1, <1>3, <3>1, <3>2 DEF Exact, CopiesAreCurrent
  <2>3. QED
    BY <2>1, <2>2
<1>4. QED
  BY <1>1, <1>2, <1>3 DEF Exact, CopiesAreCurrent

(* Booking a leg does too, unless another writer holds an older copy.      *)
LEMMA ExactUpdate ==
  ASSUME TypeOK, Exact, NEW w \in Writers, UpdateRow(w)
  PROVE  Exact'
<1> DEFINE p == Leg(w).pair
           d == Leg(w).change
<1>1. pc[w] \in Updating /\ Active(w) /\ p \in Pairs /\ d \in Int
  BY InvTypes DEF UpdateRow, Active, Updating, Legs
<1>2. /\ UNCHANGED <<hist, rec, snap>>
      /\ applied' = [applied EXCEPT ![p] = @ + d]
      /\ raced' = IF snap[w].found /\ Contended(w, p) THEN raced \cup {p} ELSE raced
      /\ pc'[w] \notin Updating
      /\ \A v \in Writers \ {w} : pc'[v] = pc[v]
  BY DEF UpdateRow, Goto, TypeOK, Updating
<1>3. /\ count \in [Pairs -> Int] /\ split \in [Pairs -> Int] /\ applied \in [Pairs -> Int]
      /\ snap[w].count \in Int
  BY DEF TypeOK, Rows
<1>4. \/ /\ snap[w].found
         /\ count' = [count EXCEPT ![p] = snap[w].count + d]
         /\ UNCHANGED <<rows, split>>
      \/ /\ ~snap[w].found /\ p \notin rows
         /\ rows' = rows \cup {p}
         /\ count' = [count EXCEPT ![p] = d]
         /\ UNCHANGED split
      \/ /\ ~snap[w].found /\ p \in rows
         /\ split' = [split EXCEPT ![p] = @ + d]
         /\ UNCHANGED <<rows, count>>
  BY DEF UpdateRow, WriteBack, CreateRow
<1>5. rows \subseteq rows' /\ \A q \in Pairs \ {p} : count'[q] = count[q] /\ split'[q] = split[q]
                                                      /\ applied'[q] = applied[q]
  BY <1>2, <1>3, <1>4
<1>6. raced \subseteq raced'
  BY <1>2
<1>7. \A q \in Pairs \ rows' : count'[q] = 0
  BY <1>1, <1>3, <1>4, <1>5 DEF Exact, CopiesAreCurrent
<1>8. p \notin raced' => count'[p] + split'[p] = applied'[p]
  <2> SUFFICES ASSUME p \notin raced'
               PROVE  count'[p] + split'[p] = applied'[p]
    OBVIOUS
  <2>1. count[p] + split[p] = applied[p]
    BY <1>1, <1>6 DEF Exact, OnlyRacesLoseChanges
  <2>2. applied'[p] = applied[p] + d
    BY <1>1, <1>2, <1>3
  <2>3. CASE snap[w].found
    <3>1. snap[w].count = count[p]
      BY <1>1, <1>6, <2>3 DEF Exact, CopiesAreCurrent
    <3>2. QED
      BY <1>1, <1>3, <1>4, <2>1, <2>2, <2>3, <3>1
  <2>4. CASE ~snap[w].found /\ p \notin rows
    <3>1. count[p] = 0
      BY <1>1, <2>4 DEF Exact, CopiesAreCurrent
    <3>2. QED
      BY <1>1, <1>3, <1>4, <2>1, <2>2, <2>4, <3>1
  <2>5. CASE ~snap[w].found /\ p \in rows
    BY <1>1, <1>3, <1>4, <2>1, <2>2, <2>5
  <2>6. QED
    BY <2>3, <2>4, <2>5
<1>9. ASSUME NEW v \in Writers, pc'[v] \in Updating, snap'[v].found
      PROVE  /\ (Leg(v).pair \in rows)'
             /\ (Leg(v).pair \notin raced => snap[v].count = count[Leg(v).pair])'
  <2>1. v # w /\ pc'[v] = pc[v] /\ Active(v)
    BY <1>2, <1>9 DEF Active, Updating
  <2>2. Leg(v)' = Leg(v) /\ Leg(v).pair \in Pairs
    BY <1>2, <2>1, SameLeg, InvTypes DEF Legs
  <2>3. Leg(v).pair \in rows /\ (Leg(v).pair \notin raced => snap[v].count = count[Leg(v).pair])
    BY <1>2, <1>9, <2>1 DEF Exact, CopiesAreCurrent
  <2>4. CASE Leg(v).pair # p
    BY <1>2, <1>5, <1>6, <2>2, <2>3, <2>4
  <2>5. CASE Leg(v).pair = p
    <3>1. Contended(w, p)
      BY <1>2, <1>9, <2>1, <2>5 DEF Contended
    <3>2. p \in raced' \/ UNCHANGED count
      BY <1>2, <1>4, <2>3, <2>5, <3>1
    <3>3. QED
      BY <1>2, <1>5, <1>6, <2>2, <2>3, <2>5, <3>2
  <2>6. QED
    BY <2>4, <2>5
<1>10. QED
  BY <1>5, <1>6, <1>7, <1>8, <1>9 DEF Exact, OnlyRacesLoseChanges, CopiesAreCurrent

(* Every step keeps the rows exact.                                        *)
LEMMA ExactNext ==
  ASSUME TypeOK, Exact, [Next]_vars
  PROVE  Exact'
<1>1. CASE UNCHANGED vars
  BY <1>1, ExactFrame DEF vars, ledger, ghosts, event
<1>2. ASSUME NEW w \in Writers, NEW inv \in Invests, SaveInvest(w, inv)
      PROVE  Exact'
  BY <1>2, ExactFrame DEF SaveInvest, Goto, Updating, TypeOK
<1>3. ASSUME NEW w \in Writers, LookUpCash(w)
      PROVE  Exact'
  BY <1>3, ExactFrame DEF LookUpCash, Goto, Updating, TypeOK, ledger
<1>4. ASSUME NEW w \in Writers, LookUpFails(w) \/ UpdateRowFails(w)
      PROVE  Exact'
  BY <1>4, ExactFrame DEF LookUpFails, UpdateRowFails, GiveUp, Goto, Updating,
     TypeOK, ledger
<1>5. CASE Environment
  <2>1. \A v \in Writers : pc'[v] \in Updating => pc'[v] = pc[v]
    BY <1>5, EnvironmentFrame DEF Crash, Updating
  <2>2. QED
    BY <1>5, <2>1, EnvironmentFrame, ExactFrame
<1>6. QED
  BY <1>1, <1>2, <1>3, <1>4, <1>5, NextCases, ExactFind, ExactUpdate

(* Whatever the number of writers, funds and assets and however calls fail *)
(* and processes crash, the Counts of a pair add up to the changes booked  *)
(* to it unless two writers held copies of its row at once.                *)
THEOREM RacesOnly == Spec => []OnlyRacesLoseChanges
<1>1. Init => Exact
  BY DEF Init, Exact, OnlyRacesLoseChanges, CopiesAreCurrent, Updating
<1>2. TypeOK /\ Exact /\ [Next]_vars => Exact'
  BY ExactNext
<1>3. Exact => OnlyRacesLoseChanges
  BY DEF Exact
<1>4. QED
  BY <1>1, <1>2, <1>3, TypeCorrect, PTL DEF Spec

-----------------------------------------------------------------------------
(* Double entry *)

Booked == DoubleEntry /\ StepsMatchLegs

(* A step that books nothing, after which every writer that is still       *)
(* active is at a step of the same leg, keeps the books.                   *)
Phase(step) == IF step \in {"find1", "upd1"} THEN "first"
               ELSE IF step = "lookup" THEN "lookup" ELSE "cash"

KeepsPhase(v) ==
  \/ Phase(pc'[v]) = Phase(pc[v])
  \/ pc[v] = "lookup" /\ pc'[v] = "find2" /\ Inv(v).asset # Krw

(* Steps that book nothing keep every history row booked as far as it was. *)
LEMMA BookedFrame ==
  ASSUME TypeOK, Booked,
         UNCHANGED <<hist, posted, rec>>,
         broken \subseteq broken', broken' \subseteq Ids,
         \A v \in Writers : Active(v)' =>
           Active(v) /\ rec[v] \notin broken' /\ KeepsPhase(v),
         \A v \in Writers : Active(v) /\ ~Active(v)' =>
           rec[v] \in broken' \/ posted[rec[v]] = FullLegs(Inv(v))
  PROVE  Booked'
<1>1. ASSUME NEW v \in Writers, Active(v)'
      PROVE  /\ posted'[rec'[v]] = IF pc'[v] \in {"find1", "upd1"} THEN <<>>
                                   ELSE <<FirstLeg(Inv(v)')>>
             /\ pc'[v] \in {"find2", "upd2"} => Inv(v)'.asset # Krw
  <2>1. Inv(v)' = Inv(v)
    BY DEF Inv
  <2>2. Active(v) /\ pc[v] \in Steps /\ pc'[v] # "idle"
    BY <1>1 DEF TypeOK, Active
  <2>3. /\ posted[rec[v]] = IF pc[v] \in {"find1", "upd1"} THEN <<>> ELSE <<FirstLeg(Inv(v))>>
        /\ pc[v] \in {"find2", "upd2"} => Inv(v).asset # Krw
    BY <2>2 DEF Booked, StepsMatchLegs
  <2>4. CASE Phase(pc'[v]) = Phase(pc[v])
    BY <2>1, <2>2, <2>3, <2>4 DEF Phase, Steps, Finding, Updating, Active
  <2>5. CASE pc[v] = "lookup" /\ pc'[v] = "find2" /\ Inv(v).asset # Krw
    BY <2>1, <2>3, <2>5
  <2>6. QED
    BY <1>1, <2>4, <2>5 DEF KeepsPhase
<1>2. StepsMatchLegs'
  BY <1>1 DEF Booked, StepsMatchLegs, Ids, Active
<1>3. ASSUME NEW id \in Ids
      PROVE  \/ posted[id] = FullLegs(hist[id])
             \/ /\ id \in broken' \/ \E w \in Writers : Active(w)' /\ rec[w] = id
                /\ posted[id] \in {<<>>, <<FirstLeg(hist[id])>>}
  <2>1. \/ posted[id] = FullLegs(hist[id])
        \/ Unfinished(id) /\ posted[id] \in {<<>>, <<FirstLeg(hist[id])>>}
    BY DEF Booked, DoubleEntry
  <2>2. QED
    BY <2>1 DEF Unfinished, Inv
<1>4. DoubleEntry'
  BY <1>3 DEF DoubleEntry, Unfinished, Ids, FullLegs, FirstLeg, CashLeg
<1>5. QED
  BY <1>2, <1>4 DEF Booked

(* A new history row has no leg booked, and its writer is about to start.  *)
LEMMA BookedSave ==
  ASSUME TypeOK, Booked, NEW w \in Writers, NEW inv \in Invests, SaveInvest(w, inv)
  PROVE  Booked'
<1> DEFINE n == Len(hist) + 1
<1>1. /\ Len(hist) \in Nat /\ Len(posted) = Len(hist)
      /\ hist \in Seq(Invests) /\ posted \in Seq(Seq(Legs))
  BY LenProperties DEF TypeOK
<1>2. /\ Len(hist') = n /\ \A i \in 1..Len(hist) : hist'[i] = hist[i]
      /\ \A i \in 1..Len(hist) : posted'[i] = posted[i]
      /\ posted'[n] = <<>>
  BY <1>1, AppendProperties, EmptySeq DEF SaveInvest
<1>3. /\ rec' = [rec EXCEPT ![w] = n] /\ pc' = [pc EXCEPT ![w] = "find1"]
      /\ UNCHANGED broken /\ ~Active(w)
  BY DEF SaveInvest, Goto
<1>4. Ids' = Ids \cup {n} /\ n \notin Ids
  BY <1>1, <1>2 DEF Ids
<1>5. \A v \in Writers \ {w} : pc'[v] = pc[v] /\ rec'[v] = rec[v]
  BY <1>3 DEF TypeOK
<1>6. pc'[w] = "find1" /\ rec'[w] = n
  BY <1>3 DEF TypeOK
<1>7. \A v \in Writers : Active(v) => rec[v] \in Ids /\ v # w
  BY <1>3 DEF TypeOK
<1>8. StepsMatchLegs'
  <2>1. broken' \subseteq Ids'
    BY <1>3, <1>4 DEF Booked, StepsMatchLegs
  <2>2. \A u, v \in Writers : Active(u)' /\ Active(v)' /\ rec'[u] = rec'[v] => u = v
    BY <1>4, <1>5, <1>6, <1>7 DEF Booked, StepsMatchLegs, Active
  <2>3. ASSUME NEW v \in Writers, Active(v)', v # w
        PROVE  /\ rec'[v] \notin broken'
               /\ posted'[rec'[v]] = IF pc'[v] \in {"find1", "upd1"} THEN <<>>
                                     ELSE <<FirstLeg(Inv(v)')>>
               /\ pc'[v] \in {"find2", "upd2"} => Inv(v)'.asset # Krw
    <3>1. Active(v) /\ rec[v] \in 1..Len(hist) /\ pc'[v] = pc[v] /\ rec'[v] = rec[v]
      BY <1>5, <1>7, <2>3 DEF Active, Ids
    <3>2. Inv(v)' = Inv(v)
      BY <1>2, <3>1 DEF Inv
    <3>3. QED
      BY <1>2, <1>3, <3>1, <3>2 DEF Booked, StepsMatchLegs
  <2>4. n \notin broken'
    BY <1>3, <1>4 DEF Booked, StepsMatchLegs
  <2>5. QED
    BY <1>2, <1>6, <2>1, <2>2, <2>3, <2>4 DEF StepsMatchLegs
<1>9. DoubleEntry'
  <2>1. ASSUME NEW id \in Ids
        PROVE  \/ posted'[id] = FullLegs(hist'[id])
               \/ Unfinished(id)' /\ posted'[id] \in {<<>>, <<FirstLeg(hist'[id])>>}
    <3>1. posted'[id] = posted[id] /\ hist'[id] = hist[id]
      BY <1>2 DEF Ids
    <3>2. Unfinished(id) => Unfinished(id)'
      BY <1>3, <1>5, <1>7 DEF Unfinished, Active
    <3>3. QED
      BY <3>1, <3>2 DEF Booked, DoubleEntry
  <2>2. ASSUME NEW id, id = n
        PROVE  Unfinished(id)' /\ posted'[id] = <<>>
    BY <1>2, <1>6, <2>2 DEF Unfinished, Active
  <2>3. QED
    BY <1>4, <2>1, <2>2 DEF DoubleEntry
<1>10. QED
  BY <1>8, <1>9 DEF Booked

(* Appending to a sequence of one element makes the pair of the two.       *)
LEMMA AppendPair ==
  ASSUME NEW S, NEW a \in S, NEW b \in S
  PROVE  Append(<<a>>, b) = <<a, b>>
<1>1. <<a>> \in Seq(S) /\ Len(<<a>>) = 1 /\ <<a>>[1] = a
  OBVIOUS
<1>2. <<a, b>> \in Seq(S) /\ Len(<<a, b>>) = 2 /\ <<a, b>>[1] = a /\ <<a, b>>[2] = b
  OBVIOUS
<1>3. /\ Append(<<a>>, b) \in Seq(S) /\ Len(Append(<<a>>, b)) = 2
      /\ Append(<<a>>, b)[1] = a /\ Append(<<a>>, b)[2] = b
  BY <1>1, AppendProperties
<1>4. \A i \in 1..2 : Append(<<a>>, b)[i] = <<a, b>>[i]
  BY <1>2, <1>3
<1>5. QED
  BY <1>2, <1>3, <1>4, SeqEqual

(* Booking a leg appends the leg that is due.                              *)
LEMMA BookedUpdate ==
  ASSUME TypeOK, Booked, NEW w \in Writers, UpdateRow(w)
  PROVE  Booked'
<1> DEFINE r == rec[w]
<1>1. /\ pc[w] \in Updating /\ Active(w) /\ rec[w] \in Ids /\ Inv(w) \in Invests
      /\ FirstLeg(Inv(w)) \in Legs /\ CashLeg(Inv(w)) \in Legs
  BY InvTypes DEF UpdateRow, Active, Updating
<1>2. /\ UNCHANGED <<hist, rec, broken>>
      /\ posted' = [posted EXCEPT ![rec[w]] = Append(@, Leg(w))]
      /\ pc' = [pc EXCEPT ![w] = IF pc[w] = "upd1" THEN "lookup" ELSE "idle"]
  BY DEF UpdateRow, Goto
<1>3. /\ \A i \in Ids : i # rec[w] => posted'[i] = posted[i]
      /\ posted'[rec[w]] = Append(posted[rec[w]], Leg(w))
      /\ pc'[w] = IF pc[w] = "upd1" THEN "lookup" ELSE "idle"
      /\ \A v \in Writers \ {w} : pc'[v] = pc[v]
  BY <1>1, <1>2 DEF TypeOK, Ids
<1>4. posted'[rec[w]] = IF pc[w] = "upd1" THEN <<FirstLeg(Inv(w))>> ELSE FullLegs(Inv(w))
  <2>1. CASE pc[w] = "upd1"
    <3>1. posted[rec[w]] = <<>> /\ Leg(w) = FirstLeg(Inv(w))
      BY <1>1, <2>1 DEF Booked, StepsMatchLegs, Leg
    <3>2. QED
      BY <1>1, <1>3, <2>1, <3>1
  <2>2. CASE pc[w] = "upd2"
    <3>1. /\ posted[rec[w]] = <<FirstLeg(Inv(w))>> /\ Leg(w) = CashLeg(Inv(w))
          /\ Inv(w).asset # Krw
      BY <1>1, <2>2 DEF Booked, StepsMatchLegs, Leg
    <3>2. Append(<<FirstLeg(Inv(w))>>, CashLeg(Inv(w))) = <<FirstLeg(Inv(w)), CashLeg(Inv(w))>>
      BY <1>1, AppendPair
    <3>3. posted'[rec[w]] = <<FirstLeg(Inv(w)), CashLeg(Inv(w))>>
      BY <1>3, <3>1, <3>2
    <3>4. pc[w] # "upd1"
      BY <2>2
    <3>5. QED
      BY <3>1, <3>3, <3>4 DEF FullLegs
  <2>3. QED
    BY <1>1, <2>1, <2>2 DEF Updating
<1>5. ASSUME NEW v \in Writers, Active(v)'
      PROVE  /\ Active(v)
             /\ rec'[v] \notin broken'
             /\ posted'[rec'[v]] = IF pc'[v] \in {"find1", "upd1"} THEN <<>>
                                   ELSE <<FirstLeg(Inv(v)')>>
             /\ pc'[v] \in {"find2", "upd2"} => Inv(v)'.asset # Krw
  <2>1. Inv(v)' = Inv(v) /\ rec'[v] = rec[v]
    BY <1>2 DEF Inv
  <2>2. CASE v = w
    BY <1>1, <1>2, <1>3, <1>4, <1>5, <2>1, <2>2 DEF Booked, StepsMatchLegs, Active, Updating
  <2>3. CASE v # w
    <3>1. pc'[v] = pc[v] /\ Active(v)
      BY <1>3, <1>5, <2>3 DEF Active
    <3>2. rec[v] # rec[w] /\ rec[v] \in Ids
      BY <1>1, <2>3, <3>1 DEF Booked, StepsMatchLegs, TypeOK
    <3>3. posted'[rec[v]] = posted[rec[v]]
      BY <1>3, <3>2
    <3>4. QED
      BY <1>2, <2>1, <3>1, <3>3 DEF Booked, StepsMatchLegs
  <2>4. QED
    BY <2>2, <2>3
<1>6. StepsMatchLegs'
  BY <1>2, <1>5 DEF Booked, StepsMatchLegs, Ids, Active
<1>7. ASSUME NEW id \in Ids
      PROVE  \/ posted'[id] = FullLegs(hist[id])
             \/ Unfinished(id)' /\ posted'[id] \in {<<>>, <<FirstLeg(hist[id])>>}
  <2>1. CASE id = rec[w] /\ pc[w] = "upd1"
    <3>1. Unfinished(id)'
      BY <1>2, <1>3, <2>1 DEF Unfinished, Active
    <3>2. QED
      BY <1>4, <2>1, <3>1 DEF Inv
  <2>2. CASE id = rec[w] /\ pc[w] = "upd2"
    BY <1>4, <2>2 DEF Inv
  <2>3. CASE id # rec[w]
    <3>1. posted'[id] = posted[id]
      BY <1>3, <2>3
    <3>2. Unfinished(id) => Unfinished(id)'
      BY <1>2, <1>3, <2>3 DEF Unfinished, Active
    <3>3. QED
      BY <3>1, <3>2 DEF Booked, DoubleEntry
  <2>4. QED
    BY <1>1, <2>1, <2>2, <2>3 DEF Updating
<1>8. DoubleEntry'
  BY <1>2, <1>7 DEF DoubleEntry, Ids
<1>9. QED
  BY <1>6, <1>8 DEF Booked

(* Every step keeps history rows booked in order.                          *)
LEMMA BookedNext ==
  ASSUME TypeOK, Booked, [Next]_vars
  PROVE  Booked'
<1>1. broken \subseteq Ids /\ \A v \in Writers : Active(v) => rec[v] \in Ids \ broken
  BY DEF Booked, StepsMatchLegs, TypeOK
<1>2. ASSUME UNCHANGED <<hist, posted, rec, pc, broken>>
      PROVE  Booked'
  <2>1. \A v \in Writers : (Active(v)' <=> Active(v)) /\ KeepsPhase(v)
    BY <1>2 DEF Active, KeepsPhase
  <2>2. QED
    BY <1>1, <1>2, <2>1, BookedFrame
<1>3. ASSUME NEW w \in Writers, FindRow(w) \/ FindRowFails(w)
      PROVE  Booked'
  <2>1. /\ UNCHANGED <<hist, posted, rec, broken>>
        /\ \A v \in Writers : Phase(pc'[v]) = Phase(pc[v]) /\ (Active(v)' <=> Active(v))
    BY <1>3 DEF FindRow, FindRowFails, Goto, ledger, ghosts, Phase, Active, TypeOK, Finding
  <2>2. \A v \in Writers : KeepsPhase(v)
    BY <2>1 DEF KeepsPhase
  <2>3. QED
    BY <1>1, <2>1, <2>2, BookedFrame
<1>4. ASSUME NEW w \in Writers, LookUpCash(w)
      PROVE  Booked'
  <2>1. /\ UNCHANGED <<hist, posted, rec, broken>>
        /\ pc[w] = "lookup" /\ Active(w)
        /\ pc'[w] = IF Inv(w).asset = Krw THEN "idle" ELSE "find2"
        /\ \A v \in Writers \ {w} : pc'[v] = pc[v]
    BY <1>4 DEF LookUpCash, Goto, ledger, TypeOK, Active
  <2>2. Inv(w).asset = Krw => posted[rec[w]] = FullLegs(Inv(w))
    BY <2>1 DEF Booked, StepsMatchLegs, FullLegs
  <2>3. Active(w)' => KeepsPhase(w)
    BY <2>1 DEF Active, KeepsPhase
  <2>4. \A v \in Writers \ {w} : (Active(v)' <=> Active(v)) /\ KeepsPhase(v)
    BY <2>1 DEF Active, KeepsPhase
  <2>5. ~Active(w)' => posted[rec[w]] = FullLegs(Inv(w))
    BY <2>1, <2>2 DEF Active
  <2>6. QED
    BY <1>1, <2>1, <2>3, <2>4, <2>5, BookedFrame
<1>5. ASSUME NEW w \in Writers, LookUpFails(w) \/ UpdateRowFails(w)
      PROVE  Booked'
  <2>1. /\ UNCHANGED <<hist, posted, rec>>
        /\ broken' = broken \cup {rec[w]}
        /\ Active(w)
        /\ pc'[w] = "idle"
        /\ \A v \in Writers \ {w} : pc'[v] = pc[v]
    BY <1>5 DEF LookUpFails, UpdateRowFails, GiveUp, Goto, ledger, TypeOK, Active,
       Updating
  <2>2. ~Active(w)'
    BY <2>1 DEF Active
  <2>3. \A v \in Writers \ {w} : (Active(v)' <=> Active(v)) /\ KeepsPhase(v)
    BY <2>1 DEF Active, KeepsPhase
  <2>4. \A v \in Writers \ {w} : Active(v) => rec[v] # rec[w]
    BY <2>1 DEF Booked, StepsMatchLegs
  <2>5. broken' \subseteq Ids /\ \A v \in Writers \ {w} : Active(v) => rec[v] \notin broken'
    BY <1>1, <2>1, <2>4
  <2>6. QED
    BY <2>1, <2>2, <2>3, <2>5, BookedFrame
<1>6. CASE Environment
  <2>1. UNCHANGED <<hist, posted, rec>>
    BY <1>6, EnvironmentFrame
  <2>2. CASE Crash
    <3>1. /\ \A v \in Writers : ~Active(v)'
          /\ broken' = broken \cup {rec[v] : v \in {u \in Writers : Active(u)}}
      BY <2>2 DEF Crash, Active
    <3>2. broken' \subseteq Ids /\ \A v \in Writers : Active(v) => rec[v] \in broken'
      BY <1>1, <3>1
    <3>3. QED
      BY <2>1, <3>1, <3>2, BookedFrame
  <2>3. QED
    BY <1>2, <1>6, <2>1, <2>2, EnvironmentFrame
<1>7. CASE UNCHANGED vars
  BY <1>2, <1>7 DEF vars, ledger, ghosts
<1>8. QED
  BY <1>3, <1>4, <1>5, <1>6, <1>7, NextCases, BookedSave, BookedUpdate

(* With one writer nothing races, so its rows are exact: the repricing of  *)
(* the asset event, which runs beside it, never costs a change.            *)
THEOREM SoleWriterLosesNothing ==
  ASSUME \A v, w \in Writers : v = w
  PROVE  Spec => []NoChangeIsLost
<1>1. Init => raced = {}
  BY DEF Init
<1>2. raced = {} /\ [Next]_vars => (raced = {})'
  <2> SUFFICES ASSUME raced = {}, [Next]_vars
               PROVE  raced' = {}
    OBVIOUS
  <2>1. ASSUME NEW w \in Writers, UpdateRow(w)
        PROVE  raced' = {}
    BY <2>1 DEF UpdateRow, Contended
  <2>2. CASE Environment
    BY <2>2, EnvironmentFrame
  <2>3. QED
    BY <2>1, <2>2, NextCases DEF SaveInvest, FindRow, FindRowFails, LookUpCash, LookUpFails,
       UpdateRowFails, GiveUp, vars, ghosts
<1>3. raced = {} /\ OnlyRacesLoseChanges => NoChangeIsLost
  BY DEF OnlyRacesLoseChanges, NoChangeIsLost
<1>4. QED
  BY <1>1, <1>2, <1>3, RacesOnly, PTL DEF Spec

(* Whatever interleaves, fails or crashes, a history row is booked in full *)
(* and once, or it is unfinished and lacks a suffix of its legs.           *)
THEOREM BookedOnce == Spec => []DoubleEntry
<1>1. Init => Booked
  BY DEF Init, Booked, DoubleEntry, StepsMatchLegs, Active, Ids
<1>2. TypeOK /\ Booked /\ [Next]_vars => Booked'
  BY BookedNext
<1>3. Booked => DoubleEntry
  BY DEF Booked
<1>4. QED
  BY <1>1, <1>2, <1>3, TypeCorrect, PTL DEF Spec

-----------------------------------------------------------------------------
(* Totals *)

Below == {ij \in Nat \X Nat : ij[1] < ij[2]}

(* Numbers have no first one that is out of a collection.                  *)
LEMMA AllNumbers ==
  ASSUME NEW M, 0 \in M, \A n \in Nat : n \in M => n + 1 \in M
  PROVE  \A n \in Nat : n \in M
<1>1. IsWellFoundedOn(Below, Nat)
  BY NatLessThanWellFounded DEF OpToRel, Below
<1> DEFINE Out == Nat \ M
<1>2. SUFFICES ASSUME Out # {} PROVE FALSE
  OBVIOUS
<1>3. Out \in SUBSET Nat
  OBVIOUS
<1>4. PICK i \in Out : \A j \in Out : <<j, i>> \notin Below
  <2> HIDE DEF Out
  <2> QED
    BY <1>1, <1>2, <1>3, WFMin
<1>5. i \in Nat \ {0} /\ i - 1 \in Nat
  OBVIOUS
<1>6. <<i - 1, i>> \in Below
  BY <1>5 DEF Below
<1>7. i - 1 \in M
  BY <1>4, <1>5, <1>6
<1>8. QED
  BY <1>5, <1>7

(* f has the totals of the beginnings of s, up to the first n numbers.     *)
AddsUp(s, f, n) ==
  /\ f \in [0 .. n -> Int]
  /\ f[0] = 0 /\ \A i \in 1 .. n : f[i] = f[i - 1] + s[i]

LEMMA AddsUpAlways ==
  ASSUME NEW s \in Seq(Int)
  PROVE  \E f : AddsUp(s, f, Len(s))
<1> DEFINE M == {n \in Nat : n <= Len(s) => \E f : AddsUp(s, f, n)}
<1>1. 0 \in M
  <2>1. AddsUp(s, [i \in 0 .. 0 |-> 0], 0)
    BY DEF AddsUp
  <2>2. QED
    BY <2>1
<1>2. ASSUME NEW n \in Nat, n \in M PROVE n + 1 \in M
  <2>1. SUFFICES ASSUME n + 1 <= Len(s) PROVE \E f : AddsUp(s, f, n + 1)
    OBVIOUS
  <2>2. n <= Len(s) /\ Len(s) \in Nat
    BY <2>1
  <2>3. PICK f : AddsUp(s, f, n)
    BY <1>2, <2>2
  <2>4. s[n + 1] \in Int
    BY <2>1, <2>2
  <2> DEFINE h == [i \in 0 .. n + 1 |-> IF i = n + 1 THEN f[n] + s[n + 1] ELSE f[i]]
  <2>5. \A i \in 0 .. n : h[i] = f[i] /\ f[i] \in Int
    BY <2>3 DEF AddsUp
  <2>6. h[n + 1] = f[n] + s[n + 1] /\ h \in [0 .. n + 1 -> Int]
    <3>1. \A i \in 0 .. n + 1 : (IF i = n + 1 THEN f[n] + s[n + 1] ELSE f[i]) \in Int
      <4>1. \A i \in 0 .. n : f[i] \in Int
        BY <2>3 DEF AddsUp
      <4>2. n \in 0 .. n /\ \A i \in 0 .. n + 1 : i # n + 1 => i \in 0 .. n
        OBVIOUS
      <4>3. f[n] + s[n + 1] \in Int
        BY <2>4, <4>1, <4>2
      <4>4. QED
        BY <4>1, <4>2, <4>3
    <3>2. QED
      BY <3>1
  <2> HIDE DEF h
  <2>7. \A i \in 1 .. n + 1 : h[i] = h[i - 1] + s[i]
    <3>1. \A i \in 1 .. n : i - 1 \in 0 .. n /\ i \in 0 .. n
      OBVIOUS
    <3>2. \A i \in 1 .. n : h[i] = h[i - 1] + s[i]
      BY <2>3, <2>5, <3>1 DEF AddsUp
    <3>3. h[n + 1] = h[(n + 1) - 1] + s[n + 1]
      BY <2>5, <2>6
    <3>4. QED
      BY <3>2, <3>3
  <2>8. AddsUp(s, h, n + 1)
    BY <2>3, <2>5, <2>6, <2>7 DEF AddsUp
  <2>9. QED
    BY <2>8
<1>3. \A n \in Nat : n \in M
  <2> HIDE DEF M
  <2> QED
    BY <1>1, <1>2, AllNumbers
<1>4. QED
  BY <1>3

(* ... and there is no other such f.                                       *)
LEMMA AddsUpOnce ==
  ASSUME NEW n \in Nat, NEW s, NEW f, NEW g, AddsUp(s, f, n),
         g[0] = 0, \A i \in 1 .. n : g[i] = g[i - 1] + s[i]
  PROVE  g[n] = f[n]
<1> DEFINE M == {i \in Nat : i <= n => g[i] = f[i]}
<1>1. 0 \in M
  BY DEF AddsUp
<1>2. ASSUME NEW i \in Nat, i \in M PROVE i + 1 \in M
  <2>1. SUFFICES ASSUME i + 1 <= n PROVE g[i + 1] = f[i + 1]
    OBVIOUS
  <2>2. g[i] = f[i] /\ i + 1 \in 1 .. n /\ (i + 1) - 1 = i
    BY <1>2, <2>1
  <2>3. g[i + 1] = g[(i + 1) - 1] + s[i + 1] /\ f[i + 1] = f[(i + 1) - 1] + s[i + 1]
    BY <2>2 DEF AddsUp
  <2>4. QED
    BY <2>2, <2>3
<1>3. \A i \in Nat : i \in M
  <2> HIDE DEF M
  <2> QED
    BY <1>1, <1>2, AllNumbers
<1>4. QED
  BY <1>3

LEMMA TotalIs ==
  ASSUME NEW s \in Seq(Int), NEW f, AddsUp(s, f, Len(s))
  PROVE  Total(s) = f[Len(s)] /\ Total(s) \in Int
<1> DEFINE Is(g) == g = [n \in 0 .. Len(s) |-> IF n = 0 THEN 0 ELSE g[n - 1] + s[n]]
<1> DEFINE upTo == CHOOSE g : Is(g)
<1>1. Len(s) \in Nat
  OBVIOUS
<1>2. f = [n \in 0 .. Len(s) |-> IF n = 0 THEN 0 ELSE f[n - 1] + s[n]]
  <2>1. \A n \in 0 .. Len(s) : f[n] = IF n = 0 THEN 0 ELSE f[n - 1] + s[n]
    BY <1>1 DEF AddsUp
  <2>2. f = [n \in 0 .. Len(s) |-> f[n]]
    BY DEF AddsUp
  <2>3. QED
    BY <2>1, <2>2
<1>3. Is(f)
  BY <1>2
<1>4. Is(upTo)
  <2> HIDE DEF Is
  <2> QED
    BY <1>3
<1>5. Total(s) = upTo[Len(s)]
  BY DEF Total
<1>6. PICK g : g = upTo
  OBVIOUS
<1> HIDE DEF upTo
<1>7. \A n \in 0 .. Len(s) : g[n] = IF n = 0 THEN 0 ELSE g[n - 1] + s[n]
  BY <1>4, <1>6
<1>8. g[0] = 0 /\ \A n \in 1 .. Len(s) : g[n] = g[n - 1] + s[n]
  BY <1>1, <1>7
<1>9. g[Len(s)] = f[Len(s)]
  BY <1>1, <1>8, AddsUpOnce
<1>10. QED
  BY <1>1, <1>5, <1>6, <1>9 DEF AddsUp

LEMMA TotalOfNone == Total(<<>>) = 0
<1>1. <<>> \in Seq(Int) /\ Len(<<>>) = 0
  OBVIOUS
<1>2. AddsUp(<<>>, [i \in 0 .. 0 |-> 0], 0)
  BY DEF AddsUp
<1>3. QED
  BY <1>1, <1>2, TotalIs

(* One more number.                                                        *)
LEMMA TotalAppends ==
  ASSUME NEW s \in Seq(Int), NEW x \in Int
  PROVE  Total(Append(s, x)) = Total(s) + x /\ Total(s) \in Int
<1> DEFINE n == Len(s)
           t == Append(s, x)
<1>1. /\ n \in Nat /\ t \in Seq(Int) /\ Len(t) = n + 1 /\ t[n + 1] = x
      /\ \A i \in 1 .. n : t[i] = s[i]
  OBVIOUS
<1>2. PICK f : AddsUp(s, f, n)
  BY AddsUpAlways
<1>3. PICK g : AddsUp(t, g, n + 1)
  BY <1>1, AddsUpAlways
<1> HIDE DEF n, t
<1>4. g[0] = 0 /\ \A i \in 1 .. n : g[i] = g[i - 1] + s[i]
  BY <1>1, <1>3 DEF AddsUp
<1>5. g[n] = f[n]
  BY <1>1, <1>2, <1>4, AddsUpOnce
<1>6. g[n + 1] = g[n] + x
  <2>1. n + 1 \in 1 .. n + 1 /\ (n + 1) - 1 = n
    BY <1>1
  <2>2. g[n + 1] = g[(n + 1) - 1] + t[n + 1]
    BY <1>3, <2>1 DEF AddsUp
  <2>3. QED
    BY <1>1, <2>1, <2>2
<1>7. Total(s) = f[n] /\ Total(s) \in Int
  BY <1>2, TotalIs DEF n
<1>8. Total(t) = g[n + 1]
  BY <1>1, <1>3, TotalIs
<1>9. QED
  BY <1>5, <1>6, <1>7, <1>8 DEF t

(* A number of it changes.                                                 *)
LEMMA TotalChanges ==
  ASSUME NEW s \in Seq(Int), NEW k \in 1 .. Len(s), NEW d \in Int, NEW t \in Seq(Int),
         Len(t) = Len(s), t[k] = s[k] + d, \A i \in 1 .. Len(s) : i # k => t[i] = s[i]
  PROVE  Total(t) = Total(s) + d
<1> DEFINE n == Len(s)
<1>1. n \in Nat /\ k \in Nat \ {0}
  OBVIOUS
<1>2. PICK f : AddsUp(s, f, n)
  BY AddsUpAlways
<1> DEFINE h == [i \in 0 .. n |-> IF i < k THEN f[i] ELSE f[i] + d]
<1>3. \A i \in 0 .. n : f[i] \in Int /\ h[i] = (IF i < k THEN f[i] ELSE f[i] + d)
  BY <1>2 DEF AddsUp
<1>4. h \in [0 .. n -> Int]
  BY <1>3, SMTT(40)
<1> HIDE DEF h
<1>5. ASSUME NEW i \in 1 .. n PROVE h[i] = h[i - 1] + t[i]
  <2>1. /\ i \in 0 .. n /\ i - 1 \in 0 .. n /\ f[i] = f[i - 1] + s[i] /\ s[i] \in Int
        /\ k \in Int /\ i \in Int
    BY <1>1, <1>2 DEF AddsUp
  <2>2. PICK a \in Int, b \in Int, c \in Int : a = f[i - 1] /\ b = f[i] /\ c = s[i]
    BY <1>3, <2>1
  <2>3. b = a + c
    BY <2>1, <2>2
  <2>4. h[i - 1] = (IF i - 1 < k THEN a ELSE a + d) /\ h[i] = (IF i < k THEN b ELSE b + d)
    BY <1>3, <2>1, <2>2
  <2>5. t[i] = IF i = k THEN c + d ELSE c
    BY <2>2
  <2>6. i < k <=> (i - 1 < k /\ i # k)
    BY <2>1, SMTT(40)
  <2>7. CASE i < k
    <3>1. h[i - 1] = a /\ h[i] = b /\ t[i] = c
      BY <2>1, <2>4, <2>5, <2>7
    <3>2. QED
      BY <2>3, <3>1
  <2>8. CASE i = k
    <3>1. h[i - 1] = a /\ h[i] = b + d /\ t[i] = c + d
      BY <2>1, <2>4, <2>5, <2>8
    <3>2. QED
      BY <2>3, <3>1
  <2>9. CASE i > k
    <3>1. h[i - 1] = a + d /\ h[i] = b + d /\ t[i] = c
      BY <2>1, <2>4, <2>5, <2>9
    <3>2. a + d + c = b + d
      BY <2>3
    <3>3. QED
      BY <3>1, <3>2
  <2>10. QED
    BY <2>1, <2>7, <2>8, <2>9
<1>6. h[0] = 0
  BY <1>1, <1>2, <1>3, SMTT(40) DEF AddsUp
<1>7. AddsUp(t, h, n)
  BY <1>4, <1>5, <1>6 DEF AddsUp
<1>8. Total(t) = h[n] /\ Total(s) = f[n]
  BY <1>2, <1>7, TotalIs
<1>9. h[n] = f[n] + d
  BY <1>1, <1>3
<1>10. QED
  BY <1>8, <1>9

-----------------------------------------------------------------------------
(* The rows of a pair and the history *)

Of(leg, p) == IF leg.pair = p THEN leg.change ELSE 0

(* What the legs booked for each history row change of pair p.             *)
Postings(p) == [id \in DOMAIN posted |-> Change(posted[id], p)]

(* The sums kept beside the tables are sums of what is in them.            *)
Totals ==
  \A p \in Pairs : applied[p] = Total(Postings(p)) /\ split[p] = Total(later[p])

(* A sequence that goes on as another one does, with one more number.      *)
LEMMA GoesOnAs ==
  ASSUME NEW s \in Seq(Int), NEW x \in Int, NEW t \in Seq(Int), Len(t) = Len(s) + 1,
         t[Len(s) + 1] = x, \A i \in 1 .. Len(s) : t[i] = s[i]
  PROVE  t = Append(s, x)
<1>1. /\ Append(s, x) \in Seq(Int) /\ Len(Append(s, x)) = Len(s) + 1
      /\ Append(s, x)[Len(s) + 1] = x /\ \A i \in 1 .. Len(s) : Append(s, x)[i] = s[i]
  BY AppendProperties
<1>2. \A i \in 1 .. Len(t) : t[i] = Append(s, x)[i]
  BY <1>1, LenProperties
<1>3. QED
  BY <1>1, <1>2, SeqEqual

LEMMA ChangeAppends ==
  ASSUME NEW legs \in Seq(Legs), NEW leg \in Legs, NEW p
  PROVE  Change(Append(legs, leg), p) = Change(legs, p) + Of(leg, p)
<1> DEFINE s == [i \in DOMAIN legs |-> Of(legs[i], p)]
           more == Append(legs, leg)
           t == [i \in DOMAIN more |-> Of(more[i], p)]
<1>1. \A l \in Legs : Of(l, p) \in Int
  BY DEF Legs, Of
<1>2. /\ more \in Seq(Legs) /\ Len(more) = Len(legs) + 1 /\ more[Len(legs) + 1] = leg
      /\ \A i \in 1 .. Len(legs) : more[i] = legs[i]
  BY AppendProperties
<1>3. /\ Len(legs) \in Nat /\ DOMAIN legs = 1 .. Len(legs) /\ DOMAIN more = 1 .. Len(more)
      /\ \A i \in 1 .. Len(legs) : legs[i] \in Legs
      /\ \A i \in 1 .. Len(more) : more[i] \in Legs
  BY <1>2, LenProperties, ElementOfSeq
<1>4. s \in Seq(Int) /\ Len(s) = Len(legs) /\ t \in Seq(Int) /\ Len(t) = Len(more)
  <2>1. s \in [1 .. Len(legs) -> Int] /\ t \in [1 .. Len(more) -> Int]
    BY <1>1, <1>3
  <2>2. Len(legs) \in Nat /\ Len(more) \in Nat
    BY <1>2, <1>3
  <2> HIDE DEF s, t, more
  <2>3. s \in Seq(Int) /\ Len(s) = Len(legs)
    BY <2>1, <2>2
  <2>4. t \in Seq(Int) /\ Len(t) = Len(more)
    BY <2>1, <2>2
  <2>5. QED
    BY <2>3, <2>4
<1>5. t = Append(s, Of(leg, p))
  <2>1. t[Len(s) + 1] = Of(leg, p) /\ \A i \in 1 .. Len(s) : t[i] = s[i]
    BY <1>2, <1>3, <1>4
  <2> HIDE DEF s, t, more
  <2>2. QED
    BY <1>1, <1>2, <1>4, <2>1, GoesOnAs
<1>6. Change(legs, p) = Total(s) /\ Change(more, p) = Total(t)
  BY DEF Change, Of
<1> HIDE DEF s, t
<1>7. QED
  BY <1>1, <1>4, <1>5, <1>6, TotalAppends

LEMMA ChangeOfNone == \A p : Change(<<>>, p) = 0
<1> TAKE p
<1>1. [i \in DOMAIN <<>> |-> IF <<>>[i].pair = p THEN <<>>[i].change ELSE 0] = <<>>
  OBVIOUS
<1>2. QED
  BY <1>1, TotalOfNone DEF Change

LEMMA ChangesAreNumbers ==
  ASSUME NEW legs \in Seq(Legs), NEW p
  PROVE  Change(legs, p) \in Int
<1> DEFINE s == [i \in DOMAIN legs |-> IF legs[i].pair = p THEN legs[i].change ELSE 0]
<1>1. Len(legs) \in Nat /\ DOMAIN legs = 1 .. Len(legs) /\ \A i \in 1 .. Len(legs) : legs[i] \in Legs
  BY LenProperties, ElementOfSeq
<1>2. s \in [1 .. Len(legs) -> Int]
  BY <1>1 DEF Legs
<1>3. s \in Seq(Int)
  <2> HIDE DEF s
  <2> QED
    BY <1>1, <1>2
<1>4. QED
  <2> HIDE DEF s
  <2>1. Total(s) \in Int
    BY <1>3, TotalAppends
  <2>2. QED
    BY <2>1 DEF Change, s

PostingsFit ==
  \A p : /\ Postings(p) \in Seq(Int) /\ Len(Postings(p)) = Len(posted)
         /\ \A id \in 1 .. Len(posted) : Postings(p)[id] = Change(posted[id], p)

LEMMA PostingsAreNumbers == TypeOK => PostingsFit
<1> SUFFICES ASSUME TypeOK, NEW p
             PROVE  /\ Postings(p) \in Seq(Int) /\ Len(Postings(p)) = Len(posted)
                    /\ \A id \in 1 .. Len(posted) : Postings(p)[id] = Change(posted[id], p)
  BY DEF PostingsFit
<1>1. /\ posted \in Seq(Seq(Legs)) /\ Len(posted) \in Nat /\ DOMAIN posted = 1 .. Len(posted)
      /\ \A id \in 1 .. Len(posted) : posted[id] \in Seq(Legs)
  BY LenProperties, ElementOfSeq DEF TypeOK
<1>2. Postings(p) \in [1 .. Len(posted) -> Int]
  BY <1>1, ChangesAreNumbers DEF Postings
<1>3. QED
  BY <1>1, <1>2 DEF Postings

LEMMA TotalsInit == ASSUME Init PROVE Totals
<1>1. \A p \in Pairs : applied[p] = 0 /\ split[p] = 0 /\ later[p] = <<>> /\ posted = <<>>
  BY DEF Init
<1>2. \A p \in Pairs : Postings(p) = <<>>
  BY <1>1 DEF Postings
<1>3. QED
  BY <1>1, <1>2, TotalOfNone DEF Totals

LEMMA TotalsSave ==
  ASSUME TypeOK, TypeOK', Totals, NEW w \in Writers, NEW inv \in Invests, SaveInvest(w, inv)
  PROVE  Totals'
<1>1. posted' = Append(posted, <<>>) /\ UNCHANGED <<later, applied, split>>
  BY DEF SaveInvest
<1>2. /\ posted \in Seq(Seq(Legs)) /\ Len(posted) \in Nat /\ Len(posted') = Len(posted) + 1
      /\ posted'[Len(posted) + 1] = <<>> /\ \A id \in 1 .. Len(posted) : posted'[id] = posted[id]
  BY <1>1, AppendProperties, LenProperties, EmptySeq DEF TypeOK
<1>3. \A p : /\ Postings(p) \in Seq(Int) /\ Len(Postings(p)) = Len(posted)
             /\ \A id \in 1 .. Len(posted) : Postings(p)[id] = Change(posted[id], p)
  BY PostingsAreNumbers DEF PostingsFit
<1>4. \A p : /\ Postings(p)' \in Seq(Int) /\ Len(Postings(p)') = Len(posted')
             /\ \A id \in 1 .. Len(posted') : Postings(p)'[id] = Change(posted'[id], p)
  <2>1. PostingsFit'
    BY PostingsAreNumbers, PTL
  <2>2. QED
    BY <2>1 DEF PostingsFit
<1>5. ASSUME NEW p \in Pairs
      PROVE  Total(Postings(p)') = Total(Postings(p))
  <2>1. PICK s, t : s = Postings(p) /\ t = Postings(p)'
    OBVIOUS
  <2>2. s \in Seq(Int) /\ t \in Seq(Int) /\ Len(s) = Len(posted) /\ Len(t) = Len(s) + 1
    BY <1>2, <1>3, <1>4, <2>1
  <2>3. t[Len(s) + 1] = 0
    <3>1. Len(posted) + 1 \in 1 .. Len(posted')
      BY <1>2
    <3>2. QED
      BY <1>2, <1>4, <2>1, <2>2, <3>1, ChangeOfNone, SMTT(40)
  <2>4. \A id \in 1 .. Len(s) : t[id] = s[id]
    <3>1. \A id \in 1 .. Len(posted) : id \in 1 .. Len(posted')
      BY <1>2
    <3>2. QED
      BY <1>2, <1>3, <1>4, <2>1, <2>2, <3>1, SMTT(40)
  <2>5. t = Append(s, 0)
    BY <2>2, <2>3, <2>4, GoesOnAs
  <2>6. Total(t) = Total(s) + 0 /\ Total(s) \in Int
    BY <2>2, <2>5, TotalAppends
  <2>7. QED
    BY <2>1, <2>6
<1>6. QED
  BY <1>1, <1>5 DEF Totals

LEMMA TotalsUpdate ==
  ASSUME TypeOK, TypeOK', Totals, NEW w \in Writers, UpdateRow(w)
  PROVE  Totals'
<1> DEFINE leg == Leg(w)
           r == rec[w]
<1>1. leg \in Legs /\ r \in Ids /\ Len(posted) = Len(hist)
  BY InvTypes DEF UpdateRow, Active, Updating, TypeOK
<1>2. /\ posted' = [posted EXCEPT ![r] = Append(@, leg)]
      /\ applied' = [applied EXCEPT ![leg.pair] = @ + leg.change]
  BY DEF UpdateRow
<1>3. \/ UNCHANGED <<later, split>>
      \/ /\ later' = [later EXCEPT ![leg.pair] = Append(@, leg.change)]
         /\ split' = [split EXCEPT ![leg.pair] = @ + leg.change]
  BY DEF UpdateRow, WriteBack, CreateRow
<1> HIDE DEF leg, r
<1>4. /\ posted \in Seq(Seq(Legs)) /\ r \in 1 .. Len(posted) /\ posted[r] \in Seq(Legs)
      /\ leg.pair \in Pairs /\ leg.change \in Int
  BY <1>1, ElementOfSeq DEF TypeOK, Ids, Legs
<1>5. /\ Len(posted') = Len(posted) /\ posted'[r] = Append(posted[r], leg)
      /\ \A id \in 1 .. Len(posted) : id # r => posted'[id] = posted[id]
  BY <1>2, <1>4
<1>6. PostingsFit /\ PostingsFit'
  BY PostingsAreNumbers, PTL
<1>7. ASSUME NEW p \in Pairs
      PROVE  Total(Postings(p)') = Total(Postings(p)) + Of(leg, p)
  <2>1. PICK s, t : s = Postings(p) /\ t = Postings(p)'
    OBVIOUS
  <2>2. /\ s \in Seq(Int) /\ t \in Seq(Int) /\ Len(s) = Len(posted) /\ Len(t) = Len(s)
        /\ \A id \in 1 .. Len(s) : s[id] = Change(posted[id], p) /\ t[id] = Change(posted'[id], p)
    BY <1>5, <1>6, <2>1 DEF PostingsFit
  <2>3. t[r] = s[r] + Of(leg, p)
    BY <1>1, <1>4, <1>5, <2>2, ChangeAppends
  <2>4. \A id \in 1 .. Len(s) : id # r => t[id] = s[id]
    BY <1>5, <2>2
  <2>5. Of(leg, p) \in Int
    BY <1>4 DEF Of
  <2>6. r \in 1 .. Len(s)
    BY <1>4, <2>2
  <2>7. Total(t) = Total(s) + Of(leg, p)
    BY <2>2, <2>3, <2>4, <2>5, <2>6, TotalChanges
  <2>8. QED
    BY <2>1, <2>7
<1>8. ASSUME NEW p \in Pairs
      PROVE  applied'[p] = applied[p] + Of(leg, p)
  <2>1. applied \in [Pairs -> Int] /\ applied[p] \in Int
    BY DEF TypeOK
  <2>2. applied'[p] = IF p = leg.pair THEN applied[p] + leg.change ELSE applied[p]
    BY <1>2, <2>1
  <2>3. QED
    BY <2>1, <2>2 DEF Of
<1>9. ASSUME NEW p \in Pairs
      PROVE  split'[p] = Total(later'[p])
  <2>1. split[p] = Total(later[p]) /\ later[p] \in Seq(Int)
    BY DEF Totals, TypeOK
  <2>2. CASE UNCHANGED <<later, split>> \/ p # leg.pair
    BY <1>3, <2>1, <2>2 DEF TypeOK
  <2>3. CASE p = leg.pair /\ ~UNCHANGED <<later, split>>
    <3>1. later'[p] = Append(later[p], leg.change) /\ split'[p] = split[p] + leg.change
      BY <1>3, <2>3 DEF TypeOK
    <3>2. Total(Append(later[p], leg.change)) = Total(later[p]) + leg.change
      BY <1>4, <2>1, TotalAppends
    <3>3. QED
      BY <2>1, <3>1, <3>2
  <2>4. QED
    BY <2>2, <2>3
<1>10. \A p \in Pairs : applied[p] = Total(Postings(p))
  BY DEF Totals
<1>11. QED
  BY <1>7, <1>8, <1>9, <1>10 DEF Totals

LEMMA TotalsNext ==
  ASSUME TypeOK, TypeOK', Totals, [Next]_vars
  PROVE  Totals'
<1>1. CASE UNCHANGED <<later, posted, applied, split>>
  <2>1. \A p : Postings(p)' = Postings(p)
    BY <1>1 DEF Postings
  <2>2. QED
    BY <1>1, <2>1 DEF Totals
<1>2. ASSUME NEW w \in Writers,
             \/ FindRow(w) \/ FindRowFails(w) \/ LookUpCash(w)
             \/ LookUpFails(w) \/ UpdateRowFails(w)
      PROVE  UNCHANGED <<later, posted, applied, split>>
  BY <1>2 DEF FindRow, FindRowFails, LookUpCash, LookUpFails, UpdateRowFails, GiveUp, ledger,
     ghosts
<1>3. QED
  BY <1>1, <1>2, NextCases, EnvironmentFrame, TotalsSave, TotalsUpdate DEF vars, ledger, ghosts

(* When everything is booked, what a pair is owed is what was booked to it.*)
LEMMA OwedIsApplied ==
  ASSUME TypeOK, Totals, DoubleEntry, AllBooked, NEW p \in Pairs
  PROVE  Owed(p) = applied[p] /\ Held(p) = count[p] + split[p]
<1>1. \A id \in Ids : posted[id] = FullLegs(hist[id])
  BY DEF AllBooked, DoubleEntry, Unfinished
<1>2. DOMAIN hist = Ids /\ DOMAIN posted = Ids
  BY LenProperties DEF TypeOK, Ids
<1>3. Owed(p) = Total(Postings(p))
  BY <1>1, <1>2 DEF Owed, Postings
<1>4. QED
  BY <1>3 DEF Totals, Held

(* However many writers, passes, failures and second rows there were: once *)
(* everything is booked, the rows of a pair add up to what the history     *)
(* says was bought, sold and paid, unless two writers held copies of its   *)
(* row at once.                                                            *)
THEOREM RacesOnlyUnbalance == Spec => []OnlyRacesUnbalance
<1>1. Init => Totals
  BY TotalsInit
<1>2. TypeOK /\ TypeOK' /\ Totals /\ [Next]_vars => Totals'
  BY TotalsNext
<1>3. TypeOK /\ Totals /\ DoubleEntry /\ OnlyRacesLoseChanges => OnlyRacesUnbalance
  BY OwedIsApplied DEF OnlyRacesUnbalance, OnlyRacesLoseChanges
<1>4. QED
  BY <1>1, <1>2, <1>3, TypeCorrect, BookedOnce, RacesOnly, PTL DEF Spec

(* So with one writer, invest_summary holds the current holdings.          *)
THEOREM SoleWriterBalances ==
  ASSUME \A v, w \in Writers : v = w
  PROVE  Spec => []SummaryIsHoldings
<1>1. Init => Totals
  BY TotalsInit
<1>2. TypeOK /\ TypeOK' /\ Totals /\ [Next]_vars => Totals'
  BY TotalsNext
<1>3. TypeOK /\ Totals /\ DoubleEntry /\ NoChangeIsLost => SummaryIsHoldings
  BY OwedIsApplied DEF SummaryIsHoldings, NoChangeIsLost
<1>4. Spec => []NoChangeIsLost
  BY SoleWriterLosesNothing
<1>5. QED
  BY <1>1, <1>2, <1>3, <1>4, TypeCorrect, BookedOnce, PTL DEF Spec
=============================================================================
