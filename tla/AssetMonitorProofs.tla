-------------------------- MODULE AssetMonitorProofs --------------------------
(***************************************************************************)
(* The alerts on any number of assets, passes, edits and failures: targets *)
(* are put back, and a message is repeated, only where two writers or two  *)
(* passes had an asset in hand at once.                                    *)
(***************************************************************************)
EXTENDS AssetMonitor, TLAPS

(* None is no asset, pass, row, side or price.                             *)
LEMMA NoneIsNone ==
  /\ None \notin Assets /\ None \notin Passes /\ None \notin Rows /\ None \notin Sides
  /\ InitRows \subseteq Rows /\ Edits \subseteq Rows
  /\ Levels \subseteq Targets /\ Targets \subseteq Nat /\ 0 \in Targets
  BY MonitorAssumption DEF MonitorAssumption, Targets

LEMMA RowFields ==
  ASSUME NEW r \in Rows
  PROVE  /\ r.buy \in Targets /\ r.sell \in Targets /\ r.top \in Targets
         /\ TargetsOf(r) \in [buy: Targets, sell: Targets]
  BY DEF Rows, TargetsOf

(* The row a pass writes: the targets it read, a price range that holds    *)
(* the price it fetched.                                                   *)
LEMMA RangeKeepsTargets ==
  ASSUME NEW x \in Passes, row[x] \in Rows, seen[x] \in Levels
  PROVE  /\ NewRange(x) \in Rows
         /\ TargetsOf(NewRange(x)) = TargetsOf(row[x])
         /\ NewRange(x).top >= row[x].top /\ NewRange(x).top >= seen[x]
<1>1. seen[x] \in Targets /\ seen[x] \in Nat /\ row[x].top \in Nat
  BY NoneIsNone, RowFields
<1>2. CASE row[x].top < seen[x]
  <2>1. NewRange(x) = [row[x] EXCEPT !.top = seen[x]]
    BY <1>2 DEF NewRange
  <2>2. QED
    BY <1>1, <1>2, <2>1 DEF Rows, TargetsOf
<1>3. CASE ~(row[x].top < seen[x])
  <2>1. NewRange(x) = [row[x] EXCEPT !.bottom = seen[x]] \/ NewRange(x) = row[x]
    BY <1>3 DEF NewRange
  <2>2. QED
    BY <1>1, <1>3, <2>1 DEF Rows, TargetsOf
<1>4. QED
  BY <1>2, <1>3

-----------------------------------------------------------------------------
(* Type correctness *)

LEMMA InitTypes == Init => TypeOK
<1>1. SUFFICES ASSUME Init PROVE TypeOK
  OBVIOUS
<1>2. table \in [Assets -> Rows] /\ live \in SUBSET Assets
  BY <1>1, NoneIsNone DEF Init
<1>3. wish \in [Assets -> [buy: Targets, sell: Targets]] /\ peak \in [Assets -> Targets]
  BY <1>1, <1>2, RowFields DEF Init
<1>4. TablesOK
  BY <1>1, <1>2, <1>3 DEF Init, TablesOK
<1>5. CacheOK
  BY <1>1 DEF Init, CacheOK
<1>6. PassesOK
  BY <1>1, NoneIsNone DEF Init, PassesOK
<1>7. \A x \in Passes : InStep(x)
  BY <1>1 DEF Init, InStep, Holding
<1>8. QED
  BY <1>4, <1>5, <1>6, <1>7 DEF TypeOK

(* A pass that leaves the others alone.                                    *)
Others(x) ==
  \A y \in Passes \ {x} :
    /\ at'[y] = at[y] /\ todo'[y] = todo[y] /\ cur'[y] = cur[y]
    /\ row'[y] = row[y] /\ seen'[y] = seen[y] /\ msg'[y] = msg[y]

LEMMA OthersInStep ==
  ASSUME TypeOK, NEW x \in Passes, Others(x), InStep(x)'
  PROVE  \A y \in Passes : InStep(y)'
  BY DEF TypeOK, Others, InStep

LEMMA StartTypes ==
  ASSUME TypeOK, NEW x \in Passes, Start(x) PROVE TypeOK' /\ Others(x)
<1>1. TablesOK' /\ CacheOK'
  BY DEF Start, TypeOK, TablesOK, CacheOK, table_, world, ghosts, sent
<1>2. PassesOK' /\ Others(x)
  BY DEF Start, Goto, TypeOK, PassesOK, TablesOK, Others
<1>3. InStep(x)'
  BY DEF Start, Goto, TypeOK, PassesOK, InStep, Holding
<1>4. QED
  BY <1>1, <1>2, <1>3, OthersInStep DEF TypeOK

LEMMA FetchTypes ==
  ASSUME TypeOK, NEW x \in Passes, NEW a \in Assets, Fetch(x, a) \/ FetchFails(x, a)
  PROVE  TypeOK' /\ Others(x)
<1>1. TablesOK' /\ CacheOK'
  BY DEF Fetch, FetchFails, TypeOK, TablesOK, CacheOK, table_, world, ghosts, sent
<1>2. CASE Fetch(x, a)
  <2>1. table[a] \in Rows /\ market[a] \in Levels /\ market[a] \in Targets
    BY NoneIsNone DEF TypeOK, TablesOK
  <2>2. PassesOK' /\ Others(x)
    BY <1>2, <2>1 DEF Fetch, Goto, TypeOK, PassesOK, Others, Holding
  <2>3. InStep(x)'
    BY <1>2, <2>1 DEF Fetch, Goto, TypeOK, PassesOK, InStep, Holding
  <2>4. QED
    BY <1>1, <2>2, <2>3, OthersInStep DEF TypeOK
<1>3. CASE FetchFails(x, a)
  <2>1. PassesOK' /\ Others(x)
    BY <1>3 DEF FetchFails, Goto, TypeOK, PassesOK, Others
  <2>2. InStep(x)'
    BY <1>3 DEF FetchFails, Goto, TypeOK, PassesOK, InStep, Holding
  <2>3. QED
    BY <1>1, <2>1, <2>2, OthersInStep DEF TypeOK
<1>4. QED
  BY <1>2, <1>3

LEMMA JudgeTypes ==
  ASSUME TypeOK, NEW x \in Passes, Judge(x) \/ JudgeUnsure(x) PROVE TypeOK' /\ Others(x)
<1>1. PICK side \in Sides \cup {None} :
        /\ at[x] = "judge" /\ Decide(x, side)
        /\ UNCHANGED <<table_, world, cache, todo, cur, row, seen, wish, peak, overlapped, sent>>
  BY DEF Judge, JudgeUnsure, Wanted, Sides
<1>2. TablesOK'
  BY <1>1 DEF TypeOK, TablesOK, table_, world
<1>3. cur[x] \in Assets
  BY <1>1 DEF TypeOK, InStep, Holding, PassesOK
<1>4. CacheOK'
  BY <1>1, <1>3 DEF TypeOK, CacheOK, Decide, sent
<1>5. PassesOK' /\ Others(x)
  BY <1>1 DEF Decide, Goto, TypeOK, PassesOK, Others, Holding
<1>6. InStep(x)'
  BY <1>1 DEF Decide, Goto, TypeOK, PassesOK, InStep, Holding
<1>7. QED
  BY <1>2, <1>4, <1>5, <1>6, OthersInStep DEF TypeOK

(* What a pass has in hand when it judges, marks, updates and sends.       *)
LEMMA InHand ==
  ASSUME TypeOK, NEW x \in Passes, at[x] \in Holding
  PROVE  /\ cur[x] \in Assets /\ row[x] \in Rows /\ seen[x] \in Levels
         /\ msg[x] # None => msg[x] \in Sides /\ Target(x) \in Targets
         /\ at[x] = "mark" => msg[x] # None
<1>1. cur[x] \in Assets /\ row[x] \in Rows /\ seen[x] \in Levels
  BY DEF TypeOK, InStep, PassesOK
<1>2. ASSUME msg[x] # None PROVE msg[x] \in Sides /\ Target(x) \in Targets
  <2>1. msg[x] \in Sides
    BY <1>2 DEF TypeOK, PassesOK
  <2>2. QED
    BY <1>1, <2>1 DEF Target, Sides, Buy, Sell, Rows
<1>3. QED
  BY <1>1, <1>2 DEF TypeOK, InStep

LEMMA MarkTypes ==
  ASSUME TypeOK, NEW x \in Passes, Mark(x) PROVE TypeOK' /\ Others(x)
<1>1. cur[x] \in Assets /\ msg[x] \in Sides /\ Target(x) \in Targets
  BY InHand DEF Mark, Holding
<1>2. TablesOK'
  BY DEF Mark, TypeOK, TablesOK, table_, world
<1>3. cache' \in [Assets -> [Sides -> Targets \cup {None}]]
  BY <1>1 DEF Mark, TypeOK, CacheOK
<1>4. told' \in [Assets -> [Sides -> BOOLEAN]]
  <2>1. HasMsgCache(cur[x], msg[x], Target(x)) \in BOOLEAN
    BY DEF HasMsgCache
  <2>2. QED
    BY <1>1, <2>1 DEF Mark, TypeOK, CacheOK
<1>5. CacheOK'
  BY <1>3, <1>4 DEF Mark, TypeOK, CacheOK
<1>6. PassesOK' /\ Others(x)
  BY DEF Mark, Goto, TypeOK, PassesOK, Others, Holding
<1>7. InStep(x)'
  BY DEF Mark, Goto, TypeOK, PassesOK, InStep, Holding
<1>8. QED
  BY <1>2, <1>5, <1>6, <1>7, OthersInStep DEF TypeOK

LEMMA UpdateTypes ==
  ASSUME TypeOK, NEW x \in Passes, UpdateRange(x) \/ UpdateRangeFails(x)
  PROVE  TypeOK' /\ Others(x)
<1>1. at[x] = "range"
  BY DEF UpdateRange, UpdateRangeFails
<1>2. cur[x] \in Assets /\ row[x] \in Rows /\ seen[x] \in Levels
  BY <1>1, InHand DEF Holding
<1>3. NewRange(x) \in Rows /\ seen[x] \in Targets
  BY <1>2, RangeKeepsTargets, NoneIsNone
<1>4. table' \in [Assets -> Rows]
  BY <1>3 DEF UpdateRange, UpdateRangeFails, TypeOK, TablesOK, table_
<1>5. peak' \in [Assets -> Targets]
  BY <1>3 DEF UpdateRange, UpdateRangeFails, TypeOK, TablesOK, Higher, ghosts
<1>6. TablesOK'
  BY <1>4, <1>5 DEF UpdateRange, UpdateRangeFails, TypeOK, TablesOK, world, table_, ghosts
<1>7. CacheOK'
  BY <1>2 DEF UpdateRange, UpdateRangeFails, Overlap, TypeOK, CacheOK, sent, ghosts
<1>8. PassesOK' /\ Others(x)
  BY DEF UpdateRange, UpdateRangeFails, Goto, TypeOK, PassesOK, Others, Holding
<1>9. InStep(x)'
  BY <1>1 DEF UpdateRange, UpdateRangeFails, Goto, TypeOK, PassesOK, InStep, Holding
<1>10. QED
  BY <1>6, <1>7, <1>8, <1>9, OthersInStep DEF TypeOK

LEMMA SendTypes ==
  ASSUME TypeOK, NEW x \in Passes, Send(x) \/ SendFails(x) PROVE TypeOK' /\ Others(x)
<1>1. at[x] = "send" /\ Leave(x)
  BY DEF Send, SendFails, Leave
<1>2. cur[x] \in Assets
  BY <1>1, InHand DEF Holding
<1>3. TablesOK'
  BY DEF Send, SendFails, TypeOK, TablesOK, table_, world
<1>4. told' \in [Assets -> [Sides -> BOOLEAN]]
  <2>1. told' = told \/ told' = [told EXCEPT ![cur[x]][msg[x]] = TRUE]
    BY DEF Send, SendFails
  <2>2. told \in [Assets -> [Sides -> BOOLEAN]]
    BY DEF TypeOK, CacheOK
  <2>3. told[cur[x]] \in [Sides -> BOOLEAN]
    BY <1>2, <2>2
  <2>4. [told[cur[x]] EXCEPT ![msg[x]] = TRUE] \in [Sides -> BOOLEAN]
    BY <2>3
  <2>5. QED
    BY <1>2, <2>1, <2>2, <2>4
<1>5. CacheOK'
  BY <1>2, <1>4 DEF Send, SendFails, TypeOK, CacheOK
<1>6. PassesOK' /\ Others(x)
  BY <1>1, NoneIsNone DEF Leave, Goto, TypeOK, PassesOK, Others, Holding
<1>7. InStep(x)'
  BY <1>1, <1>2 DEF Leave, Goto, TypeOK, PassesOK, InStep, Holding
<1>8. QED
  BY <1>3, <1>5, <1>6, <1>7, OthersInStep DEF TypeOK

(* What happens outside the passes.                                        *)
LEMMA OutsideTypes ==
  ASSUME TypeOK, NEW a \in Assets,
         \/ \E r \in Edits : UpdateAsset(a, r)
         \/ DeleteAsset(a) \/ Trade(a)
         \/ \E p \in Levels : Move(a, p)
         \/ \E s \in Sides : Lapse(a, s)
  PROVE  TypeOK' /\ UNCHANGED pass
<1>1. UNCHANGED pass
  BY DEF UpdateAsset, DeleteAsset, Trade, Move, Lapse
<1>2. PassesOK' /\ \A x \in Passes : InStep(x)'
  BY <1>1 DEF TypeOK, PassesOK, InStep, pass
<1>3. ASSUME NEW r \in Edits, UpdateAsset(a, r) PROVE TablesOK' /\ CacheOK'
  <2>1. r \in Rows /\ r.top \in Targets /\ TargetsOf(r) \in [buy: Targets, sell: Targets]
    BY NoneIsNone, RowFields
  <2>2. TablesOK'
    BY <1>3, <2>1 DEF UpdateAsset, TypeOK, TablesOK, world
  <2>3. CacheOK'
    BY <1>3 DEF UpdateAsset, Overlap, TypeOK, CacheOK, sent
  <2>4. QED
    BY <2>2, <2>3
<1>4. ASSUME DeleteAsset(a) PROVE TablesOK' /\ CacheOK'
  BY <1>4 DEF DeleteAsset, TypeOK, TablesOK, CacheOK, world, ghosts, sent
<1>5. ASSUME Trade(a) PROVE TablesOK' /\ CacheOK'
  BY <1>5 DEF Trade, TypeOK, TablesOK, CacheOK, table_, ghosts, sent
<1>6. ASSUME NEW p \in Levels, Move(a, p) PROVE TablesOK' /\ CacheOK'
  BY <1>6 DEF Move, TypeOK, TablesOK, CacheOK, table_, ghosts, sent
<1>7. ASSUME NEW s \in Sides, Lapse(a, s) PROVE TablesOK' /\ CacheOK'
  BY <1>7 DEF Lapse, TypeOK, TablesOK, CacheOK, table_, world
<1>8. QED
  BY <1>1, <1>2, <1>3, <1>4, <1>5, <1>6, <1>7 DEF TypeOK

LEMMA RestartTypes == ASSUME TypeOK, Restart PROVE TypeOK'
<1>1. TablesOK' /\ CacheOK'
  BY DEF Restart, TypeOK, TablesOK, CacheOK, table_, world
<1>2. PassesOK' /\ \A x \in Passes : InStep(x)'
  BY NoneIsNone DEF Restart, PassesOK, InStep, Holding
<1>3. QED
  BY <1>1, <1>2 DEF TypeOK

LEMMA StutterTypes == ASSUME TypeOK, UNCHANGED vars PROVE TypeOK'
  BY DEF vars, table_, world, pass, ghosts, sent, TypeOK, TablesOK, CacheOK, PassesOK, InStep

LEMMA StepTypes == ASSUME TypeOK, [Next]_vars PROVE TypeOK'
<1>1. ASSUME NEW x \in Passes, Step(x) \/ Fail(x) PROVE TypeOK'
  BY <1>1, StartTypes, FetchTypes, JudgeTypes, MarkTypes, UpdateTypes, SendTypes
     DEF Step, Fail
<1>2. QED
  BY <1>1, OutsideTypes, RestartTypes, StutterTypes DEF Next

(* Every reachable state is well typed, and a pass holds an asset, its row *)
(* and a price exactly from its query to its message.                      *)
THEOREM TypeCorrect == Spec => []TypeOK
  BY InitTypes, StepTypes, PTL DEF Spec

-----------------------------------------------------------------------------
(* Targets and ranges are put back only under an overlap *)

(* A pass that may write the row of an asset has the row of the table,     *)
(* unless the row was written meanwhile.                                   *)
Copies ==
  \A x \in Passes :
    at[x] \in {"judge", "mark", "range"} /\ cur[x] \notin overlapped
      => row[x] = table[cur[x]]

RangeInv == TypeOK /\ Copies /\ OnlyOverlapsRevert

(* A step that leaves the rows alone keeps the copies of passes that had   *)
(* them.                                                                   *)
LEMMA QuietStep ==
  ASSUME RangeInv, UNCHANGED <<table, wish, peak, overlapped>>,
         \A x \in Passes :
            at'[x] \in {"judge", "mark", "range"}
              => \/ row'[x] = table[cur'[x]]
                 \/ /\ at[x] \in {"judge", "mark", "range"}
                    /\ cur'[x] = cur[x] /\ row'[x] = row[x]
  PROVE  Copies' /\ OnlyOverlapsRevert'
<1>1. OnlyOverlapsRevert'
  BY DEF RangeInv, OnlyOverlapsRevert, TargetsOf
<1>2. QED
  BY <1>1 DEF RangeInv, Copies

(* A write of one row: whoever holds a copy of it is marked.               *)
LEMMA RowStep ==
  ASSUME RangeInv, NEW x \in Passes \cup {None}, NEW a \in Assets, NEW r,
         table' = [table EXCEPT ![a] = r], Overlap(x, a),
         \A y \in Passes \ {x} :
            at'[y] = at[y] /\ cur'[y] = cur[y] /\ row'[y] = row[y],
         x # None => at'[x] \notin {"judge", "mark", "range"}
  PROVE  Copies' /\ overlapped \subseteq overlapped'
<1>1. overlapped \subseteq overlapped'
  BY DEF Overlap
<1>2. ASSUME NEW y \in Passes, at'[y] \in {"judge", "mark", "range"},
             cur'[y] \notin overlapped'
      PROVE  row'[y] = table'[cur'[y]]
  <2>1. y # x /\ y \in Passes \ {x}
    BY <1>2, NoneIsNone
  <2>2. /\ at[y] \in {"judge", "mark", "range"}
        /\ cur'[y] = cur[y] /\ row'[y] = row[y] /\ cur[y] \notin overlapped
    BY <1>1, <1>2, <2>1
  <2>3. cur[y] = a => y \in Holders(x, a)
    BY <2>1, <2>2 DEF Holders
  <2>4. cur[y] # a
    BY <1>2, <2>2, <2>3 DEF Overlap
  <2>5. cur[y] \in Assets
    BY <2>2, InHand DEF RangeInv, Holding
  <2>6. QED
    BY <2>2, <2>4, <2>5 DEF RangeInv, Copies, TypeOK, TablesOK
<1>3. QED
  BY <1>1, <1>2 DEF Copies

LEMMA InitRange == Init => RangeInv
<1>1. SUFFICES ASSUME Init PROVE RangeInv
  OBVIOUS
<1>2. TypeOK
  BY <1>1, InitTypes
<1>3. Copies
  BY <1>1 DEF Init, Copies
<1>4. ASSUME NEW a \in Assets PROVE TargetsOf(table[a]) = wish[a] /\ table[a].top >= peak[a]
  <2>1. table[a].top \in Nat
    BY <1>2, RowFields, NoneIsNone DEF TypeOK, TablesOK
  <2>2. QED
    BY <1>1, <2>1 DEF Init
<1>5. QED
  BY <1>2, <1>3, <1>4 DEF RangeInv, OnlyOverlapsRevert

LEMMA UpdateKeepsRange ==
  ASSUME RangeInv, NEW x \in Passes, UpdateRange(x) PROVE Copies' /\ OnlyOverlapsRevert'
<1>1. /\ at[x] = "range" /\ at'[x] = "send" /\ cur' = cur /\ row' = row /\ wish' = wish
      /\ \A y \in Passes \ {x} : at'[y] = at[y]
  BY DEF RangeInv, TypeOK, PassesOK, UpdateRange, Goto
<1>2. cur[x] \in Assets /\ row[x] \in Rows /\ seen[x] \in Levels /\ TypeOK
  BY <1>1, InHand DEF RangeInv, Holding
<1>3. /\ TargetsOf(NewRange(x)) = TargetsOf(row[x])
      /\ NewRange(x).top >= row[x].top /\ NewRange(x).top >= seen[x]
      /\ NewRange(x).top \in Nat /\ row[x].top \in Nat /\ seen[x] \in Nat
  BY <1>2, RangeKeepsTargets, RowFields, NoneIsNone
<1>4. CASE cur[x] \notin live
  <2>1. UNCHANGED <<table, wish, peak, overlapped>>
    BY <1>4 DEF UpdateRange
  <2>2. QED
    BY <1>1, <2>1, QuietStep
<1>5. CASE cur[x] \in live
  <2>1. peak' = [peak EXCEPT ![cur[x]] = Higher(@, seen[x])]
    BY <1>5 DEF UpdateRange
  <2>2. Copies' /\ overlapped \subseteq overlapped'
    <3>1. CASE NewRange(x) = row[x]
      <4>1. UNCHANGED <<table, overlapped>>
        BY <3>1 DEF UpdateRange
      <4>2. QED
        BY <1>1, <4>1 DEF RangeInv, Copies
    <3>2. CASE NewRange(x) # row[x]
      <4>1. table' = [table EXCEPT ![cur[x]] = NewRange(x)] /\ Overlap(x, cur[x])
        BY <1>5, <3>2 DEF UpdateRange
      <4>2. QED
        BY <1>1, <1>2, <4>1, RowStep
    <3>3. QED
      BY <3>1, <3>2
  <2>3. table'[cur[x]] = NewRange(x) \/ (table' = table /\ NewRange(x) = row[x])
    BY <1>2, <1>5 DEF UpdateRange, TypeOK, TablesOK
  <2>4. \A a \in Assets : a # cur[x] => table'[a] = table[a] /\ peak'[a] = peak[a]
    BY <1>2, <2>1 DEF UpdateRange, TypeOK, TablesOK
  <2>5. ASSUME cur[x] \notin overlapped'
        PROVE  /\ TargetsOf(table'[cur[x]]) = wish[cur[x]]
               /\ table'[cur[x]].top >= peak'[cur[x]]
    <3>1. cur[x] \notin overlapped
      BY <2>2, <2>5
    <3>2. row[x] = table[cur[x]]
      BY <1>1, <3>1 DEF RangeInv, Copies
    <3>3. table'[cur[x]] = NewRange(x)
      BY <2>3, <3>2
    <3>4. TargetsOf(row[x]) = wish[cur[x]] /\ row[x].top >= peak[cur[x]]
      BY <1>2, <3>1, <3>2 DEF RangeInv, OnlyOverlapsRevert
    <3>5. peak[cur[x]] \in Nat
      BY <1>2, NoneIsNone DEF TypeOK, TablesOK
    <3>6. peak'[cur[x]] = Higher(peak[cur[x]], seen[x])
      BY <1>2, <2>1 DEF TypeOK, TablesOK
    <3>7. NewRange(x).top >= Higher(peak[cur[x]], seen[x])
      BY <1>3, <3>4, <3>5 DEF Higher
    <3>8. QED
      BY <1>3, <3>3, <3>4, <3>6, <3>7
  <2>6. OnlyOverlapsRevert'
    BY <1>1, <2>2, <2>4, <2>5 DEF RangeInv, OnlyOverlapsRevert, TargetsOf
  <2>7. QED
    BY <2>2, <2>6
<1>6. QED
  BY <1>4, <1>5

LEMMA EditKeepsRange ==
  ASSUME RangeInv, NEW a \in Assets, NEW r \in Edits, UpdateAsset(a, r)
  PROVE  Copies' /\ OnlyOverlapsRevert'
<1>1. r \in Rows /\ r.top \in Nat
  BY RowFields, NoneIsNone
<1>2. /\ table' = [table EXCEPT ![a] = r] /\ Overlap(None, a)
      /\ UNCHANGED <<at, cur, row>>
      /\ wish' = [wish EXCEPT ![a] = TargetsOf(r)] /\ peak' = [peak EXCEPT ![a] = r.top]
  BY DEF UpdateAsset, pass
<1>3. Copies' /\ overlapped \subseteq overlapped'
  BY <1>2, RowStep
<1>4. table'[a] = r /\ wish'[a] = TargetsOf(r) /\ peak'[a] = r.top
  BY <1>2 DEF RangeInv, TypeOK, TablesOK
<1>5. \A b \in Assets : b # a => /\ table'[b] = table[b] /\ wish'[b] = wish[b]
                                  /\ peak'[b] = peak[b]
  BY <1>2 DEF RangeInv, TypeOK, TablesOK
<1>6. OnlyOverlapsRevert'
  BY <1>1, <1>3, <1>4, <1>5 DEF RangeInv, OnlyOverlapsRevert, TargetsOf
<1>7. QED
  BY <1>3, <1>6

LEMMA StepRange == ASSUME RangeInv, [Next]_vars PROVE RangeInv'
<1>1. TypeOK'
  BY StepTypes DEF RangeInv
<1>2. ASSUME NEW x \in Passes, Step(x) \/ Fail(x) PROVE Copies' /\ OnlyOverlapsRevert'
  <2>1. CASE UpdateRange(x)
    BY <2>1, UpdateKeepsRange
  <2>2. CASE Start(x) \/ \E a \in Assets : FetchFails(x, a)
    <3>1. /\ UNCHANGED <<table, wish, peak, overlapped>>
          /\ \A y \in Passes : at'[y] = at[y] \/ at'[y] \in {"idle", "next"}
          /\ cur' = cur /\ row' = row
      BY <2>2 DEF Start, FetchFails, Goto, table_, ghosts, RangeInv, TypeOK, PassesOK
    <3>2. QED
      BY <3>1, QuietStep
  <2>3. ASSUME NEW a \in Assets, Fetch(x, a) PROVE Copies' /\ OnlyOverlapsRevert'
    <3>1. UNCHANGED <<table, wish, peak, overlapped>> /\ Others(x)
      BY <2>3, FetchTypes DEF RangeInv, Fetch, table_, ghosts
    <3>2. cur'[x] = a /\ row'[x] = table[a]
      BY <2>3 DEF Fetch, RangeInv, TypeOK, PassesOK
    <3>3. QED
      BY <3>1, <3>2, QuietStep DEF Others
  <2>4. CASE Judge(x) \/ JudgeUnsure(x) \/ Mark(x) \/ UpdateRangeFails(x)
    <3>1. /\ UNCHANGED <<table, wish, peak, overlapped, cur, row>>
          /\ at[x] \in {"judge", "mark", "range"}
      BY <2>4 DEF Judge, JudgeUnsure, Mark, UpdateRangeFails, table_, ghosts
    <3>2. Others(x)
      BY <2>4, JudgeTypes, MarkTypes, UpdateTypes DEF RangeInv
    <3>3. QED
      BY <3>1, <3>2, QuietStep DEF Others
  <2>5. CASE Send(x) \/ SendFails(x)
    <3>1. /\ UNCHANGED <<table, wish, peak, overlapped>> /\ Others(x)
      BY <2>5, SendTypes DEF RangeInv, Send, SendFails, table_
    <3>2. at'[x] \in {"idle", "next"}
      BY <2>5 DEF Send, SendFails, Leave, Goto, RangeInv, TypeOK, PassesOK
    <3>3. QED
      BY <3>1, <3>2, QuietStep DEF Others
  <2>6. QED
    BY <1>2, <2>1, <2>2, <2>3, <2>4, <2>5 DEF Step, Fail
<1>3. ASSUME NEW a \in Assets,
             \/ DeleteAsset(a) \/ Trade(a)
             \/ \E p \in Levels : Move(a, p)
             \/ \E s \in Sides : Lapse(a, s)
      PROVE  Copies' /\ OnlyOverlapsRevert'
  <2>1. UNCHANGED <<table, wish, peak, overlapped, at, cur, row>>
    BY <1>3 DEF DeleteAsset, Trade, Move, Lapse, table_, ghosts, pass
  <2>2. QED
    BY <2>1, QuietStep
<1>4. CASE Restart
  <2>1. /\ UNCHANGED <<table, wish, peak, overlapped>>
        /\ \A y \in Passes : at'[y] = "idle"
    BY <1>4 DEF Restart, table_
  <2>2. QED
    BY <1>1, <2>1, QuietStep DEF RangeInv
<1>5. CASE UNCHANGED vars
  <2>1. UNCHANGED <<table, wish, peak, overlapped, at, cur, row>>
    BY <1>5 DEF vars, table_, ghosts, pass
  <2>2. QED
    BY <1>1, <2>1, QuietStep DEF RangeInv
<1>6. QED
  BY <1>1, <1>2, <1>3, <1>4, <1>5, EditKeepsRange DEF Next, RangeInv

(* For any number of assets, passes, edits and failures: the targets of an *)
(* asset are those the user asked for last, and its highest price is at    *)
(* least every price its row was brought up to, unless the row was written *)
(* while a pass held a copy of it.                                         *)
THEOREM OverlapsRevert == Spec => []OnlyOverlapsRevert
<1>1. RangeInv => OnlyOverlapsRevert
  BY DEF RangeInv
<1>2. QED
  BY <1>1, InitRange, StepRange, PTL DEF Spec

-----------------------------------------------------------------------------
(* The user is told again only after a clash *)

(* Of an asset without a clash, one pass at a time has a message, which    *)
(* differs from the one in the cache, and once it is there was not told.   *)
Sole(x) == \A y \in Passes \ {x} : msg[y] # None => cur[y] # cur[x]
Fresh(x) ==
  /\ at[x] = "mark" => cache[cur[x]][msg[x]] # Target(x)
  /\ at[x] # "mark" => ~told[cur[x]][msg[x]]
Messages ==
  \A x \in Passes : msg[x] # None /\ cur[x] \notin clashed => Sole(x) /\ Fresh(x)

ClashInv == TypeOK /\ Messages /\ OnlyClashesRepeat

LEMMA InitClash == Init => ClashInv
<1>1. SUFFICES ASSUME Init PROVE ClashInv
  OBVIOUS
<1>2. Messages /\ OnlyClashesRepeat
  BY <1>1 DEF Init, Messages, OnlyClashesRepeat
<1>3. QED
  BY <1>1, <1>2, InitTypes DEF ClashInv

(* A step in which messages are at most dropped.                           *)
LEMMA DroppingStep ==
  ASSUME ClashInv, UNCHANGED <<cache, told, clashed, repeated>>,
         \A x \in Passes : msg'[x] # None =>
            /\ msg'[x] = msg[x] /\ cur'[x] = cur[x] /\ row'[x] = row[x]
            /\ at'[x] = "mark" <=> at[x] = "mark"
  PROVE  Messages' /\ OnlyClashesRepeat'
<1>1. OnlyClashesRepeat'
  BY DEF ClashInv, OnlyClashesRepeat
<1>2. ASSUME NEW x \in Passes, msg'[x] # None, cur'[x] \notin clashed'
      PROVE  Sole(x)' /\ Fresh(x)'
  <2>1. Sole(x) /\ Fresh(x)
    BY <1>2 DEF ClashInv, Messages
  <2>2. Sole(x)'
    BY <1>2, <2>1 DEF Sole
  <2>3. Fresh(x)'
    BY <1>2, <2>1 DEF Fresh, Target
  <2>4. QED
    BY <2>2, <2>3
<1>3. QED
  BY <1>1, <1>2 DEF Messages

LEMMA JudgeClash ==
  ASSUME ClashInv, NEW x \in Passes, Judge(x) \/ JudgeUnsure(x)
  PROVE  Messages' /\ OnlyClashesRepeat'
<1>1. /\ UNCHANGED <<cache, told, repeated, cur, row>> /\ Others(x) /\ at[x] = "judge"
  BY JudgeTypes DEF ClashInv, Judge, JudgeUnsure, sent
<1>2. PICK holds \in BOOLEAN : Decide(x, Wanted(x, holds))
  <2>1. CASE Judge(x)
    <3>1. Decide(x, Wanted(x, cur[x] \in owned))
      BY <2>1 DEF Judge
    <3>2. CASE cur[x] \in owned
      <4>1. Wanted(x, cur[x] \in owned) = Wanted(x, TRUE)
        BY <3>2 DEF Wanted
      <4>2. QED
        BY <3>1, <4>1
    <3>3. CASE cur[x] \notin owned
      <4>1. Wanted(x, cur[x] \in owned) = Wanted(x, FALSE)
        BY <3>3 DEF Wanted
      <4>2. QED
        BY <3>1, <4>1
    <3>4. QED
      BY <3>2, <3>3
  <2>2. CASE JudgeUnsure(x)
    BY <2>2 DEF JudgeUnsure
  <2>3. QED
    BY <2>1, <2>2
<1>3. /\ msg'[x] = Wanted(x, holds)
      /\ at'[x] = IF Wanted(x, holds) = None THEN "range" ELSE "mark"
  BY <1>2 DEF Decide, Goto, ClashInv, TypeOK, PassesOK
<1>4. clashed \subseteq clashed' /\ (~Sole(x) => cur[x] \in clashed')
  BY <1>2 DEF Decide, Sole
<1>5. OnlyClashesRepeat'
  BY <1>1, <1>4 DEF ClashInv, OnlyClashesRepeat
<1>6. ASSUME msg'[x] # None, cur'[x] \notin clashed' PROVE Sole(x)' /\ Fresh(x)'
  <2>1. Sole(x)'
    BY <1>1, <1>4, <1>6 DEF Sole, Others
  <2>2. at'[x] = "mark"
    BY <1>3, <1>6
  <2>3. ~HasMsgCache(cur[x], msg'[x], row[x][msg'[x]])
    BY <1>3, <1>6 DEF Wanted, Buy, Sell
  <2>4. Fresh(x)'
    BY <1>1, <2>2, <2>3 DEF Fresh, HasMsgCache, Target
  <2>5. QED
    BY <2>1, <2>4
<1>7. ASSUME NEW y \in Passes \ {x}, msg'[y] # None, cur'[y] \notin clashed'
      PROVE  Sole(y)' /\ Fresh(y)'
  <2>1. msg[y] # None /\ cur[y] \notin clashed /\ cur[y] \notin clashed'
    BY <1>1, <1>4, <1>7 DEF Others
  <2>2. Sole(y) /\ Fresh(y)
    BY <2>1 DEF ClashInv, Messages
  <2>3. cur[x] # cur[y]
    BY <1>4, <2>1 DEF Sole
  <2>4. Sole(y)'
    BY <1>1, <2>2, <2>3 DEF Sole, Others
  <2>5. Fresh(y)'
    BY <1>1, <1>7, <2>2 DEF Fresh, Target, Others
  <2>6. QED
    BY <2>4, <2>5
<1>8. QED
  BY <1>5, <1>6, <1>7 DEF Messages

LEMMA MarkClash ==
  ASSUME ClashInv, NEW x \in Passes, Mark(x) PROVE Messages' /\ OnlyClashesRepeat'
<1>1. /\ UNCHANGED <<cur, row, msg, clashed, repeated>>
      /\ at[x] = "mark" /\ at'[x] = "range" /\ Others(x)
  BY MarkTypes DEF ClashInv, Mark, Goto, TypeOK, PassesOK
<1>2. cur[x] \in Assets /\ msg[x] \in Sides
  BY <1>1, InHand DEF ClashInv, Holding
<1>3. OnlyClashesRepeat'
  BY <1>1 DEF ClashInv, OnlyClashesRepeat
<1>4. ASSUME cur[x] \notin clashed PROVE Sole(x)' /\ Fresh(x)'
  <2>1. Sole(x) /\ cache[cur[x]][msg[x]] # Target(x)
    BY <1>1, <1>2, <1>4, NoneIsNone DEF ClashInv, Messages, Fresh
  <2>2. told'[cur[x]][msg[x]] = FALSE
    <3>1. told \in [Assets -> [Sides -> BOOLEAN]]
      BY DEF ClashInv, TypeOK, CacheOK
    <3>2. ~HasMsgCache(cur[x], msg[x], Target(x))
      BY <2>1 DEF HasMsgCache
    <3>3. told'[cur[x]][msg[x]]
            = (told[cur[x]][msg[x]] /\ HasMsgCache(cur[x], msg[x], Target(x)))
      BY <1>2, <3>1 DEF Mark
    <3>4. QED
      BY <3>2, <3>3
  <2>3. QED
    BY <1>1, <2>1, <2>2 DEF Sole, Fresh
<1>5. ASSUME NEW y \in Passes \ {x}, msg[y] # None, cur[y] \notin clashed
      PROVE  Sole(y)' /\ Fresh(y)'
  <2>1. Sole(y) /\ Fresh(y)
    BY <1>5 DEF ClashInv, Messages
  <2>2. cur[x] # cur[y]
    BY <1>2, <2>1, NoneIsNone DEF Sole
  <2>3. cache'[cur[y]] = cache[cur[y]] /\ told'[cur[y]] = told[cur[y]]
    <3>1. cur[y] \in Assets
      BY <1>5, InHand DEF ClashInv, TypeOK, InStep, Holding
    <3>2. QED
      BY <2>2, <3>1 DEF Mark, ClashInv, TypeOK, CacheOK
  <2>4. QED
    BY <1>1, <2>1, <2>3 DEF Sole, Fresh, Target, Others
<1>6. QED
  BY <1>1, <1>3, <1>4, <1>5 DEF Messages

LEMMA SendClash ==
  ASSUME ClashInv, NEW x \in Passes, Send(x) PROVE Messages' /\ OnlyClashesRepeat'
<1>1. /\ UNCHANGED <<cache, clashed>> /\ Others(x)
      /\ at[x] = "send" /\ msg'[x] = None
  BY SendTypes DEF ClashInv, Send, Leave, TypeOK, PassesOK
<1>2. cur[x] \in Assets /\ (msg[x] # None => msg[x] \in Sides)
  BY <1>1, InHand DEF ClashInv, Holding
<1>3. CASE UNCHANGED <<told, repeated>>
  BY <1>1, <1>3, DroppingStep DEF Others
<1>4. CASE /\ msg[x] # None
           /\ told' = [told EXCEPT ![cur[x]][msg[x]] = TRUE]
           /\ repeated' = IF told[cur[x]][msg[x]] THEN repeated \cup {cur[x]} ELSE repeated
  <2>1. cur[x] \notin clashed => ~told[cur[x]][msg[x]]
    BY <1>1, <1>4 DEF ClashInv, Messages, Fresh
  <2>2. OnlyClashesRepeat'
    BY <1>1, <1>4, <2>1 DEF ClashInv, OnlyClashesRepeat
  <2>3. ASSUME NEW y \in Passes, msg'[y] # None, cur'[y] \notin clashed'
        PROVE  Sole(y)' /\ Fresh(y)'
    <3>1. /\ y \in Passes \ {x} /\ msg[y] # None /\ cur[y] \notin clashed
      BY <1>1, <2>3 DEF Others
    <3>2. Sole(y) /\ Fresh(y)
      BY <3>1 DEF ClashInv, Messages
    <3>3. cur[x] # cur[y]
      BY <1>4, <3>1, <3>2 DEF Sole
    <3>4. cur[y] \in Assets
      BY <3>1, InHand DEF ClashInv, TypeOK, InStep, Holding
    <3>5. told'[cur[y]] = told[cur[y]]
      BY <1>4, <3>3, <3>4 DEF ClashInv, TypeOK, CacheOK
    <3>6. Sole(y)'
      BY <1>1, <3>1, <3>2 DEF Sole, Others
    <3>7. Fresh(y)'
      BY <1>1, <3>1, <3>2, <3>5 DEF Fresh, Target, Others
    <3>8. QED
      BY <3>6, <3>7
  <2>4. QED
    BY <2>2, <2>3 DEF Messages
<1>5. QED
  BY <1>3, <1>4 DEF Send

LEMMA LapseClash ==
  ASSUME ClashInv, NEW a \in Assets, NEW s \in Sides, Lapse(a, s)
  PROVE  Messages' /\ OnlyClashesRepeat'
<1>1. UNCHANGED <<at, cur, row, msg, clashed, repeated>>
  BY DEF Lapse, pass
<1>2. ASSUME NEW x \in Passes, msg[x] # None, cur[x] \notin clashed
      PROVE  Sole(x)' /\ Fresh(x)'
  <2>1. Sole(x) /\ Fresh(x)
    BY <1>2 DEF ClashInv, Messages
  <2>2. cur[x] \in Assets /\ msg[x] \in Sides
    BY <1>2, InHand DEF ClashInv, TypeOK, InStep, Holding
  <2>3. cur[x] = a => msg[x] # s
    BY DEF Lapse
  <2>4. /\ cache'[cur[x]][msg[x]] = cache[cur[x]][msg[x]]
        /\ told'[cur[x]][msg[x]] = told[cur[x]][msg[x]]
    BY <2>2, <2>3 DEF Lapse, ClashInv, TypeOK, CacheOK
  <2>5. QED
    BY <1>1, <2>1, <2>4 DEF Sole, Fresh, Target
<1>3. OnlyClashesRepeat'
  BY <1>1 DEF ClashInv, OnlyClashesRepeat
<1>4. QED
  BY <1>1, <1>2, <1>3 DEF Messages

LEMMA StepClash == ASSUME ClashInv, [Next]_vars PROVE ClashInv'
<1>1. TypeOK'
  BY StepTypes DEF ClashInv
<1>2. ASSUME NEW x \in Passes, Step(x) \/ Fail(x) PROVE Messages' /\ OnlyClashesRepeat'
  <2>1. CASE Judge(x) \/ JudgeUnsure(x)
    BY <2>1, JudgeClash
  <2>2. CASE Mark(x)
    BY <2>2, MarkClash
  <2>3. CASE Send(x)
    BY <2>3, SendClash
  <2>4. CASE SendFails(x)
    <3>1. UNCHANGED <<cache, told, clashed, repeated>> /\ Others(x) /\ msg'[x] = None
      BY <2>4, SendTypes DEF ClashInv, SendFails, Leave, TypeOK, PassesOK
    <3>2. QED
      BY <3>1, DroppingStep DEF Others
  <2>5. CASE UpdateRange(x) \/ UpdateRangeFails(x)
    <3>1. /\ UNCHANGED <<cache, told, clashed, repeated, cur, row, msg>>
          /\ Others(x) /\ at[x] = "range" /\ at'[x] = "send"
      BY <2>5, UpdateTypes
         DEF ClashInv, UpdateRange, UpdateRangeFails, Goto, TypeOK, PassesOK, sent, ghosts
    <3>2. QED
      BY <3>1, DroppingStep DEF Others
  <2>6. CASE Start(x)
    <3>1. /\ UNCHANGED <<cache, told, clashed, repeated, msg>> /\ Others(x)
          /\ at[x] = "idle"
      BY <2>6, StartTypes DEF ClashInv, Start, sent, ghosts
    <3>2. msg[x] = None
      BY <3>1 DEF ClashInv, TypeOK, InStep
    <3>3. QED
      BY <3>1, <3>2, DroppingStep DEF Others
  <2>7. ASSUME NEW a \in Assets, Fetch(x, a) \/ FetchFails(x, a)
        PROVE  Messages' /\ OnlyClashesRepeat'
    <3>1. /\ UNCHANGED <<cache, told, clashed, repeated, msg>> /\ Others(x)
          /\ at[x] = "next"
      BY <2>7, FetchTypes DEF ClashInv, Fetch, FetchFails, sent, ghosts
    <3>2. msg[x] = None
      BY <3>1 DEF ClashInv, TypeOK, InStep
    <3>3. QED
      BY <3>1, <3>2, DroppingStep DEF Others
  <2>8. QED
    BY <1>2, <2>1, <2>2, <2>3, <2>4, <2>5, <2>6, <2>7 DEF Step, Fail
<1>3. ASSUME NEW a \in Assets,
             \/ \E r \in Edits : UpdateAsset(a, r)
             \/ DeleteAsset(a) \/ Trade(a)
             \/ \E p \in Levels : Move(a, p)
      PROVE  Messages' /\ OnlyClashesRepeat'
  <2>1. UNCHANGED <<cache, told, clashed, repeated, at, cur, row, msg>>
    BY <1>3 DEF UpdateAsset, DeleteAsset, Trade, Move, sent, ghosts, pass
  <2>2. QED
    BY <2>1, DroppingStep
<1>4. CASE Restart
  <2>1. clashed' = clashed /\ repeated' = repeated /\ \A x \in Passes : msg'[x] = None
    BY <1>4 DEF Restart
  <2>2. QED
    BY <1>1, <2>1 DEF ClashInv, Messages, OnlyClashesRepeat
<1>5. CASE UNCHANGED vars
  <2>1. UNCHANGED <<cache, told, clashed, repeated, at, cur, row, msg>>
    BY <1>5 DEF vars, sent, ghosts, pass
  <2>2. QED
    BY <1>1, <2>1, DroppingStep DEF ClashInv
<1>6. QED
  BY <1>1, <1>2, <1>3, <1>4, <1>5, LapseClash DEF Next, ClashInv

(* For any number of assets, passes, edits and failures: the user is told  *)
(* the same again, while it is cached, only of an asset that a pass judged *)
(* while another had a message about it to send.                           *)
THEOREM ClashesRepeat == Spec => []OnlyClashesRepeat
<1>1. ClashInv => OnlyClashesRepeat
  BY DEF ClashInv
<1>2. QED
  BY <1>1, InitClash, StepClash, PTL DEF Spec
=============================================================================
