--------------------------- MODULE DailyJobProofs ---------------------------
(***************************************************************************)
(* What the morning job keeps, for any assets, prices, companies and days  *)
(* and for any number of faults: its types, the tables of a day on which   *)
(* nothing failed, the averages, and what the user is told of newcomers.   *)
(*                                                                         *)
(* DayIsDone speaks of the end of the job.  Each part of it is carried     *)
(* from the step that brings it about: Compared from the indices, Averaged *)
(* from the list of the assets, Spreaded from the spread.                  *)
(***************************************************************************)
EXTENDS DailyJob, FiniteSetTheorems, WellFoundedInduction, TLAPS

-----------------------------------------------------------------------------
(* Types *)

LEMMA DaysAreNat == Days \subseteq Nat /\ FirstDay \in Days /\ FirstDay - 1 \in Days
  BY DailyAssumption DEF DailyAssumption, Days, LongAgo

LEMMA CentIs == Cent \in Nat \ {0}
  BY DailyAssumption DEF DailyAssumption

(* A division leaves a rest smaller than the divisor.                      *)
LEMMA DivIs ==
  ASSUME NEW a \in Nat, NEW d \in Nat \ {0}
  PROVE  /\ a \div d \in Nat
         /\ d * (a \div d) <= a /\ a < d * (a \div d) + d
  BY Z3

(* Whole cents are a cent apart.                                           *)
LEMMA Multiples ==
  ASSUME NEW q \in Nat, NEW r \in Nat, Cent * q < Cent * r + Cent
  PROVE  Cent * q <= Cent * r
<1>1. ASSUME r + 1 <= q PROVE FALSE
  BY <1>1, CentIs, Z3
<1>2. q <= r
  BY <1>1
<1>3. QED
  BY <1>2, CentIs, Z3

(* What is rounded is off by half a cent at most.                          *)
LEMMA RoundedIs ==
  ASSUME NEW x \in Nat, NEW k \in {1, 201}
  PROVE  LET r == Rounded(x, k * Cent)
         IN  /\ r \in Nat
             /\ 2 * (k * (Cent * r)) <= 2 * x + k * Cent
             /\ 2 * x + k * Cent < 2 * (k * (Cent * r)) + 2 * (k * Cent)
<1> DEFINE a == 2 * x + k * Cent
           d == 2 * (k * Cent)
           r == a \div d
<1>1. Cent \in Nat \ {0}
  BY CentIs
<1>2. a \in Nat /\ d \in Nat \ {0}
  BY <1>1, Z3
<1>3. r \in Nat /\ d * r <= a /\ a < d * r + d
  <2> HIDE DEF a, d
  <2> QED
    BY <1>2, DivIs
<1>4. d * r = 2 * (k * (Cent * r))
  <2>1. r \in Nat
    BY <1>3
  <2> HIDE DEF r
  <2>2. QED
    BY <1>1, <2>1, Z3
<1>5. Rounded(x, k * Cent) = r
  BY DEF Rounded
<1>6. QED
  BY <1>3, <1>4, <1>5

(* The average of 200 days lies between the one before and the price, all  *)
(* of them rounded: rounding keeps the order.                              *)
LEMMA RoundedBetween ==
  ASSUME NEW cp \in Nat, NEW e \in Nat
  PROVE  LET new == Cent * Rounded(2 * cp + 199 * e, 201 * Cent)
         IN  new \in Nat /\ Between(new, ToCents(e), ToCents(cp))
<1> DEFINE x == 2 * cp + 199 * e
           r == Rounded(x, 201 * Cent)
           p == Rounded(cp, Cent)
           q == Rounded(e, Cent)
<1>1. Cent \in Nat \ {0} /\ x \in Nat
  BY CentIs
<1>2. /\ r \in Nat
      /\ 2 * (201 * (Cent * r)) <= 2 * x + 201 * Cent
      /\ 2 * x + 201 * Cent < 2 * (201 * (Cent * r)) + 2 * (201 * Cent)
  BY <1>1, RoundedIs
<1>3. /\ p \in Nat
      /\ 2 * (Cent * p) <= 2 * cp + Cent
      /\ 2 * cp + Cent < 2 * (Cent * p) + 2 * Cent
  BY <1>1, RoundedIs, 1 * Cent = Cent, 1 * (Cent * p) = Cent * p
<1>4. /\ q \in Nat
      /\ 2 * (Cent * q) <= 2 * e + Cent
      /\ 2 * e + Cent < 2 * (Cent * q) + 2 * Cent
  BY <1>1, RoundedIs
<1> DEFINE R == Cent * r
           P == Cent * p
           Q == Cent * q
<1>5. R \in Nat /\ P \in Nat /\ Q \in Nat
  <2> HIDE DEF r, p, q
  <2> QED
    BY <1>1, <1>2, <1>3, <1>4
<1>6. CASE cp <= e
  <2>1. 201 * cp <= x /\ x <= 201 * e
    BY <1>6
  <2>2. P < R + Cent /\ R < Q + Cent
    <3> HIDE DEF r, p, q, x, R, P, Q
    <3> QED
      BY <2>1, <1>1, <1>2, <1>3, <1>4, <1>5 DEF R, P, Q
  <2>3. P <= R /\ R <= Q
    <3> HIDE DEF r, p, q
    <3> QED
      BY <2>2, <1>2, <1>3, <1>4, Multiples
  <2>4. QED
    BY <2>3, <1>5 DEF Between, ToCents
<1>7. CASE e <= cp
  <2>1. 201 * e <= x /\ x <= 201 * cp
    BY <1>7
  <2>2. Q < R + Cent /\ R < P + Cent
    <3> HIDE DEF r, p, q, x
    <3> QED
      BY <2>1, <1>1, <1>2, <1>3, <1>4, <1>5
  <2>3. Q <= R /\ R <= P
    <3> HIDE DEF r, p, q
    <3> QED
      BY <2>2, <1>2, <1>3, <1>4, Multiples
  <2>4. QED
    BY <2>3, <1>5 DEF Between, ToCents
<1>8. QED
  BY <1>6, <1>7

LEMMA NewEmaIs ==
  ASSUME NEW cp \in Nat, NEW r \in Rows
  PROVE  /\ NewEma(r, cp).ema \in Nat /\ NewEma(r, cp).n \in Nat
         /\ Follows(NewEma(r, cp), r, cp)
<1>1. r.ema \in Nat /\ r.n \in Nat
  BY DEF Rows
<1>2. CASE r.n < 200
  <2>1. NewEma(r, cp) = [ema |-> (cp + r.ema * 0) \div (0 + 1), n |-> r.n + 1]
    BY <1>2 DEF NewEma
  <2>2. (cp + r.ema * 0) \div (0 + 1) = cp
    BY <1>1
  <2>3. QED
    BY <1>1, <1>2, <2>1, <2>2 DEF Follows, Between
<1>3. CASE ~(r.n < 200)
  <2> DEFINE e == Cent * Rounded(2 * cp + 199 * r.ema, 201 * Cent)
  <2>1. NewEma(r, cp) = [ema |-> e, n |-> 200]
    BY <1>3 DEF NewEma
  <2>2. e \in Nat /\ Between(e, ToCents(r.ema), ToCents(cp))
    BY <1>1, RoundedBetween
  <2> HIDE DEF e
  <2>3. QED
    BY <1>3, <2>1, <2>2 DEF Follows
<1>4. QED
  BY <1>2, <1>3

LEMMA TypeInit == ASSUME Init PROVE TypeOK
<1>1. ema \in [Assets -> Rows \cup {None}]
  BY DailyAssumption, DaysAreNat DEF DailyAssumption, Init, Averages, Rows
<1>2. /\ today \in Days /\ ran \in BOOLEAN /\ at \in Steps /\ todo = {}
      /\ indices \in SUBSET Days /\ adding = None
      /\ asset \in [Assets -> {"new", "live", "deleted"}]
      /\ published \in Days /\ spreads \in SUBSET Days
      /\ faults \in Nat /\ compared = None /\ close \in [Assets -> Nat]
      /\ excused \in BOOLEAN /\ announced \in [Companies -> Nat]
      /\ unsaved = {} /\ late = {}
  BY DaysAreNat DEF Init, Steps
<1>3. listed \in [Companies -> Days \cup {None}]
  BY DailyAssumption DEF DailyAssumption, Init, Days, LongAgo
<1>4. companies \in Seq(Companies)
  <2>1. companies = <<>> \/ companies = <<Veteran>>
    BY DEF Init
  <2>2. Veteran \in Companies
    BY DailyAssumption DEF DailyAssumption
  <2>3. <<>> \in Seq(Companies) /\ <<Veteran>> \in Seq(Companies)
    BY <2>2
  <2>4. QED
    BY <2>1, <2>3
<1>5. QED
  BY <1>1, <1>2, <1>3, <1>4 DEF TypeOK

(* The steps of the job that have nothing left to do for anyone.           *)
Plain ==
  \/ Start \/ Index \/ ListAssets \/ EmaDone \/ Spread \/ Recommend \/ FindEntries \/ Finish
  \/ IndexFails \/ ListAssetsFails \/ SpreadFails \/ SpreadPanics
  \/ FindEntriesFails \/ FindEntriesPanics

LEMMA NextIs ==
  ASSUME [Next]_vars
  PROVE  \/ Plain
         \/ \E a \in Assets : \/ \E cp \in Prices : UpdateEma(a, cp)
                              \/ UpdateEmaFails(a) \/ AssetGone(a)
                              \/ AddAsset(a) \/ DeleteAsset(a)
         \/ \E c \in Companies : Announce(c) \/ AnnounceFails(c)
         \/ \E r \in FirstEmas : SaveFirstEma(r)
         \/ SaveFirstEmaFails
         \/ \E c \in Companies, d \in Days : List(c, d)
         \/ \E p \in Days : NextDay(p)
         \/ Restart
         \/ UNCHANGED vars
  BY DEF Next, Job, JobFails, Outside, Plain

LEMMA TypeNext == ASSUME TypeOK, [Next]_vars PROVE TypeOK'
<1> USE DEF TypeOK, Steps, clock, job, assets, spread, sp500, ghosts, Goto, Fault
<1>1. CASE Start \/ ListAssets \/ EmaDone \/ Recommend \/ FindEntries \/ Finish
  BY <1>1 DEF Start, ListAssets, EmaDone, Recommend, FindEntries, Finish, Live, RecentEntries
<1>2. CASE Index
  BY <1>2 DEF Index, Compare
<1>3. CASE IndexFails
  BY <1>3 DEF IndexFails, Compare
<1>4. CASE Spread
  BY <1>4 DEF Spread
<1>5. CASE SpreadFails
  BY <1>5 DEF SpreadFails
<1>6. CASE SpreadPanics
  BY <1>6 DEF SpreadPanics
<1>7. CASE ListAssetsFails
  BY <1>7 DEF ListAssetsFails
<1>8. CASE FindEntriesFails
  BY <1>8 DEF FindEntriesFails
<1>9. CASE FindEntriesPanics
  BY <1>9 DEF FindEntriesPanics
<1>10. ASSUME NEW a \in Assets, NEW cp \in Prices, UpdateEma(a, cp)
      PROVE  TypeOK'
  <2>1. cp \in Nat
    BY DailyAssumption DEF DailyAssumption
  <2>2. ema' \in [Assets -> Rows \cup {None}] /\ close' \in [Assets -> Nat]
    <3>1. CASE Usable(ema[a])
      <4> DEFINE new == NewEma(ema[a], cp)
      <4>1. ema[a] \in Rows
        BY <3>1 DEF Usable
      <4>2. new.ema \in Nat /\ new.n \in Nat
        BY <2>1, <4>1, NewEmaIs
      <4>3. /\ ema' = [ema EXCEPT ![a] = [ema |-> new.ema, n |-> new.n, date |-> today]]
            /\ close' = [close EXCEPT ![a] = cp]
        BY <1>10, <3>1 DEF UpdateEma
      <4> HIDE DEF new
      <4>4. [ema |-> new.ema, n |-> new.n, date |-> today] \in Rows
        BY <4>2 DEF Rows
      <4>5. QED
        BY <2>1, <4>3, <4>4
    <3>2. CASE ~Usable(ema[a])
      BY <1>10, <3>2 DEF UpdateEma
    <3>3. QED
      BY <3>1, <3>2
  <2>3. /\ todo' \subseteq todo
        /\ UNCHANGED <<clock, at, indices, asset, adding, spread, sp500, faults, compared,
                       excused, announced, unsaved, late>>
    BY <1>10 DEF UpdateEma
  <2>4. QED
    BY <2>2, <2>3
<1>11. ASSUME NEW a \in Assets, UpdateEmaFails(a)
      PROVE  TypeOK'
  BY <1>11 DEF UpdateEmaFails
<1>12. ASSUME NEW a \in Assets, AssetGone(a)
      PROVE  TypeOK'
  BY <1>12 DEF AssetGone
<1>13. ASSUME NEW a \in Assets, AddAsset(a)
      PROVE  TypeOK'
  BY <1>13 DEF AddAsset
<1>14. ASSUME NEW a \in Assets, DeleteAsset(a)
      PROVE  TypeOK'
  BY <1>14 DEF DeleteAsset
<1>15. ASSUME NEW c \in Companies, Announce(c)
      PROVE  TypeOK'
  BY <1>15 DEF Announce
<1>16. ASSUME NEW c \in Companies, AnnounceFails(c)
      PROVE  TypeOK'
  BY <1>16 DEF AnnounceFails
<1>17. ASSUME NEW r \in FirstEmas, SaveFirstEma(r)
      PROVE  TypeOK'
  <2>1. [ema |-> r.ema, n |-> r.n, date |-> today] \in Rows
    BY DailyAssumption DEF DailyAssumption, Averages, Rows
  <2>2. QED
    BY <1>17, <2>1 DEF SaveFirstEma
<1>18. CASE SaveFirstEmaFails
  BY <1>18 DEF SaveFirstEmaFails
<1>19. ASSUME NEW c \in Companies, NEW d \in Days, List(c, d)
       PROVE  TypeOK'
  BY <1>19 DEF List
<1>20. ASSUME NEW p \in Days, NextDay(p)
       PROVE  TypeOK'
  <2>1. today + 1 \in Days
    BY <1>20, DailyAssumption DEF DailyAssumption, NextDay, Days, LongAgo
  <2>2. faults' \in Nat
    BY <1>20 DEF NextDay
  <2>3. QED
    BY <1>20, <2>1, <2>2 DEF NextDay
<1>21. CASE Restart
  BY <1>21 DEF Restart
<1>22. CASE UNCHANGED vars
  BY <1>22 DEF vars
<1>23. QED
  BY <1>1, <1>2, <1>3, <1>4, <1>5, <1>6, <1>7, <1>8, <1>9, <1>10, <1>11, <1>12, <1>13,
     <1>14, <1>15, <1>16, <1>17, <1>18, <1>19, <1>20, <1>21, <1>22, NextIs DEF Plain

(* Types, and that only the averages and the companies have something left *)
(* to do, in every reachable state: also after a panic or a restart.       *)
THEOREM TypesHold == Spec => []TypeOK
<1>1. TypeOK /\ [Next]_vars => TypeOK'
  BY TypeNext
<1>2. QED
  BY <1>1, TypeInit, PTL DEF Spec

-----------------------------------------------------------------------------
(* The averages *)

(* An asset that is not registered yet has no average, nor has the one     *)
(* that is being registered.                                               *)
Fresh ==
  /\ \A a \in Assets : asset[a] = "new" => ema[a] = None
  /\ adding # None => asset[adding] = "live" /\ ema[adding] = None

LEMMA FreshInit == ASSUME Init PROVE Fresh
  BY DEF Init, Fresh

(* The steps that neither register, average nor delete an asset.           *)
LEMMA LeavesAssets ==
  ASSUME \/ Plain
         \/ \E a \in Assets : UpdateEmaFails(a) \/ AssetGone(a)
         \/ \E c \in Companies : Announce(c) \/ AnnounceFails(c)
         \/ \E c \in Companies, d \in Days : List(c, d)
         \/ \E p \in Days : NextDay(p)
         \/ UNCHANGED vars
  PROVE  UNCHANGED assets
  BY DEF Plain, Start, Index, ListAssets, EmaDone, Spread, Recommend, FindEntries, Finish,
     IndexFails, ListAssetsFails, SpreadFails, SpreadPanics, FindEntriesFails,
     FindEntriesPanics, UpdateEmaFails, AssetGone, Announce, AnnounceFails, List, NextDay,
     vars, assets

(* A new row of an asset goes into the place of one in use.                *)
LEMMA UpdateIs ==
  ASSUME TypeOK, NEW a \in Assets, NEW cp \in Prices, UpdateEma(a, cp)
  PROVE  /\ \A b \in Assets \ {a} : ema'[b] = ema[b]
         /\ \/ ~Usable(ema[a]) /\ ema'[a] = ema[a]
            \/ /\ ema[a] \in Rows /\ ema'[a].date = today /\ close'[a] = cp
               /\ Follows(ema'[a], ema[a], cp)
<1>1. CASE Usable(ema[a])
  <2> DEFINE new == NewEma(ema[a], cp)
  <2>1. ema[a] \in Rows /\ cp \in Nat
    BY <1>1, DailyAssumption DEF DailyAssumption, TypeOK, Usable
  <2>2. Follows(new, ema[a], cp)
    BY <2>1, NewEmaIs
  <2>3. /\ ema' = [ema EXCEPT ![a] = [ema |-> new.ema, n |-> new.n, date |-> today]]
        /\ close' = [close EXCEPT ![a] = cp]
    BY <1>1 DEF UpdateEma
  <2> HIDE DEF new
  <2>4. ema'[a].ema = new.ema /\ ema'[a].date = today /\ close'[a] = cp
    BY <2>3 DEF TypeOK
  <2>5. Follows(ema'[a], ema[a], cp)
    BY <2>2, <2>4 DEF Follows
  <2>6. QED
    BY <2>1, <2>3, <2>4, <2>5 DEF TypeOK
<1>2. CASE ~Usable(ema[a])
  BY <1>2 DEF UpdateEma
<1>3. QED
  BY <1>1, <1>2

LEMMA FreshNext == ASSUME TypeOK, Fresh, [Next]_vars PROVE Fresh'
<1>1. ASSUME NEW a \in Assets, NEW cp \in Prices, UpdateEma(a, cp)
      PROVE  Fresh'
  <2>1. asset' = asset /\ adding' = adding /\ asset[a] = "live"
    BY <1>1 DEF UpdateEma, Live
  <2>2. ema[a] = None => ema'[a] = None
    BY <1>1, UpdateIs, DailyAssumption DEF DailyAssumption
  <2>3. \A b \in Assets \ {a} : ema'[b] = ema[b]
    BY <1>1, UpdateIs
  <2>4. QED
    BY <2>1, <2>2, <2>3 DEF TypeOK, Fresh
<1>2. ASSUME NEW a \in Assets, AddAsset(a) \/ DeleteAsset(a)
      PROVE  Fresh'
  BY <1>2, DailyAssumption DEF DailyAssumption, AddAsset, DeleteAsset, Live, TypeOK, Fresh
<1>3. ASSUME NEW r \in FirstEmas, SaveFirstEma(r)
      PROVE  Fresh'
  BY <1>3 DEF SaveFirstEma, TypeOK, Fresh
<1>4. CASE SaveFirstEmaFails \/ Restart
  BY <1>4 DEF SaveFirstEmaFails, Restart, TypeOK, Fresh
<1>5. CASE UNCHANGED assets
  BY <1>5 DEF assets, Fresh
<1>6. QED
  BY <1>1, <1>2, <1>3, <1>4, <1>5, NextIs, LeavesAssets

(* For any prices, in units as fine as one likes, and any average: one     *)
(* that changes moves towards the closing price, and past neither the old  *)
(* average nor the price by more than their own rounding to a cent; the    *)
(* first one of an asset is never written over one it already has.         *)
THEOREM EmaFollows == Spec => EmaFollowsPrice
<1> DEFINE AllFollow == \A a \in Assets :
                          ema[a] # None /\ ema'[a] # ema[a] =>
                            Follows(ema'[a], ema[a], close'[a])
<1>1. TypeOK /\ Fresh /\ [Next]_vars => AllFollow
  <2> SUFFICES ASSUME TypeOK, Fresh, [Next]_vars,
                      NEW a \in Assets, ema[a] # None, ema'[a] # ema[a]
               PROVE  Follows(ema'[a], ema[a], close'[a])
    OBVIOUS
  <2>1. ASSUME NEW b \in Assets, NEW cp \in Prices, UpdateEma(b, cp)
        PROVE  Follows(ema'[a], ema[a], close'[a])
    BY <2>1, UpdateIs
  <2>2. ASSUME NEW r \in FirstEmas, SaveFirstEma(r)
        PROVE  FALSE
    BY <2>2 DEF SaveFirstEma, TypeOK, Fresh
  <2>3. ASSUME \/ SaveFirstEmaFails \/ Restart
               \/ \E b \in Assets : AddAsset(b) \/ DeleteAsset(b)
        PROVE  FALSE
    BY <2>3 DEF SaveFirstEmaFails, Restart, AddAsset, DeleteAsset
  <2>4. CASE UNCHANGED assets
    BY <2>4 DEF assets
  <2>5. QED
    BY <2>1, <2>2, <2>3, <2>4, NextIs, LeavesAssets
<1>2. TypeOK /\ Fresh /\ [Next]_vars => Fresh'
  BY FreshNext
<1>3. Spec => [][AllFollow]_vars
  <2>1. Init => Fresh
    BY FreshInit
  <2> HIDE DEF AllFollow
  <2>2. QED
    BY <1>1, <1>2, <2>1, TypesHold, PTL DEF Spec
<1>4. QED
  BY <1>3 DEF EmaFollowsPrice

-----------------------------------------------------------------------------
(* The day *)

Below == {ij \in Nat \X Nat : ij[1] < ij[2]}

LEMMA HasLeast ==
  ASSUME NEW S \in SUBSET Nat, S # {}
  PROVE  \E i \in S : \A j \in S : i <= j
<1>1. IsWellFoundedOn(Below, Nat)
  BY NatLessThanWellFounded DEF OpToRel, Below
<1>2. PICK i \in S : \A j \in S : <<j, i>> \notin Below
  BY <1>1, WFMin
<1>3. ASSUME NEW j \in S PROVE i <= j
  <2>1. i \in Nat /\ j \in Nat /\ <<j, i>> \notin Below
    BY <1>2
  <2>2. ~(j < i)
    BY <2>1 DEF Below
  <2>3. QED
    BY <2>1, <2>2
<1>4. QED
  BY <1>3

(* A table with rows has a newest one.                                     *)
LEMMA NewestIs ==
  ASSUME NEW S \in SUBSET Days, S # {}
  PROVE  Newest(S) \in S /\ \A d \in S : d <= Newest(S)
<1> DEFINE M == {MaxDay - d : d \in S}
<1>1. MaxDay \in Nat /\ S \subseteq Nat /\ \A d \in S : d <= MaxDay
  BY DailyAssumption, DaysAreNat DEF DailyAssumption, Days, LongAgo
<1>2. M \in SUBSET Nat /\ M # {}
  <2>1. \A d \in S : MaxDay - d \in Nat
    BY <1>1
  <2>2. QED
    BY <2>1
<1>3. PICK m \in M : \A k \in M : m <= k
  <2> HIDE DEF M
  <2> QED
    BY <1>2, HasLeast
<1>4. PICK d \in S : m = MaxDay - d
  OBVIOUS
<1>5. ASSUME NEW e \in S PROVE e <= d
  <2>1. m <= MaxDay - e
    BY <1>3
  <2>2. QED
    BY <1>1, <1>4, <2>1
<1>6. QED
  BY <1>5 DEF Newest

(* Only weekdays have rows, and the job runs on weekdays.                  *)
Calendar == (at # "idle" => Workday(today)) /\ \A d \in indices : Workday(d)

(* The weekday before today, over a weekend as well.                       *)
LastBefore(d) == d < today /\ \A e \in d + 1 .. today - 1 : ~Workday(e)

LEMMA FormerIsLast ==
  ASSUME TypeOK, Workday(today), NEW d \in Days, Workday(d), LastBefore(d)
  PROVE  d = Former
<1>1. d \in Nat /\ today \in Nat /\ d < today
  BY DaysAreNat DEF TypeOK, LastBefore
<1>2. CASE today % 7 = 1
  <2>1. (today - 3) % 7 = 5 /\ (today - 2) % 7 = 6 /\ (today - 1) % 7 = 0
    BY <1>1, <1>2
  <2>2. d >= today - 3
    <3>1. ~(today - 3 \in d + 1 .. today - 1)
      BY <2>1 DEF LastBefore, Workday
    <3>2. QED
      BY <1>1, <3>1
  <2>3. d # today - 2 /\ d # today - 1
    BY <2>1 DEF Workday
  <2>4. QED
    BY <1>1, <1>2, <2>2, <2>3 DEF Former
<1>3. CASE today % 7 # 1
  <2>1. (today - 1) % 7 \in 1..5
    BY <1>1, <1>3 DEF Workday
  <2>2. ~(today - 1 \in d + 1 .. today - 1)
    BY <2>1 DEF LastBefore, Workday
  <2>3. QED
    BY <1>1, <1>3, <2>2 DEF Former
<1>4. QED
  BY <1>2, <1>3

LEMMA CalendarInit == ASSUME Init PROVE Calendar
  BY DEF Init, Calendar

LEMMA CalendarNext == ASSUME TypeOK, Calendar, [Next]_vars PROVE Calendar'
<1>1. CASE Start
  BY <1>1 DEF Start, Goto, Calendar, Workday
<1>2. CASE Index
  BY <1>2 DEF Index, Goto, Calendar, clock, Workday
<1>3. CASE at' = "idle" /\ indices' = indices
  BY <1>3 DEF Calendar, Workday
<1>4. CASE at # "idle" /\ indices' = indices /\ today' = today
  BY <1>4 DEF Calendar, Workday
<1>5. CASE at' = at /\ indices' = indices /\ today' = today
  BY <1>5 DEF Calendar, Workday
<1>6. Plain => \/ Start \/ Index \/ (at # "idle" /\ indices' = indices /\ today' = today)
  BY DEF Plain, ListAssets, EmaDone, Spread, Recommend, FindEntries, Finish, IndexFails,
     ListAssetsFails, SpreadFails, SpreadPanics, FindEntriesFails, FindEntriesPanics, clock
<1>7. ASSUME NEW a \in Assets,
             \/ \E cp \in Prices : UpdateEma(a, cp)
             \/ UpdateEmaFails(a) \/ AssetGone(a) \/ AddAsset(a) \/ DeleteAsset(a)
      PROVE  /\ indices' = indices /\ today' = today
             /\ at' = at \/ at # "idle"
  BY <1>7 DEF UpdateEma, UpdateEmaFails, AssetGone, AddAsset, DeleteAsset, clock, job
<1>8. ASSUME NEW c \in Companies, Announce(c) \/ AnnounceFails(c) \/ \E d \in Days : List(c, d)
      PROVE  at' = at /\ indices' = indices /\ today' = today
  BY <1>8 DEF Announce, AnnounceFails, List, clock, job
<1>9. ASSUME (\E r \in FirstEmas : SaveFirstEma(r)) \/ SaveFirstEmaFails \/ UNCHANGED vars
      PROVE  at' = at /\ indices' = indices /\ today' = today
  BY <1>9 DEF SaveFirstEma, SaveFirstEmaFails, clock, job, vars
<1>10. ASSUME (\E p \in Days : NextDay(p)) \/ Restart
       PROVE  at' = "idle" /\ indices' = indices
  BY <1>10 DEF NextDay, Restart, Goto
<1>11. QED
  BY <1>1, <1>2, <1>3, <1>4, <1>5, <1>6, <1>7, <1>8, <1>9, <1>10, NextIs

(* From the indices on, today has its row and was compared with the        *)
(* weekday before, if that has one.                                        *)
Compared ==
  at \notin {"idle", "index"} /\ ~excused =>
    /\ today \in indices
    /\ \A d \in indices : LastBefore(d) => compared = d

(* From the list of the assets on, who has no row of today is to get one.  *)
Averaged ==
  at \notin {"idle", "index", "list"} /\ ~excused =>
    \A a \in Live : Usable(ema[a]) => ema[a].date = today \/ (at = "ema" /\ a \in todo)

(* From the spread on, the date of its source is stored.                   *)
Spreaded ==
  at \in {"recommend", "entries", "announce", "done"} /\ ~excused => published \in spreads

Done == Calendar /\ Compared /\ Averaged /\ Spreaded

LEMMA DoneInit == ASSUME Init PROVE Done
  BY CalendarInit DEF Init, Done, Compared, Averaged, Spreaded

(* A step that ends the job, or fails, owes nothing of the day.            *)
LEMMA Excuses ==
  ASSUME at' \in {"idle", "index"} \/ excused' = TRUE
  PROVE  Compared' /\ Averaged' /\ Spreaded'
  BY DEF Compared, Averaged, Spreaded

LEMMA StepsThatExcuse ==
  ASSUME \/ Start \/ IndexFails \/ ListAssetsFails \/ SpreadFails \/ SpreadPanics
         \/ FindEntriesFails \/ FindEntriesPanics
         \/ \E a \in Assets : UpdateEmaFails(a) \/ AssetGone(a)
         \/ \E c \in Companies : AnnounceFails(c)
         \/ \E p \in Days : NextDay(p)
         \/ Restart
  PROVE  at' \in {"idle", "index"} \/ excused' = TRUE
  BY DEF Start, IndexFails, ListAssetsFails, SpreadFails, SpreadPanics, FindEntriesFails,
     FindEntriesPanics, UpdateEmaFails, AssetGone, AnnounceFails, NextDay, Restart, Goto

LEMMA ComparedNext == ASSUME TypeOK, Calendar, Compared, [Next]_vars PROVE Compared'
<1>1. CASE Index
  <2>1. /\ Workday(today) /\ indices' = indices \cup {today} /\ today' = today
        /\ compared' = IF Former \in indices THEN Former ELSE None
    BY <1>1 DEF Index, Compare, Calendar, clock
  <2>2. ASSUME NEW d \in indices', LastBefore(d)
        PROVE  compared' = d
    <3>1. d \in indices /\ Workday(d) /\ d \in Days
      BY <2>1, <2>2 DEF LastBefore, TypeOK, Calendar, Days
    <3>2. d = Former
      BY <2>1, <2>2, <3>1, FormerIsLast
    <3>3. QED
      BY <2>1, <3>1, <3>2
  <2>3. QED
    BY <2>1, <2>2 DEF Compared, LastBefore
<1>2. CASE /\ UNCHANGED <<today, indices, compared, excused>>
           /\ at' = at \/ at \notin {"idle", "index"}
  BY <1>2 DEF Compared, LastBefore
<1>3. ASSUME ListAssets \/ EmaDone \/ Spread \/ Recommend \/ FindEntries \/ Finish
      PROVE  /\ UNCHANGED <<today, indices, compared, excused>>
             /\ at' = at \/ at \notin {"idle", "index"}
  BY <1>3 DEF ListAssets, EmaDone, Spread, Recommend, FindEntries, Finish, clock, ghosts
<1>4. ASSUME NEW a \in Assets,
             (\E cp \in Prices : UpdateEma(a, cp)) \/ AddAsset(a) \/ DeleteAsset(a)
      PROVE  UNCHANGED <<today, indices, compared, excused>> /\ at' = at
  BY <1>4 DEF UpdateEma, AddAsset, DeleteAsset, clock, job, ghosts
<1>5. ASSUME NEW c \in Companies, Announce(c) \/ \E d \in Days : List(c, d)
      PROVE  UNCHANGED <<today, indices, compared, excused>> /\ at' = at
  BY <1>5 DEF Announce, List, clock, job, ghosts
<1>6. ASSUME (\E r \in FirstEmas : SaveFirstEma(r)) \/ SaveFirstEmaFails \/ UNCHANGED vars
      PROVE  UNCHANGED <<today, indices, compared, excused>> /\ at' = at
  BY <1>6 DEF SaveFirstEma, SaveFirstEmaFails, clock, job, ghosts, vars
<1>7. QED
  BY <1>1, <1>2, <1>3, <1>4, <1>5, <1>6, NextIs, StepsThatExcuse, Excuses DEF Plain

LEMMA AveragedNext ==
  ASSUME TypeOK, Fresh, Averaged, [Next]_vars
  PROVE  Averaged'
<1>1. CASE Index
  BY <1>1 DEF Index, Goto, Averaged
<1>2. CASE ListAssets
  BY <1>2 DEF ListAssets, Goto, assets, Averaged, Live
<1>3. CASE EmaDone
  BY <1>3 DEF EmaDone, Goto, clock, assets, ghosts, Averaged, Live
<1>4. CASE /\ UNCHANGED <<today, assets, excused>>
           /\ \/ at' = at /\ at # "ema"
              \/ /\ at \in {"spread", "recommend", "entries", "announce"}
                 /\ at' \in {"recommend", "entries", "announce", "done"}
              \/ UNCHANGED <<at, todo>>
  BY <1>4 DEF assets, Averaged, Live
<1>5. ASSUME Spread \/ Recommend \/ FindEntries \/ Finish
      PROVE  /\ UNCHANGED <<today, assets, excused>>
             /\ at \in {"spread", "recommend", "entries", "announce"}
             /\ at' \in {"recommend", "entries", "announce", "done"}
  BY <1>5 DEF Spread, Recommend, FindEntries, Finish, Goto, clock, ghosts
<1>6. ASSUME NEW c \in Companies, Announce(c)
      PROVE  UNCHANGED <<today, assets, excused>> /\ at' = at /\ at # "ema"
  BY <1>6 DEF Announce, clock
<1>7. ASSUME (\E c \in Companies, d \in Days : List(c, d)) \/ UNCHANGED vars
      PROVE  UNCHANGED <<today, assets, excused>> /\ UNCHANGED <<at, todo>>
  BY <1>7 DEF List, clock, job, ghosts, vars
<1>8. ASSUME NEW a \in Assets, NEW cp \in Prices, UpdateEma(a, cp)
      PROVE  Averaged'
  <2>1. /\ at = "ema" /\ at' = at /\ todo' = todo \ {a}
        /\ UNCHANGED <<today, asset, excused>>
    BY <1>8 DEF UpdateEma, clock
  <2>2. /\ \A b \in Assets \ {a} : ema'[b] = ema[b]
        /\ Usable(ema'[a]) => ema'[a].date = today
    BY <1>8, UpdateIs
  <2>3. QED
    BY <2>1, <2>2 DEF Averaged, Live, Usable
<1>9. ASSUME NEW a \in Assets, AddAsset(a)
      PROVE  Averaged'
  <2>1. /\ UNCHANGED <<today, excused, at, todo, ema>> /\ ema[a] = None
        /\ asset' = [asset EXCEPT ![a] = "live"]
    BY <1>9 DEF AddAsset, clock, job, ghosts, Fresh
  <2>2. Live' = Live \cup {a}
    BY <2>1 DEF Live, TypeOK
  <2>3. QED
    BY <2>1, <2>2 DEF Averaged, Usable
<1>10. ASSUME NEW a \in Assets, DeleteAsset(a)
       PROVE  Averaged'
  <2>1. /\ UNCHANGED <<today, excused, at, todo, ema>>
        /\ asset' = [asset EXCEPT ![a] = "deleted"]
    BY <1>10 DEF DeleteAsset, clock, job, ghosts
  <2>2. Live' \subseteq Live
    BY <2>1 DEF Live, TypeOK
  <2>3. QED
    BY <2>1, <2>2 DEF Averaged
<1>11. ASSUME NEW r \in FirstEmas, SaveFirstEma(r)
       PROVE  Averaged'
  <2>1. /\ UNCHANGED <<today, excused, at, todo, asset>> /\ adding \in Assets
        /\ ema' = [ema EXCEPT ![adding] = [ema |-> r.ema, n |-> r.n, date |-> today]]
    BY <1>11 DEF SaveFirstEma, clock, job, ghosts, TypeOK
  <2>2. ema'[adding].date = today /\ \A a \in Assets \ {adding} : ema'[a] = ema[a]
    BY <2>1 DEF TypeOK
  <2>3. QED
    BY <2>1, <2>2 DEF Averaged, Live
<1>12. CASE SaveFirstEmaFails
  BY <1>12 DEF SaveFirstEmaFails, clock, job, ghosts, Averaged, Live
<1>13. QED
  BY <1>1, <1>2, <1>3, <1>4, <1>5, <1>6, <1>7, <1>8, <1>9, <1>10, <1>11, <1>12, NextIs,
     StepsThatExcuse, Excuses DEF Plain

LEMMA SpreadedNext == ASSUME TypeOK, Spreaded, [Next]_vars PROVE Spreaded'
<1>1. CASE Spread
  <2>1. spreads # {} /\ spreads \in SUBSET Days /\ published' = published
    BY <1>1 DEF Spread, TypeOK
  <2>2. Newest(spreads) \in spreads
    BY <2>1, NewestIs
  <2>3. published \in spreads'
    BY <1>1, <2>2 DEF Spread
  <2>4. QED
    BY <2>1, <2>3 DEF Spreaded
<1>2. CASE at' \notin {"recommend", "entries", "announce", "done"}
  BY <1>2 DEF Spreaded
<1>3. CASE /\ UNCHANGED <<spread, excused>>
           /\ at' = at \/ at \in {"recommend", "entries", "announce", "done"}
  BY <1>3 DEF spread, Spreaded
<1>4. ASSUME Index \/ ListAssets \/ EmaDone
      PROVE  at' \notin {"recommend", "entries", "announce", "done"}
  BY <1>4 DEF Index, ListAssets, EmaDone, Goto
<1>5. ASSUME Recommend \/ FindEntries \/ Finish
      PROVE  /\ UNCHANGED <<spread, excused>>
             /\ at \in {"recommend", "entries", "announce", "done"}
  BY <1>5 DEF Recommend, FindEntries, Finish, ghosts
<1>6. ASSUME NEW a \in Assets,
             (\E cp \in Prices : UpdateEma(a, cp)) \/ AddAsset(a) \/ DeleteAsset(a)
      PROVE  UNCHANGED <<spread, excused>> /\ at' = at
  BY <1>6 DEF UpdateEma, AddAsset, DeleteAsset, job, ghosts
<1>7. ASSUME NEW c \in Companies, Announce(c) \/ \E d \in Days : List(c, d)
      PROVE  UNCHANGED <<spread, excused>> /\ at' = at
  BY <1>7 DEF Announce, List, job, ghosts
<1>8. ASSUME (\E r \in FirstEmas : SaveFirstEma(r)) \/ SaveFirstEmaFails \/ UNCHANGED vars
      PROVE  UNCHANGED <<spread, excused>> /\ at' = at
  BY <1>8 DEF SaveFirstEma, SaveFirstEmaFails, job, ghosts, vars
<1>9. QED
  BY <1>1, <1>2, <1>3, <1>4, <1>5, <1>6, <1>7, <1>8, NextIs, StepsThatExcuse, Excuses
  DEF Plain

(* A day on which nothing failed leaves every table up to date, whatever   *)
(* failed on the days before and whatever users did during the job; and    *)
(* its message compared the indices with those of the weekday before.      *)
THEOREM DayGetsDone == Spec => []DayIsDone
<1>1. Init => Fresh /\ Done
  BY FreshInit, DoneInit
<1>2. TypeOK /\ Fresh /\ Done /\ [Next]_vars => Fresh' /\ Done'
  BY FreshNext, CalendarNext, ComparedNext, AveragedNext, SpreadedNext DEF Done
<1>3. TypeOK /\ Done => DayIsDone
  <2> SUFFICES ASSUME Done, at = "done", ~excused PROVE DayIsDone
    BY DEF DayIsDone
  <2>1. today \in indices /\ \A d \in indices : LastBefore(d) => compared = d
    BY DEF Done, Compared
  <2>2. published \in spreads /\ \A a \in Live : Usable(ema[a]) => ema[a].date = today
    BY DEF Done, Averaged, Spreaded
  <2>3. QED
    BY <2>1, <2>2 DEF DayIsDone, LastBefore
<1>4. QED
  BY <1>1, <1>2, <1>3, TypesHold, PTL DEF Spec

-----------------------------------------------------------------------------
(* The newcomers *)

Stored == {companies[i] : i \in DOMAIN companies}

(* The companies stored, once each, were listed; who is to be announced    *)
(* was listed and is not stored; who was announced is, or could not be.    *)
Rolls ==
  /\ \A i, j \in DOMAIN companies : companies[i] = companies[j] => i = j
  /\ \A c \in Stored : listed[c] # None
  /\ at = "announce" =>
       \A c \in todo : c \notin Stored /\ listed[c] # None /\ companies # <<>>
  /\ \A c \in Companies : announced[c] > 0 => c \in Stored \cup unsaved
  /\ \A c \in Companies : announced[c] > 1 => c \in unsaved

(* Once the newcomers are found, each one that is neither late nor failed  *)
(* has its turn before the first is stored; before that it is newer than   *)
(* every company stored.                                                   *)
Awaited ==
  companies # <<>> =>
    \A c \in Companies \ Stored :
      listed[c] # None =>
        \/ c \in late \cup unsaved
        \/ at = "announce" /\ c \in todo
        \/ ~(at = "announce" /\ todo # {}) /\ listed[c] > LatestEntry

LEMMA RollsInit == ASSUME Init PROVE Rolls /\ Awaited
<1>1. PICK v \in Companies : /\ companies = <<>> \/ companies = <<v>>
                             /\ listed[v] = LongAgo
                             /\ \A c \in Companies \ {v} : listed[c] = None
  BY DailyAssumption DEF DailyAssumption, Init
<1>2. LongAgo # None
  BY DailyAssumption DEF DailyAssumption, Days, LongAgo
<1>3. Stored = {} \/ Stored = {v}
  BY <1>1 DEF Stored
<1>4. companies # <<>> => Stored = {v}
  BY <1>1 DEF Stored
<1>5. \A c \in Companies : announced[c] = 0
  BY DEF Init
<1>6. \A i, j \in DOMAIN companies : i = j
  BY <1>1
<1>7. Rolls
  BY <1>1, <1>2, <1>3, <1>5, <1>6 DEF Init, Rolls
<1>8. Awaited
  BY <1>1, <1>4 DEF Awaited
<1>9. QED
  BY <1>7, <1>8

(* The newest date stored is no older than any other.                      *)
LEMMA LatestIs ==
  ASSUME TypeOK, Rolls, companies # <<>>
  PROVE  /\ LatestEntry \in Days /\ \A c \in Stored : listed[c] <= LatestEntry
<1>1. Dates \in SUBSET Days /\ \A c \in Stored : listed[c] \in Dates
  BY DEF Dates, Stored, Rolls, TypeOK
<1>2. Dates # {}
  <2>1. 1 \in DOMAIN companies
    BY DEF TypeOK
  <2>2. QED
    BY <2>1 DEF Dates
<1>3. QED
  BY <1>1, <1>2, NewestIs DEF LatestEntry

(* The companies stay as they are, and who was listed stays so: Stored and *)
(* the newest date do as well.                                             *)
LEMMA SameLatest ==
  ASSUME TypeOK, Rolls, companies' = companies, \A c \in Stored : listed'[c] = listed[c]
  PROVE  Stored' = Stored /\ LatestEntry' = LatestEntry
<1>1. Stored' = Stored
  BY DEF Stored
<1>2. Dates' = Dates
  BY DEF Dates, Stored
<1>3. QED
  BY <1>1, <1>2 DEF LatestEntry, Newest

(* The steps that are no business of the companies'.                       *)
LEMMA Elsewhere ==
  ASSUME \/ Start \/ Index \/ ListAssets \/ EmaDone \/ Spread \/ Recommend
         \/ IndexFails \/ ListAssetsFails \/ SpreadFails \/ SpreadPanics
         \/ FindEntriesPanics
         \/ \E a \in Assets : \/ \E cp \in Prices : UpdateEma(a, cp)
                              \/ UpdateEmaFails(a) \/ AssetGone(a)
                              \/ AddAsset(a) \/ DeleteAsset(a)
         \/ \E r \in FirstEmas : SaveFirstEma(r)
         \/ SaveFirstEmaFails
         \/ \E p \in Days : NextDay(p)
         \/ UNCHANGED vars
  PROVE  /\ UNCHANGED <<sp500, announced, unsaved, late>>
         /\ UNCHANGED <<at, todo>> \/ (at # "announce" /\ at' # "announce")
<1> USE DEF Goto, job, sp500, ghosts
<1>1. CASE Start \/ Index \/ ListAssets \/ EmaDone \/ Spread \/ Recommend
  BY <1>1 DEF Start, Index, ListAssets, EmaDone, Spread, Recommend
<1>2. CASE IndexFails \/ ListAssetsFails \/ SpreadFails \/ SpreadPanics \/ FindEntriesPanics
  BY <1>2 DEF IndexFails, ListAssetsFails, SpreadFails, SpreadPanics, FindEntriesPanics
<1>3. ASSUME NEW a \in Assets,
             \/ \E cp \in Prices : UpdateEma(a, cp)
             \/ UpdateEmaFails(a) \/ AssetGone(a) \/ AddAsset(a) \/ DeleteAsset(a)
      PROVE  /\ UNCHANGED <<sp500, announced, unsaved, late>>
             /\ UNCHANGED <<at, todo>> \/ (at # "announce" /\ at' # "announce")
  BY <1>3 DEF UpdateEma, UpdateEmaFails, AssetGone, AddAsset, DeleteAsset
<1>4. CASE (\E r \in FirstEmas : SaveFirstEma(r)) \/ SaveFirstEmaFails
  BY <1>4 DEF SaveFirstEma, SaveFirstEmaFails
<1>5. CASE \E p \in Days : NextDay(p)
  BY <1>5 DEF NextDay
<1>6. CASE UNCHANGED vars
  BY <1>6 DEF vars
<1>7. QED
  BY <1>1, <1>2, <1>3, <1>4, <1>5, <1>6

(* A company is announced, and stored unless that fails.                   *)
LEMMA AnnounceKeeps ==
  ASSUME TypeOK, Rolls, Awaited, NEW c \in Companies, Announce(c)
  PROVE  Rolls' /\ Awaited'
<1>1. /\ at = "announce" /\ at' = at /\ c \in todo /\ todo' = todo \ {c}
      /\ announced' = [announced EXCEPT ![c] = @ + 1]
      /\ companies' = Append(companies, c)
      /\ UNCHANGED <<listed, unsaved, late>>
  BY DEF Announce
<1>2. c \notin Stored /\ listed[c] # None /\ companies # <<>>
  BY <1>1 DEF Rolls
<1>3. /\ companies \in Seq(Companies) /\ announced \in [Companies -> Nat]
      /\ todo \subseteq Companies
  BY <1>1 DEF TypeOK
<1>4. /\ DOMAIN companies' = DOMAIN companies \cup {Len(companies) + 1}
      /\ companies'[Len(companies) + 1] = c /\ companies' # <<>>
      /\ \A i \in DOMAIN companies : companies'[i] = companies[i] /\ i # Len(companies) + 1
  BY <1>1, <1>3
<1>5. Stored' = Stored \cup {c}
  BY <1>4 DEF Stored
<1>6. \A i, j \in DOMAIN companies' : companies'[i] = companies'[j] => i = j
  BY <1>2, <1>4 DEF Rolls, Stored
<1>7. \A d \in Stored' : listed'[d] # None
  BY <1>1, <1>2, <1>5 DEF Rolls
<1>8. \A d \in todo' : d \notin Stored' /\ listed'[d] # None /\ companies' # <<>>
  BY <1>1, <1>4, <1>5 DEF Rolls
<1>9. /\ announced'[c] = announced[c] + 1 /\ announced[c] \in Nat
      /\ \A d \in Companies \ {c} : announced'[d] = announced[d]
  BY <1>1, <1>3
<1>10. \A d \in Companies : announced'[d] > 0 => d \in Stored' \cup unsaved'
  BY <1>1, <1>5, <1>9 DEF Rolls
<1>11. \A d \in Companies : announced'[d] > 1 => d \in unsaved'
  BY <1>1, <1>2, <1>9 DEF Rolls
<1>12. Rolls'
  BY <1>6, <1>7, <1>8, <1>10, <1>11 DEF Rolls
<1>13. Awaited'
  BY <1>1, <1>2, <1>5 DEF Awaited
<1>14. QED
  BY <1>12, <1>13

LEMMA RollsNext ==
  ASSUME TypeOK, Rolls, Awaited, [Next]_vars
  PROVE  Rolls' /\ Awaited'
<1>1. CASE /\ UNCHANGED <<sp500, announced, unsaved, late>>
           /\ UNCHANGED <<at, todo>> \/ (at # "announce" /\ at' # "announce")
  <2>1. Stored' = Stored /\ LatestEntry' = LatestEntry
    BY <1>1, SameLatest DEF sp500
  <2>2. QED
    BY <1>1, <2>1 DEF sp500, Rolls, Awaited
<1>2. CASE FindEntries \/ FindEntriesFails
  <2>1. /\ at = "entries" /\ companies # <<>> /\ at' = "announce"
        /\ UNCHANGED <<sp500, announced, late, unsaved>>
        /\ todo = {} /\ (todo' = RecentEntries \/ todo' = {})
    BY <1>2 DEF FindEntries, FindEntriesFails, Goto, ghosts, TypeOK
  <2>2. Stored' = Stored /\ LatestEntry' = LatestEntry
    BY <2>1, SameLatest DEF sp500
  <2>3. LatestEntry \in Days /\ \A c \in Stored : listed[c] <= LatestEntry
    BY <2>1, LatestIs
  <2>4. \A c \in RecentEntries : c \notin Stored /\ listed[c] # None
    <3>1. \A c \in RecentEntries :
            listed[c] # None /\ listed[c] > LatestEntry /\ listed[c] \in Nat
      BY DaysAreNat DEF RecentEntries, TypeOK
    <3>2. \A c \in Stored : ~(listed[c] > LatestEntry) \/ listed[c] \notin Nat
      BY <2>3, DaysAreNat
    <3>3. QED
      BY <3>1, <3>2
  <2>5. Rolls'
    BY <2>1, <2>2, <2>4 DEF Rolls, sp500
  <2>6. Awaited'
    BY <2>1, <2>2 DEF Awaited, sp500, RecentEntries
  <2>7. QED
    BY <2>5, <2>6
<1>3. ASSUME NEW c \in Companies, Announce(c)
      PROVE  Rolls' /\ Awaited'
  BY <1>3, AnnounceKeeps
<1>4. ASSUME NEW c \in Companies, AnnounceFails(c)
      PROVE  Rolls' /\ Awaited'
  <2>1. /\ at = "announce" /\ at' = at /\ c \in todo /\ todo' = todo \ {c}
        /\ announced' = [announced EXCEPT ![c] = @ + 1]
        /\ unsaved' = unsaved \cup {c} /\ UNCHANGED <<sp500, late>>
    BY <1>4 DEF AnnounceFails
  <2>2. Stored' = Stored /\ LatestEntry' = LatestEntry
    BY <2>1, SameLatest DEF sp500
  <2>3. \A d \in Companies \ {c} : announced'[d] = announced[d]
    BY <2>1 DEF TypeOK
  <2>4. Rolls'
    BY <2>1, <2>2, <2>3 DEF Rolls, sp500
  <2>5. Awaited'
    BY <2>1, <2>2 DEF Awaited, sp500
  <2>6. QED
    BY <2>4, <2>5
<1>5. CASE Finish
  <2>1. /\ at = "announce" /\ todo = {} /\ todo' = {} /\ at' = "done"
        /\ UNCHANGED <<sp500, announced, unsaved, late>>
    BY <1>5 DEF Finish, Goto, ghosts
  <2>2. Stored' = Stored /\ LatestEntry' = LatestEntry
    BY <2>1, SameLatest DEF sp500
  <2>3. QED
    BY <2>1, <2>2 DEF Rolls, Awaited, sp500
<1>6. ASSUME NEW c \in Companies, NEW d \in Days, List(c, d)
      PROVE  Rolls' /\ Awaited'
  <2>1. /\ at # "announce" /\ at' = at /\ listed[c] = None
        /\ listed' = [listed EXCEPT ![c] = d]
        /\ late' = IF companies # <<>> /\ d <= LatestEntry THEN late \cup {c} ELSE late
        /\ UNCHANGED <<todo, companies, announced, unsaved>>
    BY <1>6 DEF List, job
  <2>2. c \notin Stored /\ d # None
    BY <2>1, DailyAssumption DEF Rolls, DailyAssumption
  <2>3. \A e \in Companies \ {c} : listed'[e] = listed[e]
    BY <2>1 DEF TypeOK
  <2>4. Stored \subseteq Companies
    BY DEF TypeOK, Stored
  <2>5. Stored' = Stored /\ LatestEntry' = LatestEntry
    BY <2>1, <2>2, <2>3, <2>4, SameLatest
  <2>6. Rolls'
    BY <2>1, <2>2, <2>3, <2>4, <2>5 DEF Rolls
  <2>7. companies # <<>> => c \in late' \/ listed'[c] > LatestEntry
    <3>1. companies # <<>> => LatestEntry \in Nat /\ d \in Nat
      BY LatestIs, DaysAreNat
    <3>2. QED
      BY <2>1, <3>1 DEF TypeOK
  <2>8. Awaited'
    BY <2>1, <2>3, <2>5, <2>7 DEF Awaited
  <2>9. QED
    BY <2>6, <2>8
<1>7. CASE Restart
  <2>1. /\ at' = "idle" /\ todo' = {} /\ UNCHANGED <<sp500, late>>
        /\ unsaved \subseteq unsaved' /\ (at = "announce" => todo \subseteq unsaved')
    BY <1>7 DEF Restart, Goto
  <2>2. Stored' = Stored /\ LatestEntry' = LatestEntry
    BY <2>1, SameLatest DEF sp500
  <2>3. /\ \A c \in Companies : c \notin unsaved' => announced'[c] = announced[c]
        /\ announced \in [Companies -> Nat]
    BY <1>7, <2>1 DEF Restart, TypeOK
  <2>4. Rolls'
    BY <2>1, <2>2, <2>3 DEF Rolls, sp500
  <2>5. Awaited'
    BY <2>1, <2>2 DEF Awaited, sp500
  <2>6. QED
    BY <2>4, <2>5
<1>8. QED
  BY <1>1, <1>2, <1>3, <1>4, <1>5, <1>6, <1>7, NextIs, Elsewhere DEF Plain

(* A company that is in the table is there as often as it has places.      *)
LEMMA CopiesAre ==
  ASSUME TypeOK, Rolls, NEW c
  PROVE  Copies(c) <= 1 /\ (Copies(c) = 0 => c \notin Stored)
<1> DEFINE P == {i \in DOMAIN companies : companies[i] = c}
<1>1. CASE P = {}
  BY <1>1, FS_EmptySet DEF Copies, Stored
<1>2. ASSUME NEW i \in P
      PROVE  Copies(c) = 1
  <2>1. P = {i}
    BY DEF Rolls
  <2>2. Cardinality({i}) = 1
    BY FS_Singleton
  <2>3. QED
    BY <2>1, <2>2 DEF Copies
<1>3. QED
  BY <1>1, <1>2

(* However often the job fails, panics or is cut short: no company is      *)
(* stored twice, none is announced twice unless it could not be saved, and *)
(* none is missed, but for one listed late or lost at its turn.            *)
THEOREM NewcomersTold == Spec => []NewcomersAreToldOnce
<1>1. Init => Rolls /\ Awaited
  BY RollsInit
<1>2. TypeOK /\ Rolls /\ Awaited /\ [Next]_vars => Rolls' /\ Awaited'
  BY RollsNext
<1>3. TypeOK /\ Rolls /\ Awaited => NewcomersAreToldOnce
  <2> SUFFICES ASSUME TypeOK, Rolls, Awaited, NEW c \in Companies
               PROVE  /\ Copies(c) <= 1 /\ (announced[c] > 1 => c \in unsaved)
                      /\ listed[c] # None /\ companies # <<>> /\ Copies(c) = 0 =>
                           \/ listed[c] > LatestEntry
                           \/ at = "announce" /\ c \in todo
                           \/ c \in late \cup unsaved
    BY DEF NewcomersAreToldOnce
  <2>1. Copies(c) <= 1 /\ (Copies(c) = 0 => c \notin Stored)
    BY CopiesAre
  <2>2. QED
    BY <2>1 DEF Rolls, Awaited
<1>4. QED
  BY <1>1, <1>2, <1>3, TypesHold, PTL DEF Spec
=============================================================================
