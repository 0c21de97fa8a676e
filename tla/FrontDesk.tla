------------------------------ MODULE FrontDesk ------------------------------
(***************************************************************************)
(* What the program says of funds, and which assets it looks up for them:  *)
(* the reports of Portfolio and the ids of AssetIds.  Reports carry the    *)
(* asset with each row and look up no kept id, and neither part writes     *)
(* what the other reads; the deletion of an asset is a step of each, with  *)
(* what it means there.  So TLC follows one at a time.                     *)
(***************************************************************************)
EXTENDS Portfolio, AssetIds

desk == <<deskVars, idVars>>

InitDesk == DeskInit /\ IdsInit

NoReport ==
  /\ changes = 0 /\ failures = 0 /\ known = 0 /\ ~portCache
  /\ level = Min(Levels) /\ usd = Min(DollarRates) /\ rows[Won].sum >= 0
  /\ \A x \in Reports : step[x] = "idle"
NoAsset == assets = <<>> /\ idFaults = 0 /\ used = NoUse

OfPortfolio(A) == NoAsset /\ A /\ UNCHANGED idVars
OfIds(A) == NoReport /\ A /\ UNCHANGED deskVars

NextDesk == OfPortfolio(DeskNext) \/ OfIds(IdsNext)

SpecDesk == InitDesk /\ [][NextDesk]_desk

(* Both are well typed.                                                    *)
TypesOK == DeskTypeOK /\ IdsTypeOK
=============================================================================
