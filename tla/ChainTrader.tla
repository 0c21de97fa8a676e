----------------------------- MODULE ChainTrader -----------------------------
(***************************************************************************)
(* What trades on Avalanche side by side: the swaps of TokenSwap and the   *)
(* advice of DexAdvice, as cron and the user start them, and a position    *)
(* kept with the functions of PoolPosition.                                *)
(*                                                                         *)
(* The swaps keep their state on the chain and in their goroutine, the     *)
(* advice in variables of the package, a position in its caller.  None     *)
(* reads what another writes, so a behaviour of all is one of each, in any *)
(* order, and Apart leaves it to TLC to follow one at a time.              *)
(***************************************************************************)
EXTENDS TokenSwap, DexAdvice, PoolPosition

all == <<vars, adviceVars, poolVars>>

InitAll == Init /\ AdviceInit /\ PoolInit

NoAdvice == started = 0 /\ trades = 0 /\ held = 0
Apart ==
  \/ launches = 0 /\ (NoAdvice \/ stage = "none")
  \/ NoAdvice /\ stage = "none"

NextAll ==
  \/ Next /\ UNCHANGED <<adviceVars, poolVars>> /\ Apart'
  \/ AdviceNext /\ UNCHANGED <<vars, poolVars>> /\ Apart'
  \/ PoolNext /\ UNCHANGED <<vars, adviceVars>> /\ Apart'

SpecAll == InitAll /\ [][NextAll]_all /\ Fairness

(* All are well typed, and a transaction waited for was sent.              *)
TypesOK == TypeOK /\ AdviceTypeOK /\ PoolTypeOK
=============================================================================
