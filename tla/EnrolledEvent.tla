---------------------------- MODULE EnrolledEvent ----------------------------
(***************************************************************************)
(* The event that announces airdrops, from its switch to its messages: a   *)
(* run begins when the event is launched and is active (EventSwitch), and  *)
(* then reads the pages and tells what is new (Notices).  A crash ends the *)
(* runs and empties the memory of the switch; table and Redis stay.        *)
(***************************************************************************)
EXTENDS EventSwitch, Notices

CONSTANT MaxMishaps  \* bound: faults, misses, posts and lapses together

ASSUME EnrolledAssumption ==
  /\ \E e \in Events : Events = {e}
  /\ MaxMishaps \in Nat
  /\ IsFiniteSet(Runs) /\ MaxRuns = Cardinality(Runs)

InitAll == Init /\ NoticeInit

(* LaunchEvent or the cron job calls the event's function.                 *)
LaunchRun(x) == Begin(x) /\ \E e \in Events : Launch(e)

(* The function goes on, or returns.                                       *)
Advance(x) == Act(x) /\ at'[x] # "idle" /\ UNCHANGED vars
Return(x)  == Act(x) /\ at'[x] = "idle" /\ \E e \in Events : Finish(e)
Trip(x)    == Stumble(x) /\ at'[x] # "idle" /\ UNCHANGED vars
TripUp(x)  == Stumble(x) /\ at'[x] = "idle" /\ \E e \in Events : Finish(e)

Serve ==
  \/ \E e \in Events : Load(e) \/ LoadFails(e)
  \/ \E r \in Requests :
       \/ Store(r) \/ StoreFails(r)
       \/ \E e \in Events, b \in BOOLEAN : Switch(r, e, b)

Bounded == faults' + misses' + posts' + lapses' <= MaxMishaps

NextAll ==
  /\ \/ \E x \in Runs : LaunchRun(x) \/ Advance(x) \/ Return(x) \/ Trip(x) \/ TripUp(x)
     \/ Serve /\ UNCHANGED noticeVars
     \/ Crash /\ Cut
     \/ Outside /\ UNCHANGED vars
  /\ Bounded

(* The server is started, requests are served, cron launches the event     *)
(* every ten minutes, and a run goes on.                                   *)
FairnessAll ==
  /\ \A e \in Events : WF_<<vars, noticeVars>>(Load(e) /\ UNCHANGED noticeVars)
  /\ \A r \in Requests : WF_<<vars, noticeVars>>(Store(r) /\ UNCHANGED noticeVars)
  /\ WF_<<vars, noticeVars>>(\E x \in Runs : LaunchRun(x))
  /\ \A x \in Runs : WF_<<vars, noticeVars>>(Advance(x) \/ Return(x))

SpecAll == InitAll /\ [][NextAll]_<<vars, noticeVars>> /\ FairnessAll

-----------------------------------------------------------------------------
(* Properties *)

(* Types of both parts, a run looks only at notices of the site it is at,  *)
(* and every run the switch counts is one at work.                         *)
TypesOK ==
  /\ TypeOK /\ NoticesTypeOK
  /\ \A e \in Events : runs[e] = Cardinality({x \in Runs : at[x] # "idle"})

(* While the event is switched on and settled, and its status could be read*)
(* when the server was last started, a notice that stays on its page is    *)
(* told, over restarts and failures of the page, of Redis and of the other *)
(* site.  Only a message that could not be sent is lost.                   *)
SwitchedOn == \A e \in Events : Settled(e) /\ asked[e] /\ e \notin unread
NoticesAreTold ==
  \A n \in Notices :
    <>[](SwitchedOn /\ n \in posted) => []<>(n \in told \cup unsent)
=============================================================================
