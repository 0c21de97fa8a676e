----------------------------- MODULE EventSwitch -----------------------------
(***************************************************************************)
(* The enrolled events, which the user switches on and off and launches.   *)
(*                                                                         *)
(* Each event has a status in memory, which the cron job and LaunchEvent   *)
(* look at, and one in the table events, from which a restarted server     *)
(* takes it over.  SetEventStatus writes the two one after the other, in   *)
(* the goroutine of the request; the error of the second write is dropped. *)
(***************************************************************************)
EXTENDS Naturals, FiniteSets

CONSTANTS
  Events,     \* the enrolled events
  Requests,   \* goroutines that serve POST /events/switch
  NoRow,      \* an event has no row in the table yet
  MaxRuns,    \* bound: runs of one event at a time
  MaxFaults   \* bound: failed database calls and crashes

ASSUME SwitchAssumption ==
  /\ NoRow \notin BOOLEAN
  /\ MaxRuns \in Nat /\ MaxFaults \in Nat

VARIABLES
  loaded,    \* events registered since the server was started
  active,    \* IsActive of each event in memory
  stored,    \* is_active of its row, or NoRow
  pc, event, status,  \* per request: its step, the event and the status it sets
  runs,      \* runs of each event in progress
  faults,
  (* History variables: no code reads them. *)
  asked,     \* the status the last request for an event was answered with
  doubtful,  \* events whose last request failed, found no row, or overlapped another
  unread,    \* events whose row the server could neither read nor create when it started
  wronged    \* events that were run although they were to be off

memory  == <<loaded, active, runs>>
request == <<pc, event, status>>
ghosts  == <<asked, doubtful, unread, wronged>>
vars    == <<memory, stored, request, faults, ghosts>>

Up == loaded = Events
Switching(e) == {r \in Requests : pc[r] = "store" /\ event[r] = e}

Init ==
  /\ loaded = {} /\ active = [e \in Events |-> FALSE]
  /\ stored \in [Events -> BOOLEAN \cup {NoRow}]
  /\ pc = [r \in Requests |-> "idle"] /\ event \in [Requests -> Events]
  /\ status = [r \in Requests |-> FALSE]
  /\ runs = [e \in Events |-> 0]
  /\ faults = 0
  /\ asked = [e \in Events |-> stored[e] # FALSE]
  /\ doubtful = {} /\ unread = {} /\ wronged = {}

Fault == faults < MaxFaults /\ faults' = faults + 1

-----------------------------------------------------------------------------
(* Start of the server *)

(* Faulty variant: an event without a row starts switched off.             *)
Load_DefaultOff(e) ==
  /\ e \notin loaded
  /\ loaded' = loaded \cup {e}
  /\ active' = [active EXCEPT ![e] = (stored[e] = TRUE)]
  /\ stored' = [stored EXCEPT ![e] = (stored[e] = TRUE)]
  /\ UNCHANGED <<runs, request, faults, ghosts>>

(* registerEvents, RetreiveEventIsActive: an event without a row gets one  *)
(* and starts active.                                                      *)
Load(e) ==
  /\ e \notin loaded
  /\ loaded' = loaded \cup {e}
  /\ active' = [active EXCEPT ![e] = (stored[e] # FALSE)]
  /\ stored' = [stored EXCEPT ![e] = (stored[e] # FALSE)]
  /\ UNCHANGED <<runs, request, faults, ghosts>>

(* The query fails: the event starts inactive.  Or the row cannot be       *)
(* created: it starts active all the same.                                 *)
LoadFails(e) ==
  /\ e \notin loaded
  /\ Fault
  /\ loaded' = loaded \cup {e}
  /\ \E b \in BOOLEAN :
       /\ b => stored[e] = NoRow
       /\ active' = [active EXCEPT ![e] = b]
  /\ unread' = unread \cup {e}
  /\ UNCHANGED <<stored, runs, request, asked, doubtful, wronged>>

-----------------------------------------------------------------------------
(* SetEventStatus *)

(* The status in memory changes first.                                     *)
Switch(r, e, b) ==
  /\ Up /\ pc[r] = "idle"
  /\ pc' = [pc EXCEPT ![r] = "store"]
  /\ event' = [event EXCEPT ![r] = e] /\ status' = [status EXCEPT ![r] = b]
  /\ active' = [active EXCEPT ![e] = b]
  /\ doubtful' = IF Switching(e) = {} THEN doubtful ELSE doubtful \cup {e}
  /\ unread' = unread \ {e}
  /\ UNCHANGED <<loaded, runs, stored, faults, asked, wronged>>

(* Faulty variant: the table is left to the next start.                    *)
Store_Skipped(r) ==
  /\ pc[r] = "store"
  /\ pc' = [pc EXCEPT ![r] = "idle"]
  /\ asked' = [asked EXCEPT ![event[r]] = status[r]]
  /\ doubtful' = IF Switching(event[r]) = {r} /\ stored[event[r]] # NoRow
                 THEN doubtful \ {event[r]} ELSE doubtful \cup {event[r]}
  /\ UNCHANGED <<memory, event, status, stored, faults, unread, wronged>>

(* UpdateEventIsActive updates the row, if there is one.  The request is   *)
(* answered; one that was alone settles the status of the event.           *)
Store(r) ==
  LET e == event[r]
  IN  /\ pc[r] = "store"
      /\ pc' = [pc EXCEPT ![r] = "idle"]
      /\ stored' = [stored EXCEPT ![e] = IF @ = NoRow THEN NoRow ELSE status[r]]
      /\ asked' = [asked EXCEPT ![e] = status[r]]
      /\ doubtful' = IF active[e] = status[r] /\ Switching(e) = {r} /\ stored[e] # NoRow
                     THEN doubtful \ {e} ELSE doubtful \cup {e}
      /\ UNCHANGED <<memory, event, status, faults, unread, wronged>>

(* The update fails; the request is answered as if it had not.             *)
StoreFails(r) ==
  /\ pc[r] = "store"
  /\ Fault
  /\ pc' = [pc EXCEPT ![r] = "idle"]
  /\ asked' = [asked EXCEPT ![event[r]] = status[r]]
  /\ doubtful' = doubtful \cup {event[r]}
  /\ UNCHANGED <<memory, event, status, stored, unread, wronged>>

-----------------------------------------------------------------------------
(* Runs *)

(* The cron job of an event, or LaunchEvent, finds it active and runs it.  *)
Launch(e) ==
  /\ Up /\ active[e] /\ runs[e] < MaxRuns
  /\ runs' = [runs EXCEPT ![e] = @ + 1]
  /\ wronged' = IF asked[e] \/ e \in doubtful \/ Switching(e) # {} THEN wronged
                ELSE wronged \cup {e}
  /\ UNCHANGED <<loaded, active, stored, request, faults, asked, doubtful, unread>>

Finish(e) ==
  /\ runs[e] > 0
  /\ runs' = [runs EXCEPT ![e] = @ - 1]
  /\ UNCHANGED <<loaded, active, stored, request, faults, ghosts>>

(* The process stops; the statuses are loaded again when it is started.    *)
Crash ==
  /\ Fault
  /\ loaded' = {}
  /\ active' = [e \in Events |-> FALSE] /\ runs' = [e \in Events |-> 0]
  /\ pc' = [r \in Requests |-> "idle"]
  /\ unread' = {}
  /\ UNCHANGED <<stored, event, status, asked, doubtful, wronged>>

Next ==
  \/ \E e \in Events : Load(e) \/ LoadFails(e) \/ Launch(e) \/ Finish(e)
  \/ \E r \in Requests :
       \/ Store(r) \/ StoreFails(r)
       \/ \E e \in Events, b \in BOOLEAN : Switch(r, e, b)
  \/ Crash

Spec == Init /\ [][Next]_vars

-----------------------------------------------------------------------------
(* Properties *)

(* Types; requests and runs are in progress only in a server that is up.   *)
TypeOK ==
  /\ loaded \in SUBSET Events /\ active \in [Events -> BOOLEAN]
  /\ stored \in [Events -> BOOLEAN \cup {NoRow}]
  /\ pc \in [Requests -> {"idle", "store"}] /\ event \in [Requests -> Events]
  /\ status \in [Requests -> BOOLEAN]
  /\ runs \in [Events -> Nat] /\ faults \in Nat
  /\ Up \/ ((\A e \in Events : runs[e] = 0) /\ (\A r \in Requests : pc[r] = "idle"))
  /\ asked \in [Events -> BOOLEAN]
  /\ {doubtful, unread, wronged} \subseteq SUBSET Events

(* The status an event was last switched to is the one in the table, over  *)
(* crashes, restarts and failed starts, unless the request that switched it*)
(* failed, found no row to update, or ran beside another one for the same  *)
(* event.  It is the one in memory too, unless the server could not read or*)
(* create the row when it started; then the event may be off that should be*)
(* on until it is switched or the server starts again, and never on that   *)
(* should be off.  An event without a row counts as on.                    *)
Settled(e) == e \notin doubtful /\ Switching(e) = {}
StatusIsKept ==
  \A e \in Events : Settled(e) =>
    /\ stored[e] = asked[e] \/ (stored[e] = NoRow /\ asked[e] /\ e \notin loaded \ unread)
    /\ e \in loaded \ unread => active[e] = asked[e]
    /\ e \in unread => (active[e] => asked[e])

(* An event that was switched off, and not in doubt, is not run.           *)
NotRunWhenOff == wronged = {}
=============================================================================
