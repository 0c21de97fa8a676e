------------------------------- MODULE Notices -------------------------------
(***************************************************************************)
(* New airdrop events: a run reads the notice page of Upbit and then that  *)
(* of Bithumb, and tells the user of each matching notice whose address    *)
(* Redis does not know yet.  The cron job starts a run every ten minutes   *)
(* and the user may start one beside it.  The address is stored after the  *)
(* message, for three months; the errors of all calls to Redis and of the  *)
(* message are dropped.                                                    *)
(***************************************************************************)
EXTENDS Naturals, FiniteSets

CONSTANTS
  Runs,       \* goroutines that execute runNewlyOpenedAirdropEvent
  Urls,       \* addresses of notices within a site
  Nothing,    \* no notice
  MaxPosts,   \* bound: notices posted and taken down
  MaxLapses,  \* bound: times three months pass for an address
  MaxMisses   \* bound: failed calls

Upbit == "upbit"
Bithumb == "bithumb"
Notices == [site: {Upbit, Bithumb}, url: Urls]

ASSUME NoticesAssumption ==
  /\ Nothing \notin Notices
  /\ {MaxPosts, MaxLapses, MaxMisses} \subseteq Nat

VARIABLES
  posted,    \* the matching notices on the two pages
  cached,    \* notices of which Redis knows the address
  at, site,  \* per run: its step and the site it is at
  found, cur,\* per run: notices of that site still to look at, the one in hand
  posts, lapses, misses,
  (* History variables: no code reads them. *)
  told,      \* notices the user was told of, in the last three months
  repeated,  \* notices told again
  shaky,     \* notices whose address was asked or stored in vain, or by two runs
  unsent     \* notices of which the message could not be sent

progress  == <<at, site, found, cur>>
limits    == <<posts, lapses, misses>>
news      == <<told, repeated, shaky, unsent>>
noticeVars == <<posted, cached, progress, limits, news>>

NoticeInit ==
  /\ posted \in SUBSET Notices /\ cached = {}
  /\ at = [x \in Runs |-> "idle"] /\ site = [x \in Runs |-> Upbit]
  /\ found = [x \in Runs |-> {}] /\ cur = [x \in Runs |-> Nothing]
  /\ posts = 0 /\ lapses = 0 /\ misses = 0
  /\ told = {} /\ repeated = {} /\ shaky = {} /\ unsent = {}

Miss == misses < MaxMisses /\ misses' = misses + 1 /\ UNCHANGED <<posts, lapses>>

-----------------------------------------------------------------------------
(* A run *)

Begin(x) ==
  /\ at[x] = "idle"
  /\ at' = [at EXCEPT ![x] = "fetch"]
  /\ site' = [site EXCEPT ![x] = Upbit]
  /\ UNCHANGED <<posted, cached, found, cur, limits, news>>

(* Run x goes on with the notices ns: the next one, the other site, or the *)
(* end.                                                                    *)
GoOn(x, ns) ==
  /\ found' = [found EXCEPT ![x] = ns]
  /\ cur' = [cur EXCEPT ![x] = Nothing]
  /\ at' = [at EXCEPT ![x] = IF ns # {} THEN "ask"
                             ELSE IF site[x] = Upbit THEN "fetch" ELSE "idle"]
  /\ site' = [site EXCEPT ![x] = IF ns = {} THEN Bithumb ELSE @]

(* Faulty variant: the loop over the other site's notices goes over those  *)
(* of the first once more.                                                 *)
Fetch_UpbitTwice(x) ==
  /\ at[x] = "fetch"
  /\ GoOn(x, {n \in posted : n.site = Upbit})
  /\ UNCHANGED <<posted, cached, limits, news>>

(* AirdropEventUpbit, AirdropEventBithumb.                                 *)
Fetch(x) ==
  /\ at[x] = "fetch"
  /\ GoOn(x, {n \in posted : n.site = site[x]})
  /\ UNCHANGED <<posted, cached, limits, news>>

(* The page cannot be read: the other site's turn.  A page whose layout    *)
(* has changed reads as one without notices.                               *)
FetchFails(x) ==
  /\ at[x] = "fetch"
  /\ Miss
  /\ GoOn(x, {})
  /\ UNCHANGED <<posted, cached, news>>

InHand(x, n) == \E y \in Runs \ {x} : cur[y] = n

TakeUp(x, n) ==
  /\ at' = [at EXCEPT ![x] = "send"]
  /\ cur' = [cur EXCEPT ![x] = n]
  /\ UNCHANGED <<site, found>>

(* Faulty variant: the site is not part of the key.                        *)
Known_AnySite(n) == \E c \in cached : c.url = n.url

(* GetCache(site + url).                                                   *)
Known(n) == n \in cached

Ask(x, n) ==
  /\ at[x] = "ask" /\ n \in found[x]
  /\ IF Known(n)
     THEN GoOn(x, found[x] \ {n}) /\ UNCHANGED shaky
     ELSE /\ TakeUp(x, n)
          /\ shaky' = IF InHand(x, n) THEN shaky \cup {n} ELSE shaky
  /\ UNCHANGED <<posted, cached, limits, told, repeated, unsent>>

(* A failed GetCache counts as an unknown address.                         *)
AskFails(x, n) ==
  /\ at[x] = "ask" /\ n \in found[x]
  /\ Miss
  /\ TakeUp(x, n)
  /\ shaky' = shaky \cup {n}
  /\ UNCHANGED <<posted, cached, told, repeated, unsent>>

Send(x) ==
  /\ at[x] = "send"
  /\ at' = [at EXCEPT ![x] = "mark"]
  /\ told' = told \cup {cur[x]}
  /\ repeated' = IF cur[x] \in told THEN repeated \cup {cur[x]} ELSE repeated
  /\ UNCHANGED <<posted, cached, site, found, cur, limits, shaky, unsent>>

SendFails(x) ==
  /\ at[x] = "send"
  /\ Miss
  /\ at' = [at EXCEPT ![x] = "mark"]
  /\ unsent' = unsent \cup {cur[x]}
  /\ UNCHANGED <<posted, cached, site, found, cur, told, repeated, shaky>>

(* Faulty variant: an address is stored in place of the others.            *)
Mark_Replaces(x) ==
  /\ at[x] = "mark"
  /\ cached' = {cur[x]}
  /\ GoOn(x, found[x] \ {cur[x]})
  /\ UNCHANGED <<posted, limits, news>>

(* SetCache(site + url, true, 3 months).                                   *)
Mark(x) ==
  /\ at[x] = "mark"
  /\ cached' = cached \cup {cur[x]}
  /\ GoOn(x, found[x] \ {cur[x]})
  /\ UNCHANGED <<posted, limits, news>>

MarkFails(x) ==
  /\ at[x] = "mark"
  /\ Miss
  /\ shaky' = shaky \cup {cur[x]}
  /\ GoOn(x, found[x] \ {cur[x]})
  /\ UNCHANGED <<posted, cached, told, repeated, unsent>>

(* The process stops: the runs are gone, Redis stays.                      *)
Cut ==
  /\ at' = [x \in Runs |-> "idle"] /\ site' = [x \in Runs |-> Upbit]
  /\ found' = [x \in Runs |-> {}] /\ cur' = [x \in Runs |-> Nothing]
  /\ shaky' = shaky \cup {cur[x] : x \in {y \in Runs : at[y] = "mark"}}
  /\ UNCHANGED <<posted, cached, limits, told, repeated, unsent>>

-----------------------------------------------------------------------------
(* The sites and the clock *)

Post(n) ==
  /\ posts < MaxPosts /\ posts' = posts + 1
  /\ posted' = IF n \in posted THEN posted \ {n} ELSE posted \cup {n}
  /\ UNCHANGED <<cached, progress, lapses, misses, news>>

(* Three months after it was stored an address is unknown again.  No run   *)
(* takes as long.                                                          *)
Lapse(n) ==
  /\ lapses < MaxLapses /\ lapses' = lapses + 1
  /\ n \in cached /\ ~ \E x \in Runs : cur[x] = n
  /\ cached' = cached \ {n} /\ told' = told \ {n}
  /\ UNCHANGED <<posted, progress, posts, misses, repeated, shaky, unsent>>

Act(x) ==
  \/ Fetch(x) \/ Send(x) \/ Mark(x)
  \/ \E n \in Notices : Ask(x, n)

Stumble(x) ==
  \/ FetchFails(x) \/ SendFails(x) \/ MarkFails(x)
  \/ \E n \in Notices : AskFails(x, n)

Outside == \E n \in Notices : Post(n) \/ Lapse(n)

(* Runs that begin at any time, the event being on.                        *)
NoticeNext ==
  \/ \E x \in Runs : Begin(x) \/ Act(x) \/ Stumble(x)
  \/ Cut
  \/ Outside

NoticeSpec == NoticeInit /\ [][NoticeNext]_noticeVars

-----------------------------------------------------------------------------
(* Properties *)

(* Types, and what a run holds at each of its steps.                       *)
NoticesTypeOK ==
  /\ posted \in SUBSET Notices /\ cached \in SUBSET Notices
  /\ \A x \in Runs :
       /\ at[x] \in {"idle", "fetch", "ask", "send", "mark"}
       /\ site[x] \in {Upbit, Bithumb}
       /\ found[x] \subseteq [site: {site[x]}, url: Urls]
       /\ at[x] \in {"idle", "fetch"} <=> found[x] = {}
       /\ IF at[x] \in {"send", "mark"} THEN cur[x] \in found[x] ELSE cur[x] = Nothing
  /\ {posts, lapses, misses} \subseteq Nat
  /\ {told, repeated, shaky, unsent} \subseteq SUBSET Notices

(* The user is told of a notice once in three months, unless a call to     *)
(* Redis about it failed, two runs had it in hand at once, or the process  *)
(* stopped between the message and SetCache.                               *)
OnlyFaultsRepeat == repeated \subseteq shaky
=============================================================================
