------------------------------ MODULE OrderFeed ------------------------------
(***************************************************************************)
(* What a stream of orders promises to the consumer of orders, however it  *)
(* is connected: executions come in the order they happened and at most    *)
(* once, and while the feed is open none of them is lost.  Those   *)
(* not handed over when it closes may be lost, and those that happen while *)
(* it is closed are not reported.                                          *)
(***************************************************************************)
EXTENDS Naturals, Sequences

CONSTANT Orders      \* executions that may happen

VARIABLES
  open,      \* whether the feed is open
  pending,   \* executions reported and not handed over
  fate       \* of each execution: "placed" (not executed), "pending", "given", "lost"

Init ==
  /\ open \in BOOLEAN /\ pending = <<>>
  /\ fate = [o \in Orders |-> "placed"]

Execute(o) ==
  /\ fate[o] = "placed"
  /\ IF open
     THEN pending' = Append(pending, o) /\ fate' = [fate EXCEPT ![o] = "pending"]
     ELSE fate' = [fate EXCEPT ![o] = "lost"] /\ UNCHANGED pending
  /\ UNCHANGED open

Give ==
  /\ pending # <<>>
  /\ fate' = [fate EXCEPT ![Head(pending)] = "given"]
  /\ pending' = Tail(pending)
  /\ UNCHANGED open

Open == ~open /\ open' = TRUE /\ UNCHANGED <<pending, fate>>

(* Those behind the first k are lost; those before may still be handed     *)
(* over, and more of them lost, while the feed is closed.                  *)
Keep(k) ==
  /\ pending' = SubSeq(pending, 1, k)
  /\ fate' = [o \in Orders |->
                 IF \E i \in k + 1 .. Len(pending) : pending[i] = o THEN "lost" ELSE fate[o]]

Close == open /\ open' = FALSE /\ \E k \in 0..Len(pending) : Keep(k)

Forget == ~open /\ UNCHANGED open /\ \E k \in 0..Len(pending) : Keep(k)

Next == (\E o \in Orders : Execute(o)) \/ Give \/ Open \/ Close \/ Forget

Spec == Init /\ [][Next]_<<open, pending, fate>>
=============================================================================
