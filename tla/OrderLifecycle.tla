---------------------------- MODULE OrderLifecycle ----------------------------
(***************************************************************************)
(* What the saga promises of an order nobody asks to cancel, whatever      *)
(* services, topics and replicas it takes: from placed to confirmed with   *)
(* its stock held and paid for, or to cancelled with its stock put back    *)
(* and nothing paid (saga.go:8-14, README.md:38-67).                       *)
(*                                                                         *)
(*   none -> placed -> held -> paid -> confirmed                           *)
(*             |         |                                                 *)
(*             |         +---> returning                                   *)
(*             |                  |                                        *)
(*             +--------> cancelled                                        *)
(***************************************************************************)
CONSTANT Order

VARIABLE stage      \* how far each order has come

Init == stage = [o \in Order |-> "none"]

Move(o, from, to) == stage[o] = from /\ stage' = [stage EXCEPT ![o] = to]

Place(o)   == Move(o, "none", "placed")
Hold(o)    == Move(o, "placed", "held")
Refuse(o)  == Move(o, "placed", "cancelled")
Pay(o)     == Move(o, "held", "paid")
Decline(o) == Move(o, "held", "returning")
Confirm(o) == Move(o, "paid", "confirmed")
Return(o)  == Move(o, "returning", "cancelled")

(* What has to follow once an order is placed. *)
Settle(o) == \/ Hold(o) \/ Refuse(o)
             \/ Pay(o) \/ Decline(o)
             \/ Confirm(o) \/ Return(o)

Next == \E o \in Order : Place(o) \/ Settle(o)

Spec == Init /\ [][Next]_stage

(* No order stops half-way. *)
Fair == \A o \in Order : WF_stage(Settle(o))

FairSpec == Spec /\ Fair
=============================================================================
