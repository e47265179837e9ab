---------------------------- MODULE PulseLifecycle ----------------------------
(***************************************************************************)
(* How far an order has come, read off the tables of the three services,   *)
(* and Pulse as an implementation of OrderLifecycle.                       *)
(***************************************************************************)
EXTENDS Pulse

Stage(o) ==
    CASE orders[o].status = "none"      -> "none"
      [] orders[o].status = "confirmed" -> "confirmed"
      [] orders[o].status = "cancelled" -> IF HoldsNothing(o) THEN "cancelled" ELSE "returning"
      [] OTHER                          -> IF charges[o] # <<>> THEN "paid"
                                           ELSE IF HoldsNothing(o) THEN "placed" ELSE "held"

Lifecycle == INSTANCE OrderLifecycle WITH stage <- [o \in Order |-> Stage(o)]

(* However the handlers of an order interleave or fail, three services     *)
(* together take it through its stages one at a time: it is charged only   *)
(* while its stock is held, confirmed only when it was charged, cancelled  *)
(* only when it was not, and then for good (saga.go:8-14).                 *)
ImplementsLifecycle == Lifecycle!Spec

(* If nothing fails no order, once inserted, stops half-way: not pending   *)
(* with its stock held, nor cancelled before its stock is back             *)
(* (README.md:41-67).  With ImplementsLifecycle this is Lifecycle!FairSpec. *)
NoneStopsHalfWay == [](faults = 0) => Lifecycle!Fair
=============================================================================
