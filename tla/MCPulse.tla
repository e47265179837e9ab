------------------------------- MODULE MCPulse -------------------------------
(* Instances of Pulse for TLC. *)
EXTENDS PulseLifecycle, TLC

CONSTANTS o1, o2, s1, s2, r1, i1, i2, w1, w2, apple

Item(p, q, u) == [product |-> p, quantity |-> q, unitPrice |-> u]

(* Carts: one that succeeds, one the card declines, one of two lines for   *)
(* the same product, and one that Validate refuses.                        *)
Cheap    == <<Item(apple, 1, 10)>>
Dear     == <<Item(apple, 1, 60)>>
TwoLines == <<Item(apple, 1, 10), Item(apple, 1, 5)>>
Negative == <<Item(apple, 0 - 1, 10)>>

FewCarts  == {Cheap, Dear, Negative}
LineCarts == {Cheap, Dear, TwoLines, Negative}
OneCart   == {Cheap}

OneUnit  == [p \in Product |-> 1]
TwoUnits == [p \in Product |-> 2]

OnePartition  == [o \in Order |-> CHOOSE p \in Partition : TRUE]
ByOrder       == [o \in Order |-> IF o = o1 THEN 1 ELSE 2]

(* Replicas and requests are alike; so are orders, unless a configuration  *)
(* names some.                                                             *)
AlikeWorkers ==
    Permutations(SagaWorker) \cup Permutations(Request)
      \cup Permutations(InvWorker) \cup Permutations(PayWorker)
Interchangeable == Permutations(Order) \cup AlikeWorkers
=============================================================================
