---------------------------- MODULE MCPulseNotify ----------------------------
(* An instance of PulseNotify for TLC, with one consumer or with two. *)
EXTENDS PulseNotify

CONSTANTS o1, s1, r1, i1, w1, n1, n2, apple, pear

Item(p, q, u) == [product |-> p, quantity |-> q, unitPrice |-> u]

(* One that succeeds, one the card declines, one nobody stocks, and one     *)
(* that Validate refuses.                                                  *)
Cheap   == <<Item(apple, 1, 10)>>
Dear    == <<Item(apple, 1, 60)>>
Unknown == <<Item(pear, 1, 10)>>
Negative == <<Item(apple, 0 - 1, 10)>>

AllCarts == {Cheap, Dear, Unknown, Negative}

OneUnit == [p \in Product |-> 1]

OnePartition == [o \in Order |-> CHOOSE p \in Partition : TRUE]

-----------------------------------------------------------------------------
VARIABLE readers    \* the consumers that read in this behaviour

(* A fault that leaves an event in a topic: it is about to be written again. *)
WrittenTwice == faults' # faults /\ log' # log

ReadersInit == \E some \in {{n1}, {n1, n2}} : NotifyInit /\ readers = some

(* Bound: an event is written twice only where one consumer reads alone.    *)
ReadersNext ==
    /\ NotifyNext
    /\ UNCHANGED readers
    /\ \A n \in Notifier \ readers : notify'[n] = Idle
    /\ WrittenTwice => readers = {n1}

ReadersSpec ==
    /\ ReadersInit
    /\ [][ReadersNext]_<<allVars, readers>>
    /\ NotifyFairness
=============================================================================
