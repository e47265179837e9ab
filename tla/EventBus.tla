------------------------------ MODULE EventBus ------------------------------
(***************************************************************************)
(* The Kafka broker as the services of Pulse use it: append-only topics    *)
(* split into partitions, one writer per service and one consumer group    *)
(* per service.  kafka-go and the broker are not part of the repository;   *)
(* they are modelled from the options the services give them in kafka.go.  *)
(*                                                                         *)
(*  - A Writer with RequireAll and the Hash balancer appends an event to   *)
(*    the partition its key, the order id, hashes to.  It retries and is   *)
(*    not idempotent: a write whose acknowledgement is lost is appended    *)
(*    again (the fault "duplicate").                                       *)
(*  - A Reader with a GroupID commits the offset of a message inside       *)
(*    ReadMessage, before it returns the message.  Whatever happens to the *)
(*    handler afterwards, the group does not see that message again.       *)
(*  - A group has one offset per partition; the replicas of a service      *)
(*    share it, and a rebalance may hand the partition to another replica  *)
(*    while the first is still inside its handler.                         *)
(***************************************************************************)
EXTENDS OrderItems

CONSTANTS Partition,    \* partitions of each topic
          PartitionOf,  \* kafka.Hash: the partition of an event's key, its order id
          FaultKind,    \* the faults that may happen, see Fault below
          MaxFaults     \* bound on how many of them happen in a behaviour

ASSUME PartitionAssumption == PartitionOf \in [Order -> Partition]
ASSUME FaultAssumption == /\ FaultKind \subseteq {"stop", "duplicate", "dberror"}
                          /\ MaxFaults \in Nat

VARIABLES log,     \* log[t][p] is the sequence of events of partition p of topic t
          faults   \* how many faults have happened

busVars == <<log, faults>>

Topic == {"order.events", "inventory.events", "payment.events"}

EventType == {"order.created", "order.confirmed", "order.cancelled",
              "inventory.reserved", "inventory.failed", "inventory.released",
              "payment.confirmed", "payment.failed"}

(* The flat JSON event all the services share, reduced to the fields the   *)
(* saga acts on.  A field an event does not carry is empty: <<>> or 0.     *)
Event == [type : EventType, orderId : Order, items : ValidCart \cup {<<>>}, total : Nat]

MakeEvent(type, o, items, total) ==
    [type |-> type, orderId |-> o, items |-> items, total |-> total]

(* A goroutine with no handler running. *)
Idle == [pc |-> "idle"]

BusTypeOK == /\ log \in [Topic -> [Partition -> Seq(Event)]]
             /\ faults \in 0..MaxFaults

BusInit == /\ log = [t \in Topic |-> [p \in Partition |-> <<>>]]
           /\ faults = 0

(* A writer that keeps kafka-go's default balancer, which takes turns. *)
PublishRoundRobin(t, e) ==
    \E p \in Partition : log' = [log EXCEPT ![t][p] = Append(@, e)]

(* Producer.Publish of each service: one message keyed by the order id. *)
Publish(t, e) == log' = [log EXCEPT ![t][PartitionOf[e.orderId]] = Append(@, e)]

(* One more fault of kind k:                                                *)
(*   "stop"       a handler ends where it is: its process dies, its context *)
(*                is cancelled, or the broker refuses its event;            *)
(*   "duplicate"  the acknowledgement of a write is lost and the Writer     *)
(*                retries it;                                               *)
(*   "dberror"    a database call returns an error.                         *)
Fault(k) == /\ k \in FaultKind
            /\ faults < MaxFaults
            /\ faults' = faults + 1

(* The event a group with this offset reads next, and whether there is one. *)
HasNext(offset, t, p) == offset < Len(log[t][p])
NextEvent(offset, t, p) == log[t][p][offset + 1]

(* Events of one type about one order that topic t holds. *)
Published(t, type, o) ==
    { pi \in UNION { {p} \X DOMAIN log[t][p] : p \in Partition } :
        /\ log[t][pi[1]][pi[2]].type = type
        /\ log[t][pi[1]][pi[2]].orderId = o }

HasEvent(t, type, o) == Published(t, type, o) # {}
=============================================================================
