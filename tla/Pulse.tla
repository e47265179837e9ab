-------------------------------- MODULE Pulse --------------------------------
(***************************************************************************)
(* The order saga of Pulse: order-service, inventory-service and           *)
(* payment-service, each with tables of its own that no other service      *)
(* touches, coordinating through the broker alone.  A behaviour            *)
(* interleaves the steps of all their replicas and of the HTTP requests,   *)
(* with up to MaxFaults faults between them.                               *)
(***************************************************************************)
EXTENDS OrderService, InventoryService, PaymentService, FiniteSets

vars == <<busVars, orderVars, inventoryVars, paymentVars>>

TypeOK == BusTypeOK /\ OrderTypeOK /\ InventoryTypeOK /\ PaymentTypeOK

Init == BusInit /\ OrderInit /\ InventoryInit /\ PaymentInit

(* Every handler has returned and every group has read its topics.  The    *)
(* services wait here for the next request, for ever if none comes.        *)
Quiescent ==
    /\ \A h \in Handler : task[h] = Idle
    /\ \A w \in InvWorker : inv[w] = Idle
    /\ \A w \in PayWorker : pay[w] = Idle
    /\ \A p \in Partition :
          /\ \A t \in SagaTopic : ~ HasNext(ordOffset[t][p], t, p)
          /\ ~ HasNext(invOffset[p], "order.events", p)
          /\ ~ HasNext(payOffset[p], "inventory.events", p)

Waiting == Quiescent /\ UNCHANGED vars

Next == \/ OrderNext /\ UNCHANGED <<inventoryVars, paymentVars>>
        \/ InventoryNext /\ UNCHANGED <<orderVars, paymentVars>>
        \/ PaymentNext /\ UNCHANGED <<orderVars, inventoryVars>>
        \/ Waiting

Spec == Init /\ [][Next]_vars

(* A running goroutine is scheduled and its calls return: each consumer    *)
(* goes on reading and handling, each request goes on to its answer.       *)
(* Nothing makes a customer send a request or a fault happen.              *)
Fairness ==
    /\ \A w \in SagaWorker :
          WF_vars(SagaWorkerStep(w) /\ UNCHANGED <<inventoryVars, paymentVars>>)
    /\ \A r \in Request :
          WF_vars(RequestStep(r) /\ UNCHANGED <<inventoryVars, paymentVars>>)
    /\ \A w \in InvWorker :
          WF_vars(InvWorkerStep(w) /\ UNCHANGED <<orderVars, paymentVars>>)
    /\ \A w \in PayWorker :
          WF_vars(PayWorkerStep(w) /\ UNCHANGED <<orderVars, inventoryVars>>)

FairSpec == Spec /\ Fairness

-----------------------------------------------------------------------------
(* What an order holds in the other services. *)
Held(o) == reservations[o].active
HoldsNothing(o) == Held(o) = NoUnits
HoldsItsItems(o) == Held(o) = [p \in Product |-> Demand(orders[o].items, p)]

(* The saga is all or nothing (saga.go:8-14): when nothing is left to do    *)
(* and nothing has failed, a confirmed order holds its stock and was charged its total, once; any  *)
(* other order is cancelled, holds no stock and was not charged.           *)
SagaAtomicity ==
    (Quiescent /\ faults = 0) =>
      \A o \in Order :
        CASE orders[o].status = "confirmed" ->
                 HoldsItsItems(o) /\ charges[o] = <<orders[o].total>>
          [] orders[o].status \in {"none", "cancelled"} ->
                 HoldsNothing(o) /\ charges[o] = <<>>
          [] OTHER -> FALSE

(* When nothing is left to do nor failed, order.events has announced the outcome that *)
(* the orders table records, once, and not the other one; this is all      *)
(* notification-service and the customer learn of it (saga.go:43-71).      *)
OutcomeAnnounced ==
    (Quiescent /\ faults = 0) =>
      \A o \in Order :
        /\ Cardinality(Published("order.events", "order.confirmed", o)) =
             IF orders[o].status = "confirmed" THEN 1 ELSE 0
        /\ Cardinality(Published("order.events", "order.cancelled", o)) =
             IF orders[o].status = "cancelled" THEN 1 ELSE 0

(* Whatever a customer's cancel races with, once an order.cancelled has    *)
(* been published and the services have come to rest, the order holds no   *)
(* stock (README.md:65-67).                                                *)
CancelledHoldsNoStock ==
    Quiescent => \A o \in Order :
        HasEvent("order.events", "order.cancelled", o) => HoldsNothing(o)

(* No order is charged twice (payment-service handler.go:31-69), although  *)
(* neither the insert nor the gateway call looks for an earlier charge.    *)
(* That is so of systems in which no event is written twice; if one may    *)
(* be, ChargedOncePerEvent is what remains.                                *)
NoDoubleCharge == \A o \in Order : Len(charges[o]) <= 1

(* Only the customer can cancel an order that was confirmed, in the step   *)
(* of the request that asks for it: the consumer's unconditional           *)
(* UpdateStatus in Saga.Cancel (saga.go:55-63) never meets one.            *)
ConfirmedUndoneOnlyByCustomer ==
    [][\A o \in Order :
          (orders[o].status = "confirmed" /\ orders'[o].status = "cancelled")
             => \E r \in Request : /\ task[r] = [pc |-> "cancel", orderId |-> o]
                                  /\ task'[r].pc = "publish"]_vars

(* The reserved column is the sum of the active reservations, through      *)
(* repeated reserves and repeated releases of one order, and GREATEST      *)
(* never hides a difference (inventory-service db.go:80-92, 111-142).      *)
LedgerExact ==
    \A p \in Product :
        reserved[p] = SumFunction([o \in Order |-> reservations[o].active[p]])

(* Two orders never take the same unit (inventory-service db.go:51-53). *)
NeverOversold == \A p \in Product : reserved[p] \in 0..StockLevel[p]

(* A confirmed order has been charged, and nothing else than its total     *)
(* (saga.go:11, payment-service handler.go:28-30).                         *)
ConfirmedWasPaid ==
    \A o \in Order : orders[o].status = "confirmed" => charges[o] # <<>>
ChargedAmountIsTotal ==
    \A o \in Order : \A i \in DOMAIN charges[o] : charges[o][i] = orders[o].total

(* An order is charged only after all its items were reserved              *)
(* (payment-service handler.go:13-14).                                     *)
WasReserved(o) ==
    \A p \in Product : Demand(orders[o].items, p) <=
                          reservations[o].active[p] + reservations[o].released[p]
ChargedWasReserved == \A o \in Order : charges[o] # <<>> => WasReserved(o)

(* It is charged at most once per inventory.reserved that was published,   *)
(* however the handlers of these fail (payment-service handler.go:21-31).  *)
ChargedOncePerEvent ==
    \A o \in Order : Len(charges[o]) <=
        Cardinality(Published("inventory.events", "inventory.reserved", o))

(* Stock is given back only for an order whose order.cancelled was         *)
(* published (inventory-service handler.go:20-23).                         *)
ReleasedWasCancelled ==
    \A o \in Order : reservations[o].released # NoUnits
                        => HasEvent("order.events", "order.cancelled", o)

(* A charge is never without its payments row (payment-service             *)
(* handler.go:42-46), and a row says completed only if the charge happened. *)
ChargeHasRow ==
    \A o \in Order :
        LET Rows(s) == { i \in DOMAIN payments[o] : payments[o][i].status = s } IN
          /\ Len(charges[o]) <= Cardinality(Rows("pending") \cup Rows("completed"))
          /\ Cardinality(Rows("completed")) <= Len(charges[o])

(* Provenance, the inductive invariant behind ConfirmedWasPaid,            *)
(* ChargedAmountIsTotal and ChargedWasReserved: what an event asserts is   *)
(* already so in the databases, and stays so, when it is about to be       *)
(* published, while it is in a topic and while a handler acts on it.       *)
Vouched(e) ==
    LET o == e.orderId IN
      /\ orders[o].status # "none"
      /\ e.type = "order.created" =>
            e.items = orders[o].items /\ e.total = orders[o].total
      /\ e.type = "inventory.reserved" =>
            e.total = orders[o].total /\ WasReserved(o)
      /\ e.type = "payment.confirmed" => charges[o] # <<>>

LogVouched ==
    \A t \in Topic, p \in Partition : \A i \in DOMAIN log[t][p] : Vouched(log[t][p][i])

TaskVouched(h) ==
    /\ task[h].pc = "publish" =>
          /\ Vouched(task[h].event)
          /\ task[h].event.type \in {"order.created", "order.confirmed", "order.cancelled"}
    /\ task[h].pc = "confirm" => charges[task[h].orderId] # <<>>
    /\ task[h].pc \in {"confirm", "cancel"} => orders[task[h].orderId].status # "none"

InvVouched(w) ==
    /\ inv[w].pc # "idle" => Vouched(inv[w].event)
    /\ inv[w].pc = "reserve" => inv[w].event.type = "order.created"

PayVouched(w) ==
    /\ pay[w].pc # "idle" => Vouched(pay[w].event)
    /\ pay[w].pc \in {"insert", "charge", "record"} =>
          pay[w].event.type = "inventory.reserved"
    /\ pay[w].pc = "record" =>
          (pay[w].status = "completed" => charges[pay[w].event.orderId] # <<>>)

ChargesVouched ==
    \A o \in Order : charges[o] # <<>> => orders[o].status # "none"

Provenance ==
    /\ LogVouched
    /\ \A h \in Handler : TaskVouched(h)
    /\ \A w \in InvWorker : InvVouched(w)
    /\ \A w \in PayWorker : PayVouched(w)
    /\ ChargesVouched
    /\ ConfirmedWasPaid
    /\ ChargedAmountIsTotal
    /\ ChargedWasReserved

(* Every order whose customer was told it is placed ends up confirmed or   *)
(* cancelled (order.go:9).                                                 *)
EveryOrderSettles ==
    \A o \in Order : o \in acknowledged ~> orders[o].status \in {"confirmed", "cancelled"}

(* Once order.cancelled is out the stock is put back, and stays back       *)
(* (README.md:65-67).                                                      *)
CancelReleasesStock ==
    \A o \in Order : HasEvent("order.events", "order.cancelled", o) ~> [] HoldsNothing(o)

-----------------------------------------------------------------------------
(* What the repository says of itself and the code does not keep.          *)

(* "CancelOrder cancels an order the customer asked to cancel"             *)
(* (server.go:99), and an order "starts pending and ends up confirmed or   *)
(* cancelled" (order.go:9): a cancelled order stays cancelled.             *)
CancelledIsFinal ==
    [][\A o \in Order : orders[o].status = "cancelled"
                           => orders'[o].status = "cancelled"]_vars

(* "If a step fails, order.cancelled is published instead" (saga.go:13),   *)
(* "every failure publishes order.cancelled" (README.md:65-66).            *)
FailureIsCancelled ==
    Quiescent => \A o \in acknowledged :
        \/ orders[o].status = "confirmed"
        \/ HasEvent("order.events", "order.cancelled", o)

(* "Your order was cancelled: ... You have not been charged."              *)
(* (notification-service handler.go:51), sent for every order.cancelled.   *)
CancelledWasNotCharged ==
    \A o \in Order : HasEvent("order.events", "order.cancelled", o) => charges[o] = <<>>
=============================================================================
