----------------------------- MODULE OrderService -----------------------------
(***************************************************************************)
(* order-service: the orders table, the HTTP handlers that create and      *)
(* cancel an order, and the saga consumer that moves an order along when   *)
(* inventory-service or payment-service reports.                           *)
(*                                                                         *)
(* Every goroutine that runs such a handler is in Handler: SagaWorker are  *)
(* the consumers (one per replica), Request the HTTP requests in flight.   *)
(* A handler's database call and its publish are separate steps, so other  *)
(* goroutines run and faults happen between them.                          *)
(***************************************************************************)
EXTENDS EventBus

CONSTANTS SagaWorker,   \* consumer goroutines of the group "order-service"
          Request,      \* HTTP requests that can be in flight at once
          Cancelling    \* the orders whose customers may ask to cancel them

Handler == SagaWorker \cup Request

ASSUME HandlerAssumption == SagaWorker \cap Request = {}
ASSUME CancellingAssumption == Cancelling \subseteq Order

VARIABLES orders,       \* the orders table, by order id
          acknowledged, \* orders whose customer got a 201 with the order id
          task,         \* what each handler goroutine is doing
          ordOffset     \* the group's committed offset, by topic and partition

orderVars == <<orders, acknowledged, task, ordOffset>>

SagaTopic == {"inventory.events", "payment.events"}

(* The row NewOrder builds, and the absence of one. *)
NoOrder == [status |-> "none", items |-> <<>>, total |-> 0]
NewOrder(items) == [status |-> "pending", items |-> items, total |-> Total(items)]

CanCancel(status) == status \in {"pending", "confirmed"}

OrderTask == {Idle}
        \cup [pc : {"confirm", "cancel"}, orderId : Order]
        \cup [pc : {"publish"}, event : Event]

OrderTypeOK ==
    /\ orders \in [Order -> [status : {"none", "pending", "confirmed", "cancelled"},
                             items  : ValidCart \cup {<<>>},
                             total  : Nat]]
    /\ acknowledged \in SUBSET Order
    /\ task \in [Handler -> OrderTask]
    /\ ordOffset \in [SagaTopic -> [Partition -> Nat]]

OrderInit ==
    /\ orders = [o \in Order |-> NoOrder]
    /\ acknowledged = {}
    /\ task = [h \in Handler |-> Idle]
    /\ ordOffset = [t \in SagaTopic |-> [p \in Partition |-> 0]]

-----------------------------------------------------------------------------
(* CreateOrder that forgets to call Validate. *)
CreateOrderUnchecked(r, o, items) ==
    /\ task[r] = Idle
    /\ orders[o].status = "none"
    /\ orders' = [orders EXCEPT ![o] = NewOrder(items)]
    /\ task' = [task EXCEPT ![r] =
                  [pc |-> "publish",
                   event |-> MakeEvent("order.created", o, items, Total(items))]]
    /\ UNCHANGED <<busVars, acknowledged, ordOffset>>

(* POST /orders: validate, insert the pending row, then publish            *)
(* order.created.  An invalid cart is answered 400 and changes nothing.    *)
CreateOrder(r, o, items) ==
    /\ task[r] = Idle
    /\ orders[o].status = "none"
    /\ Validate(items)
    /\ orders' = [orders EXCEPT ![o] = NewOrder(items)]
    /\ task' = [task EXCEPT ![r] =
                  [pc |-> "publish",
                   event |-> MakeEvent("order.created", o, items, Total(items))]]
    /\ UNCHANGED <<busVars, acknowledged, ordOffset>>

(* POST /orders/{id}/cancel up to the CanCancel check: the customer owns   *)
(* the order and has its id.  404, 403 and 409 change nothing.             *)
CancelOrder(r, o) ==
    /\ task[r] = Idle
    /\ o \in Cancelling \cap acknowledged
    /\ CanCancel(orders[o].status)
    /\ task' = [task EXCEPT ![r] = [pc |-> "cancel", orderId |-> o]]
    /\ UNCHANGED <<busVars, orders, acknowledged, ordOffset>>

(* Saga.Handle that confirms as soon as the stock is reserved, one that    *)
(* forgets payment.failed, and one that cancels on inventory.released.     *)
HandleReserved(e) ==
    CASE e.type \in {"inventory.reserved", "payment.confirmed"}
                                 -> [pc |-> "confirm", orderId |-> e.orderId]
      [] e.type \in {"inventory.failed", "payment.failed"}
                                 -> [pc |-> "cancel", orderId |-> e.orderId]
      [] OTHER                   -> Idle

HandleNoDecline(e) ==
    CASE e.type = "payment.confirmed" -> [pc |-> "confirm", orderId |-> e.orderId]
      [] e.type = "inventory.failed"  -> [pc |-> "cancel", orderId |-> e.orderId]
      [] OTHER                        -> Idle

HandleReleased(e) ==
    CASE e.type = "payment.confirmed" -> [pc |-> "confirm", orderId |-> e.orderId]
      [] e.type \in {"inventory.failed", "inventory.released", "payment.failed"}
                                      -> [pc |-> "cancel", orderId |-> e.orderId]
      [] OTHER                        -> Idle

(* Saga.Handle: what the consumer does about an event. *)
Handle(e) == CASE e.type = "payment.confirmed" -> [pc |-> "confirm", orderId |-> e.orderId]
               [] e.type \in {"inventory.failed", "payment.failed"}
                                               -> [pc |-> "cancel", orderId |-> e.orderId]
               [] OTHER                        -> Idle

(* One turn of Consumer.Run: ReadMessage has committed the offset when it  *)
(* returns the event to be handled.                                        *)
SagaRead(w, t, p) ==
    /\ task[w] = Idle
    /\ HasNext(ordOffset[t][p], t, p)
    /\ ordOffset' = [ordOffset EXCEPT ![t][p] = @ + 1]
    /\ task' = [task EXCEPT ![w] = Handle(NextEvent(ordOffset[t][p], t, p))]
    /\ UNCHANGED <<busVars, orders, acknowledged>>

(* Saga.Confirm up to its publish.  UpdateStatus does not look at the      *)
(* status it overwrites.  FindByID finds the row: every event of a saga    *)
(* follows the insert of its order, and rows are never deleted.            *)
SagaConfirm(w) ==
    /\ task[w].pc = "confirm"
    /\ LET o == task[w].orderId IN
         /\ orders' = [orders EXCEPT ![o].status = "confirmed"]
         /\ task' = [task EXCEPT ![w] =
                       [pc |-> "publish",
                        event |-> MakeEvent("order.confirmed", o, <<>>, orders[o].total)]]
    /\ UNCHANGED <<busVars, acknowledged, ordOffset>>

(* Saga.Cancel up to its publish, for the consumer and for CancelOrder. *)
SagaCancel(h) ==
    /\ task[h].pc = "cancel"
    /\ LET o == task[h].orderId IN
         /\ orders' = [orders EXCEPT ![o].status = "cancelled"]
         /\ task' = [task EXCEPT ![h] =
                       [pc |-> "publish",
                        event |-> MakeEvent("order.cancelled", o, <<>>, 0)]]
    /\ UNCHANGED <<busVars, acknowledged, ordOffset>>

(* Producer.Publish, and the end of the handler.  CreateOrder answers 201  *)
(* only now.  On a lost acknowledgement the Writer is still publishing.    *)
OrderPublish(h) ==
    /\ task[h].pc = "publish"
    /\ Publish("order.events", task[h].event)
    /\ \/ /\ task' = [task EXCEPT ![h] = Idle]
          /\ acknowledged' = IF task[h].event.type = "order.created"
                             THEN acknowledged \cup {task[h].event.orderId}
                             ELSE acknowledged
          /\ UNCHANGED faults
       \/ /\ Fault("duplicate")
          /\ UNCHANGED <<task, acknowledged>>
    /\ UNCHANGED <<orders, ordOffset>>

(* A query of Confirm or Cancel fails: the error goes up to the caller,    *)
(* which answers 500 or logs it, and nothing is published.                 *)
SagaError(h) ==
    /\ task[h].pc \in {"confirm", "cancel"}
    /\ Fault("dberror")
    /\ task' = [task EXCEPT ![h] = Idle]
    /\ UNCHANGED <<log, orders, acknowledged, ordOffset>>

(* The handler ends where it is: its process dies, its context is          *)
(* cancelled, or the broker refuses the event.  Nothing is rolled back.    *)
OrderStop(h) ==
    /\ task[h] # Idle
    /\ Fault("stop")
    /\ task' = [task EXCEPT ![h] = Idle]
    /\ UNCHANGED <<log, orders, acknowledged, ordOffset>>

-----------------------------------------------------------------------------
(* The steps a goroutine takes once it has something to do. *)
SagaWorkerStep(w) ==
    \/ \E t \in SagaTopic, p \in Partition : SagaRead(w, t, p)
    \/ SagaConfirm(w)
    \/ SagaCancel(w)
    \/ OrderPublish(w)

RequestStep(r) == SagaCancel(r) \/ OrderPublish(r)

OrderNext ==
    \/ \E r \in Request, o \in Order :
          (\E items \in Cart : CreateOrder(r, o, items)) \/ CancelOrder(r, o)
    \/ \E w \in SagaWorker : SagaWorkerStep(w)
    \/ \E r \in Request : RequestStep(r)
    \/ \E h \in Handler : SagaError(h) \/ OrderStop(h)
=============================================================================
