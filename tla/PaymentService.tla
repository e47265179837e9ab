---------------------------- MODULE PaymentService ----------------------------
(***************************************************************************)
(* payment-service: the payments table, and the consumer that charges a    *)
(* customer when inventory-service has reserved the order's stock.  The    *)
(* card provider is MockGateway; what it has charged is kept here too,     *)
(* as the customer's bank would see it.                                    *)
(***************************************************************************)
EXTENDS EventBus

CONSTANTS PayWorker,    \* consumer goroutines of the group "payment-service"
          DeclineOver   \* the gateway declines anything above this amount

ASSUME DeclineAssumption == DeclineOver \in Nat

VARIABLES payments,     \* the payments table: the rows of each order, as inserted
          charges,      \* the amounts the provider took for each order
          pay,          \* what each consumer is doing
          payOffset     \* the group's committed offset, by partition

paymentVars == <<payments, charges, pay, payOffset>>

PaymentRow == [amount : Nat, status : {"pending", "completed", "failed"}]

(* From its insert on a handler carries the row it inserted. *)
PaymentTask == {Idle}
          \cup [pc : {"insert", "publish"}, event : Event]
          \cup [pc : {"charge"}, event : Event, row : Nat \ {0}]
          \cup [pc : {"record"}, event : Event, row : Nat \ {0},
                status : {"completed", "failed"}]

PaymentTypeOK ==
    /\ payments \in [Order -> Seq(PaymentRow)]
    /\ charges \in [Order -> Seq(Nat)]
    /\ pay \in [PayWorker -> PaymentTask]
    /\ payOffset \in [Partition -> Nat]

PaymentInit ==
    /\ payments = [o \in Order |-> <<>>]
    /\ charges = [o \in Order |-> <<>>]
    /\ pay = [w \in PayWorker |-> Idle]
    /\ payOffset = [p \in Partition |-> 0]

-----------------------------------------------------------------------------
(* Handle that also charges when the reservation failed. *)
PayHandleFailed(e) == IF e.type # "inventory.released"
                      THEN [pc |-> "insert", event |-> e]
                      ELSE Idle

(* Handler.Handle: only inventory.reserved starts a charge. *)
PayHandle(e) == IF e.type = "inventory.reserved"
                THEN [pc |-> "insert", event |-> e]
                ELSE Idle

(* One turn of Consumer.Run: the offset is committed before the handler. *)
PayRead(w, p) ==
    /\ pay[w] = Idle
    /\ HasNext(payOffset[p], "inventory.events", p)
    /\ payOffset' = [payOffset EXCEPT ![p] = @ + 1]
    /\ pay' = [pay EXCEPT ![w] = PayHandle(NextEvent(payOffset[p], "inventory.events", p))]
    /\ UNCHANGED <<busVars, payments, charges>>

(* charge inserts a pending row.  It does not look for earlier rows of the *)
(* same order.                                                             *)
PayInsert(w) ==
    /\ pay[w].pc = "insert"
    /\ LET e == pay[w].event IN
         /\ payments' = [payments EXCEPT ![e.orderId] =
                           Append(@, [amount |-> e.total, status |-> "pending"])]
         /\ pay' = [pay EXCEPT ![w] = [pc |-> "charge", event |-> e,
                                       row |-> Len(payments[e.orderId]) + 1]]
    /\ UNCHANGED <<busVars, charges, payOffset>>

(* The failed insert only logged, and the card charged anyway. *)
PayInsertErrorIgnored(w) ==
    /\ pay[w].pc = "insert"
    /\ Fault("dberror")
    /\ LET e == pay[w].event IN
         pay' = [pay EXCEPT ![w] = [pc |-> "charge", event |-> e,
                                    row |-> Len(payments[e.orderId]) + 1]]
    /\ UNCHANGED <<log, payments, charges, payOffset>>

(* Without its row the customer is not charged; the error is returned and  *)
(* nothing is published, so order-service goes on waiting.                 *)
PayInsertError(w) ==
    /\ pay[w].pc = "insert"
    /\ Fault("dberror")
    /\ pay' = [pay EXCEPT ![w] = Idle]
    /\ UNCHANGED <<log, payments, charges, payOffset>>

(* Gateway.Charge, and the status the row is to get. *)
PayCharge(w) ==
    /\ pay[w].pc = "charge"
    /\ LET e == pay[w].event
           accepted == e.total <= DeclineOver
       IN  /\ charges' = IF accepted
                         THEN [charges EXCEPT ![e.orderId] = Append(@, e.total)]
                         ELSE charges
           /\ pay' = [pay EXCEPT ![w] = [pc |-> "record", event |-> e, row |-> pay[w].row,
                                         status |-> IF accepted THEN "completed" ELSE "failed"]]
    /\ UNCHANGED <<busVars, payments, payOffset>>

(* What charge and fail publish. *)
Outcome(e, status) ==
    IF status = "completed" THEN MakeEvent("payment.confirmed", e.orderId, <<>>, e.total)
                            ELSE MakeEvent("payment.failed", e.orderId, <<>>, 0)

(* UpdateStatus, in charge or in fail.  Its error is only logged: the row  *)
(* stays pending and the outcome is published all the same.                *)
PayRecord(w) ==
    /\ pay[w].pc = "record"
    /\ LET e == pay[w].event IN
         /\ \/ /\ payments' = [payments EXCEPT ![e.orderId][pay[w].row].status = pay[w].status]
               /\ UNCHANGED faults
            \/ /\ Fault("dberror")
               /\ UNCHANGED payments
         /\ pay' = [pay EXCEPT ![w] = [pc |-> "publish", event |-> Outcome(e, pay[w].status)]]
    /\ UNCHANGED <<log, charges, payOffset>>

PayPublish(w) ==
    /\ pay[w].pc = "publish"
    /\ Publish("payment.events", pay[w].event)
    /\ \/ pay' = [pay EXCEPT ![w] = Idle] /\ UNCHANGED faults
       \/ Fault("duplicate") /\ UNCHANGED pay
    /\ UNCHANGED <<payments, charges, payOffset>>

(* A consumer that commits an offset only after the handler: the event of  *)
(* a handler that stopped is delivered again.                              *)
PayStopRedelivered(w) ==
    /\ pay[w] # Idle
    /\ Fault("stop")
    /\ pay' = [pay EXCEPT ![w] = Idle]
    /\ payOffset' = [payOffset EXCEPT ![PartitionOf[pay[w].event.orderId]] = @ - 1]
    /\ UNCHANGED <<log, payments, charges>>

(* The process dies, or Run logs an error of the handler: either way the   *)
(* offset is committed and the next turn reads the next event.             *)
PayStop(w) ==
    /\ pay[w] # Idle
    /\ Fault("stop")
    /\ pay' = [pay EXCEPT ![w] = Idle]
    /\ UNCHANGED <<log, payments, charges, payOffset>>

-----------------------------------------------------------------------------
PayWorkerStep(w) ==
    \/ \E p \in Partition : PayRead(w, p)
    \/ PayInsert(w)
    \/ PayCharge(w)
    \/ PayRecord(w)
    \/ PayPublish(w)

PaymentNext == \E w \in PayWorker : PayWorkerStep(w) \/ PayInsertError(w) \/ PayStop(w)
=============================================================================
