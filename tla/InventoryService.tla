--------------------------- MODULE InventoryService ---------------------------
(***************************************************************************)
(* inventory-service: stock_items and reservations in Postgres, and the    *)
(* consumer that reserves an order's stock on order.created and releases   *)
(* it on order.cancelled.                                                  *)
(*                                                                         *)
(* ReserveOrder and ReleaseOrder are each one Postgres transaction, and    *)
(* one step here, with the effect StockLedger gives it; InventoryTx has    *)
(* their statements and locks, and shows what this rests on.  Two that     *)
(* wait for each other's rows are a deadlock Postgres resolves by failing  *)
(* one of them, a "dberror" or "stop".                                     *)
(***************************************************************************)
EXTENDS EventBus, StockLedger

CONSTANT InvWorker      \* consumer goroutines of the group "inventory-service"

VARIABLES inv,          \* what each consumer is doing
          invOffset     \* the group's committed offset, by partition

inventoryVars == <<reserved, reservations, inv, invOffset>>

InventoryTask == {Idle} \cup [pc : {"reserve", "release", "publish"}, event : Event]

InventoryTypeOK ==
    /\ LedgerTypeOK
    /\ inv \in [InvWorker -> InventoryTask]
    /\ invOffset \in [Partition -> Nat]

InventoryInit ==
    /\ LedgerInit
    /\ inv = [w \in InvWorker |-> Idle]
    /\ invOffset = [p \in Partition |-> 0]

-----------------------------------------------------------------------------
(* Handle that forgets order.cancelled, and one that takes order.confirmed *)
(* for it.                                                                 *)
InvHandleNoCancel(e) == IF e.type = "order.created" THEN [pc |-> "reserve", event |-> e]
                                                    ELSE Idle
InvHandleConfirmed(e) == [pc |-> IF e.type = "order.created" THEN "reserve" ELSE "release",
                          event |-> e]

(* Handler.Handle: what the consumer does about an event. *)
InvHandle(e) == CASE e.type = "order.created"   -> [pc |-> "reserve", event |-> e]
                  [] e.type = "order.cancelled" -> [pc |-> "release", event |-> e]
                  [] OTHER                      -> Idle

(* One turn of Consumer.Run: the offset is committed before the handler. *)
InvRead(w, p) ==
    /\ inv[w] = Idle
    /\ HasNext(invOffset[p], "order.events", p)
    /\ invOffset' = [invOffset EXCEPT ![p] = @ + 1]
    /\ inv' = [inv EXCEPT ![w] = InvHandle(NextEvent(invOffset[p], "order.events", p))]
    /\ UNCHANGED <<busVars, reserved, reservations>>

(* An outcome that drops the order's total. *)
ReportNoTotal(w, type, e, total) ==
    inv' = [inv EXCEPT ![w] = [pc |-> "publish",
                               event |-> MakeEvent(type, e.orderId, <<>>, 0)]]

(* The consumer goes on to publish this outcome of e. *)
Report(w, type, e, total) ==
    inv' = [inv EXCEPT ![w] = [pc |-> "publish",
                               event |-> MakeEvent(type, e.orderId, <<>>, total)]]

(* reserve, when the transaction commits. *)
InvReserve(w) ==
    /\ inv[w].pc = "reserve"
    /\ LET e == inv[w].event IN
         /\ CanReserve(e.items)
         /\ ReserveOrder(e.orderId, e.items)
         /\ Report(w, "inventory.reserved", e, e.total)
    /\ UNCHANGED <<busVars, invOffset>>

(* reserve, when a product is unknown or short. *)
InvRefuse(w) ==
    /\ inv[w].pc = "reserve"
    /\ LET e == inv[w].event IN
         /\ ~ CanReserve(e.items)
         /\ Report(w, "inventory.failed", e, 0)
    /\ UNCHANGED <<busVars, reserved, reservations, invOffset>>

(* reserve, when the database fails: it is reported like a refusal.  A     *)
(* Commit that returns an error may have taken effect all the same.        *)
InvReserveError(w) ==
    /\ inv[w].pc = "reserve"
    /\ Fault("dberror")
    /\ LET e == inv[w].event IN
         /\ \/ UNCHANGED <<reserved, reservations>>
            \/ CanReserve(e.items) /\ ReserveOrder(e.orderId, e.items)
         /\ Report(w, "inventory.failed", e, 0)
    /\ UNCHANGED <<log, invOffset>>

(* release, when the transaction commits. *)
InvRelease(w) ==
    /\ inv[w].pc = "release"
    /\ ReleaseOrder(inv[w].event.orderId)
    /\ Report(w, "inventory.released", inv[w].event, 0)
    /\ UNCHANGED <<busVars, invOffset>>

(* release, when it does not: the error is returned and nothing published. *)
InvReleaseError(w) ==
    /\ inv[w].pc = "release"
    /\ Fault("dberror")
    /\ inv' = [inv EXCEPT ![w] = Idle]
    /\ UNCHANGED <<log, reserved, reservations, invOffset>>

InvPublish(w) ==
    /\ inv[w].pc = "publish"
    /\ Publish("inventory.events", inv[w].event)
    /\ \/ inv' = [inv EXCEPT ![w] = Idle] /\ UNCHANGED faults
       \/ Fault("duplicate") /\ UNCHANGED inv
    /\ UNCHANGED <<reserved, reservations, invOffset>>

(* The process dies, or the broker refuses the event. *)
InvStop(w) ==
    /\ inv[w] # Idle
    /\ Fault("stop")
    /\ inv' = [inv EXCEPT ![w] = Idle]
    /\ UNCHANGED <<log, reserved, reservations, invOffset>>

-----------------------------------------------------------------------------
InvWorkerStep(w) ==
    \/ \E p \in Partition : InvRead(w, p)
    \/ InvReserve(w)
    \/ InvRefuse(w)
    \/ InvRelease(w)
    \/ InvPublish(w)

InvFaultStep(w) == InvReserveError(w) \/ InvReleaseError(w) \/ InvStop(w)

InventoryNext == \E w \in InvWorker : InvWorkerStep(w) \/ InvFaultStep(w)
=============================================================================
