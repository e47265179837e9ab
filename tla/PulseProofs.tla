----------------------------- MODULE PulseProofs -----------------------------
(***************************************************************************)
(* That Pulse keeps its types and its word, for every set of orders,       *)
(* carts, products, replicas and partitions, every stock, and any number   *)
(* of faults.                                                              *)
(*                                                                         *)
(* Its word is Provenance, and with it the saga's causal order: confirmed  *)
(* only if paid, paid only the order's total, and paid only if reserved.   *)
(* No service ever takes back what an event vouches for, so an event that  *)
(* was true when it was written is true when it is read, however late,     *)
(* however often and by whichever replica.                                 *)
(***************************************************************************)
EXTENDS Pulse, OrderItemsProofs

-----------------------------------------------------------------------------
(* The broker and the events. *)

(* What MakeEvent builds from fields of the right kinds is an event. *)
LEMMA EventIsTyped ==
    ASSUME NEW type \in EventType, NEW o \in Order,
           NEW items \in ValidCart \cup {<<>>}, NEW total \in Nat
    PROVE  MakeEvent(type, o, items, total) \in Event
BY DEF MakeEvent, Event

(* Publishing an event keeps every partition a sequence of events. *)
LEMMA PublishIsTyped ==
    ASSUME BusTypeOK, NEW t \in Topic, NEW e \in Event, Publish(t, e)
    PROVE  log' \in [Topic -> [Partition -> Seq(Event)]]
<1>1. e.orderId \in Order
  BY DEF Event
<1>2. PartitionOf[e.orderId] \in Partition
  BY <1>1, PartitionAssumption
<1>3. log[t][PartitionOf[e.orderId]] \in Seq(Event)
  BY <1>2 DEF BusTypeOK
<1>4. Append(log[t][PartitionOf[e.orderId]], e) \in Seq(Event)
  BY <1>3, AppendProperties
<1> QED
  BY <1>2, <1>4 DEF BusTypeOK, Publish

(* What a group reads next is an event. *)
LEMMA NextEventIsTyped ==
    ASSUME BusTypeOK, NEW t \in Topic, NEW p \in Partition, NEW offset \in Nat,
           HasNext(offset, t, p)
    PROVE  NextEvent(offset, t, p) \in Event
<1>1. log[t][p] \in Seq(Event)
  BY DEF BusTypeOK
<1>2. offset + 1 \in 1..Len(log[t][p])
  BY <1>1, LenProperties DEF HasNext
<1> QED
  BY <1>1, <1>2, ElementOfSeq DEF NextEvent

(* One more fault stays within the bound. *)
LEMMA FaultIsTyped ==
    ASSUME BusTypeOK, NEW k, Fault(k)
    PROVE  faults' \in 0..MaxFaults
BY FaultAssumption DEF BusTypeOK, Fault

-----------------------------------------------------------------------------
(* Type correctness. *)

LEMMA TypeInit == Init => TypeOK
<1> SUFFICES ASSUME Init PROVE TypeOK
  OBVIOUS
<1> USE DEF Init
<1>1. BusTypeOK
  BY FaultAssumption DEF BusInit, BusTypeOK
<1>2. OrderTypeOK
  BY DEF OrderInit, OrderTypeOK, NoOrder, OrderTask
<1>3. InventoryTypeOK
  BY DEF InventoryInit, LedgerInit, InventoryTypeOK, LedgerTypeOK, NoUnits, InventoryTask
<1>4. PaymentTypeOK
  BY DEF PaymentInit, PaymentTypeOK, PaymentTask
<1> QED
  BY <1>1, <1>2, <1>3, <1>4 DEF TypeOK

(* Each step of order-service keeps the types of the broker and its own. *)
LEMMA OrderTypeStep ==
    ASSUME BusTypeOK, OrderTypeOK, OrderNext
    PROVE  BusTypeOK' /\ OrderTypeOK'
<1> USE DEF Handler
<1>1. ASSUME NEW r \in Request, NEW o \in Order, NEW items \in Cart,
             CreateOrder(r, o, items)
      PROVE  BusTypeOK' /\ OrderTypeOK'
  <2>1. items \in ValidCart
    BY <1>1 DEF CreateOrder, ValidCart
  <2>2. Total(items) \in Nat
    BY <2>1, TotalIsNat
  <2>3. NewOrder(items) \in [status : {"none", "pending", "confirmed", "cancelled"},
                             items : ValidCart \cup {<<>>}, total : Nat]
    BY <2>1, <2>2 DEF NewOrder
  <2>4. MakeEvent("order.created", o, items, Total(items)) \in Event
    BY <2>1, <2>2, EventIsTyped DEF EventType
  <2>5. [pc |-> "publish", event |-> MakeEvent("order.created", o, items, Total(items))]
          \in OrderTask
    BY <2>4 DEF OrderTask
  <2> QED
    BY <1>1, <2>3, <2>5 DEF CreateOrder, OrderTypeOK, BusTypeOK, busVars
<1>2. ASSUME NEW r \in Request, NEW o \in Order, CancelOrder(r, o)
      PROVE  BusTypeOK' /\ OrderTypeOK'
  <2>1. [pc |-> "cancel", orderId |-> o] \in OrderTask
    BY DEF OrderTask
  <2> QED
    BY <1>2, <2>1 DEF CancelOrder, OrderTypeOK, BusTypeOK, busVars
<1>3. ASSUME NEW w \in SagaWorker, NEW t \in SagaTopic, NEW p \in Partition,
             SagaRead(w, t, p)
      PROVE  BusTypeOK' /\ OrderTypeOK'
  <2>1. ordOffset[t][p] \in Nat /\ t \in Topic
    BY DEF OrderTypeOK, SagaTopic, Topic
  <2>2. NextEvent(ordOffset[t][p], t, p) \in Event
    BY <1>3, <2>1, NextEventIsTyped DEF SagaRead
  <2>3. Handle(NextEvent(ordOffset[t][p], t, p)) \in OrderTask
    BY <2>2 DEF Handle, OrderTask, Event
  <2>4. ordOffset' \in [SagaTopic -> [Partition -> Nat]]
    BY <1>3, <2>1 DEF SagaRead, OrderTypeOK
  <2> QED
    BY <1>3, <2>3, <2>4 DEF SagaRead, OrderTypeOK, BusTypeOK, busVars
<1>4. ASSUME NEW w \in SagaWorker, SagaConfirm(w)
      PROVE  BusTypeOK' /\ OrderTypeOK'
  <2> DEFINE o == task[w].orderId
  <2>1. o \in Order
    BY <1>4 DEF SagaConfirm, OrderTypeOK, OrderTask, Idle
  <2>2. MakeEvent("order.confirmed", o, <<>>, orders[o].total) \in Event
    BY <2>1, EventIsTyped DEF OrderTypeOK, EventType
  <2>3. [pc |-> "publish", event |-> MakeEvent("order.confirmed", o, <<>>, orders[o].total)]
          \in OrderTask
    BY <2>2 DEF OrderTask
  <2> QED
    BY <1>4, <2>1, <2>3 DEF SagaConfirm, OrderTypeOK, BusTypeOK, busVars
<1>5. ASSUME NEW h \in Handler, SagaCancel(h)
      PROVE  BusTypeOK' /\ OrderTypeOK'
  <2> DEFINE o == task[h].orderId
  <2>1. o \in Order
    BY <1>5 DEF SagaCancel, OrderTypeOK, OrderTask, Idle
  <2>2. MakeEvent("order.cancelled", o, <<>>, 0) \in Event
    BY <2>1, EventIsTyped DEF EventType
  <2>3. [pc |-> "publish", event |-> MakeEvent("order.cancelled", o, <<>>, 0)] \in OrderTask
    BY <2>2 DEF OrderTask
  <2> QED
    BY <1>5, <2>1, <2>3 DEF SagaCancel, OrderTypeOK, BusTypeOK, busVars
<1>6. ASSUME NEW h \in Handler, OrderPublish(h)
      PROVE  BusTypeOK' /\ OrderTypeOK'
  <2>1. task[h].event \in Event
    BY <1>6 DEF OrderPublish, OrderTypeOK, OrderTask, Idle
  <2>2. task[h].event.orderId \in Order
    BY <2>1 DEF Event
  <2>3. log' \in [Topic -> [Partition -> Seq(Event)]]
    BY <1>6, <2>1, PublishIsTyped DEF OrderPublish, Topic
  <2>4. faults' \in 0..MaxFaults
    BY <1>6, FaultIsTyped DEF OrderPublish, BusTypeOK
  <2>5. acknowledged' \in SUBSET Order
    BY <1>6, <2>2 DEF OrderPublish, OrderTypeOK
  <2>6. task' \in [Handler -> OrderTask]
    BY <1>6 DEF OrderPublish, OrderTypeOK, OrderTask
  <2> QED
    BY <1>6, <2>3, <2>4, <2>5, <2>6 DEF OrderPublish, OrderTypeOK, BusTypeOK
<1>7. ASSUME NEW h \in Handler, SagaError(h) \/ OrderStop(h)
      PROVE  BusTypeOK' /\ OrderTypeOK'
  <2>1. faults' \in 0..MaxFaults
    BY <1>7, FaultIsTyped DEF SagaError, OrderStop
  <2>2. task' \in [Handler -> OrderTask]
    BY <1>7 DEF SagaError, OrderStop, OrderTypeOK, OrderTask
  <2> QED
    BY <1>7, <2>1, <2>2 DEF SagaError, OrderStop, OrderTypeOK, BusTypeOK
<1> QED
  BY <1>1, <1>2, <1>3, <1>4, <1>5, <1>6, <1>7
  DEF OrderNext, SagaWorkerStep, RequestStep

(* Each step of inventory-service keeps the types of the broker and its own. *)
LEMMA InventoryTypeStep ==
    ASSUME BusTypeOK, InventoryTypeOK, NEW w \in InvWorker,
           InvWorkerStep(w) \/ InvFaultStep(w)
    PROVE  BusTypeOK' /\ InventoryTypeOK'
<1> DEFINE e == inv[w].event
<1>1. ASSUME NEW p \in Partition, InvRead(w, p)
      PROVE  BusTypeOK' /\ InventoryTypeOK'
  <2>1. invOffset[p] \in Nat
    BY DEF InventoryTypeOK, LedgerTypeOK
  <2>2. NextEvent(invOffset[p], "order.events", p) \in Event
    BY <1>1, <2>1, NextEventIsTyped DEF InvRead, Topic
  <2>3. InvHandle(NextEvent(invOffset[p], "order.events", p)) \in InventoryTask
    BY <2>2 DEF InvHandle, InventoryTask
  <2> QED
    BY <1>1, <2>1, <2>3 DEF InvRead, InventoryTypeOK, LedgerTypeOK, BusTypeOK, busVars
<1>2. ASSUME inv[w].pc # "idle"
      PROVE  e \in Event /\ e.orderId \in Order /\ e.items \in ValidCart \cup {<<>>}
                /\ e.total \in Nat
  <2>1. e \in Event
    BY <1>2 DEF InventoryTypeOK, LedgerTypeOK, InventoryTask, Idle
  <2> QED
    BY <2>1 DEF Event
<1>3. ASSUME inv[w].pc # "idle", NEW total \in Nat,
             NEW type \in {"inventory.reserved", "inventory.failed", "inventory.released"},
             Report(w, type, e, total)
      PROVE  inv' \in [InvWorker -> InventoryTask]
  <2>1. MakeEvent(type, e.orderId, <<>>, total) \in Event
    BY <1>2, <1>3, EventIsTyped DEF EventType
  <2>2. [pc |-> "publish", event |-> MakeEvent(type, e.orderId, <<>>, total)]
          \in InventoryTask
    BY <2>1 DEF InventoryTask
  <2> QED
    BY <1>3, <2>2 DEF Report, InventoryTypeOK, LedgerTypeOK
<1>4. ASSUME inv[w].pc = "reserve", ReserveOrder(e.orderId, e.items)
      PROVE  /\ reserved' \in [Product -> Int]
             /\ reservations' \in
                  [Order -> [active : [Product -> Nat], released : [Product -> Nat]]]
  <2>1. \A p \in Product : Demand(e.items, p) \in Nat
    BY <1>2, <1>4, DemandIsWanted
  <2>2. [p \in Product |-> reservations[e.orderId].active[p] + Demand(e.items, p)]
          \in [Product -> Nat]
    BY <1>2, <1>4, <2>1 DEF InventoryTypeOK, LedgerTypeOK
  <2>3. reserved' \in [Product -> Int]
    BY <1>4, <2>1 DEF ReserveOrder, InventoryTypeOK, LedgerTypeOK
  <2> QED
    BY <1>2, <1>4, <2>2, <2>3 DEF ReserveOrder, InventoryTypeOK, LedgerTypeOK
<1>5. ASSUME InvReserve(w) \/ InvReserveError(w) \/ InvRefuse(w)
      PROVE  BusTypeOK' /\ InventoryTypeOK'
  <2>1. inv[w].pc = "reserve"
    BY <1>5 DEF InvReserve, InvReserveError, InvRefuse
  <2>2. inv' \in [InvWorker -> InventoryTask]
    BY <1>2, <1>3, <1>5, <2>1 DEF InvReserve, InvReserveError, InvRefuse
  <2>3. /\ reserved' \in [Product -> Int]
        /\ reservations' \in
             [Order -> [active : [Product -> Nat], released : [Product -> Nat]]]
    BY <1>4, <1>5, <2>1 DEF InvReserve, InvReserveError, InvRefuse, InventoryTypeOK, LedgerTypeOK
  <2>4. log' = log /\ faults' \in 0..MaxFaults /\ invOffset' = invOffset
    BY <1>5, FaultIsTyped DEF InvReserve, InvReserveError, InvRefuse, busVars, BusTypeOK
  <2> QED
    BY <2>2, <2>3, <2>4 DEF InventoryTypeOK, LedgerTypeOK, BusTypeOK
<1>6. ASSUME InvRelease(w)
      PROVE  BusTypeOK' /\ InventoryTypeOK'
  <2> DEFINE o == e.orderId
             row == reservations[o]
  <2>1. inv[w].pc = "release" /\ o \in Order
    BY <1>2, <1>6 DEF InvRelease
  <2>2. row.active \in [Product -> Nat] /\ row.released \in [Product -> Nat]
    BY <2>1 DEF InventoryTypeOK, LedgerTypeOK
  <2>3. reservations' \in
          [Order -> [active : [Product -> Nat], released : [Product -> Nat]]]
    <3>1. NoUnits \in [Product -> Nat]
      BY DEF NoUnits
    <3>2. [p \in Product |-> row.released[p] + row.active[p]] \in [Product -> Nat]
      BY <2>2
    <3>3. reservations \in [Order -> [active : [Product -> Nat], released : [Product -> Nat]]]
      BY DEF InventoryTypeOK, LedgerTypeOK
    <3> QED
      BY <1>6, <2>1, <3>1, <3>2, <3>3 DEF InvRelease, ReleaseOrder
  <2>4. reserved' \in [Product -> Int]
    BY <1>6, <2>2 DEF InvRelease, ReleaseOrder, InventoryTypeOK, LedgerTypeOK
  <2>5. inv' \in [InvWorker -> InventoryTask]
    BY <1>3, <1>6, <2>1 DEF InvRelease
  <2> QED
    BY <1>6, <2>3, <2>4, <2>5 DEF InvRelease, InventoryTypeOK, LedgerTypeOK, BusTypeOK, busVars
<1>7. ASSUME InvPublish(w)
      PROVE  BusTypeOK' /\ InventoryTypeOK'
  <2>1. e \in Event
    BY <1>2, <1>7 DEF InvPublish
  <2>2. log' \in [Topic -> [Partition -> Seq(Event)]]
    BY <1>7, <2>1, PublishIsTyped DEF InvPublish, Topic
  <2>3. faults' \in 0..MaxFaults
    BY <1>7, FaultIsTyped DEF InvPublish, BusTypeOK
  <2>4. inv' \in [InvWorker -> InventoryTask]
    BY <1>7 DEF InvPublish, InventoryTypeOK, LedgerTypeOK, InventoryTask
  <2> QED
    BY <1>7, <2>2, <2>3, <2>4 DEF InvPublish, InventoryTypeOK, LedgerTypeOK, BusTypeOK
<1>8. ASSUME InvReleaseError(w) \/ InvStop(w)
      PROVE  BusTypeOK' /\ InventoryTypeOK'
  <2>1. faults' \in 0..MaxFaults
    BY <1>8, FaultIsTyped DEF InvReleaseError, InvStop
  <2>2. inv' \in [InvWorker -> InventoryTask]
    BY <1>8 DEF InvReleaseError, InvStop, InventoryTypeOK, LedgerTypeOK, InventoryTask
  <2> QED
    BY <1>8, <2>1, <2>2 DEF InvReleaseError, InvStop, InventoryTypeOK, LedgerTypeOK, BusTypeOK
<1> QED
  BY <1>1, <1>5, <1>6, <1>7, <1>8 DEF InvWorkerStep, InvFaultStep

(* Updating the status of one row leaves a sequence of rows. *)
LEMMA RowUpdateIsTyped ==
    ASSUME NEW rows \in Seq(PaymentRow), NEW i,
           NEW status \in {"pending", "completed", "failed"}
    PROVE  [rows EXCEPT ![i].status = status] \in Seq(PaymentRow)
<1> DEFINE updated == [rows EXCEPT ![i].status = status]
<1>1. /\ Len(rows) \in Nat
      /\ rows \in [1..Len(rows) -> PaymentRow]
  BY LenProperties
<1>2. \A r \in PaymentRow : [r EXCEPT !.status = status] \in PaymentRow
  BY DEF PaymentRow
<1>3. updated \in [1..Len(rows) -> PaymentRow]
  BY <1>1, <1>2
<1> QED
  BY <1>1, <1>3, SeqDef

(* Each step of payment-service keeps the types of the broker and its own. *)
LEMMA PaymentTypeStep ==
    ASSUME BusTypeOK, PaymentTypeOK, NEW w \in PayWorker,
           PayWorkerStep(w) \/ PayInsertError(w) \/ PayStop(w)
    PROVE  BusTypeOK' /\ PaymentTypeOK'
<1> DEFINE e == pay[w].event
<1>1. ASSUME NEW p \in Partition, PayRead(w, p)
      PROVE  BusTypeOK' /\ PaymentTypeOK'
  <2>1. payOffset[p] \in Nat
    BY DEF PaymentTypeOK
  <2>2. NextEvent(payOffset[p], "inventory.events", p) \in Event
    BY <1>1, <2>1, NextEventIsTyped DEF PayRead, Topic
  <2>3. PayHandle(NextEvent(payOffset[p], "inventory.events", p)) \in PaymentTask
    BY <2>2 DEF PayHandle, PaymentTask
  <2> QED
    BY <1>1, <2>1, <2>3 DEF PayRead, PaymentTypeOK, BusTypeOK, busVars
<1>2. ASSUME pay[w].pc # "idle"
      PROVE  e \in Event /\ e.orderId \in Order /\ e.total \in Nat
  <2>1. e \in Event
    BY <1>2 DEF PaymentTypeOK, PaymentTask, Idle
  <2> QED
    BY <2>1 DEF Event
<1>3. ASSUME PayInsert(w)
      PROVE  BusTypeOK' /\ PaymentTypeOK'
  <2>1. e \in Event /\ e.orderId \in Order /\ e.total \in Nat
    BY <1>2, <1>3 DEF PayInsert
  <2>2. payments[e.orderId] \in Seq(PaymentRow)
    BY <2>1 DEF PaymentTypeOK
  <2>3. [amount |-> e.total, status |-> "pending"] \in PaymentRow
    BY <2>1 DEF PaymentRow
  <2>4. Append(payments[e.orderId], [amount |-> e.total, status |-> "pending"])
          \in Seq(PaymentRow)
    BY <2>2, <2>3, AppendProperties
  <2>5. Len(payments[e.orderId]) + 1 \in Nat \ {0}
    BY <2>2, LenProperties
  <2>6. [pc |-> "charge", event |-> e, row |-> Len(payments[e.orderId]) + 1] \in PaymentTask
    BY <2>1, <2>5 DEF PaymentTask
  <2> QED
    BY <1>3, <2>4, <2>6 DEF PayInsert, PaymentTypeOK, BusTypeOK, busVars
<1>4. ASSUME PayCharge(w)
      PROVE  BusTypeOK' /\ PaymentTypeOK'
  <2>1. pay[w].pc = "charge"
    BY <1>4 DEF PayCharge
  <2>2. e \in Event /\ e.orderId \in Order /\ e.total \in Nat
    BY <1>2, <2>1
  <2>3. pay[w].row \in Nat \ {0}
    BY <2>1 DEF PaymentTypeOK, PaymentTask, Idle
  <2>4. Append(charges[e.orderId], e.total) \in Seq(Nat)
    <3>1. charges[e.orderId] \in Seq(Nat)
      BY <2>2 DEF PaymentTypeOK
    <3> QED
      BY <2>2, <3>1, AppendProperties
  <2>5. charges' \in [Order -> Seq(Nat)]
    BY <1>4, <2>2, <2>4 DEF PayCharge, PaymentTypeOK
  <2>6. \A s \in {"completed", "failed"} :
          [pc |-> "record", event |-> e, row |-> pay[w].row, status |-> s] \in PaymentTask
    BY <2>2, <2>3 DEF PaymentTask
  <2>7. pay' \in [PayWorker -> PaymentTask]
    BY <1>4, <2>6 DEF PayCharge, PaymentTypeOK
  <2> QED
    BY <1>4, <2>5, <2>7 DEF PayCharge, PaymentTypeOK, BusTypeOK, busVars
<1>5. ASSUME PayRecord(w)
      PROVE  BusTypeOK' /\ PaymentTypeOK'
  <2>1. pay[w].pc = "record"
    BY <1>5 DEF PayRecord
  <2>2. e \in Event /\ e.orderId \in Order /\ e.total \in Nat
    BY <1>2, <2>1
  <2>3. pay[w].status \in {"completed", "failed"}
    BY <2>1 DEF PaymentTypeOK, PaymentTask, Idle
  <2>4. payments' \in [Order -> Seq(PaymentRow)]
    <3>1. payments[e.orderId] \in Seq(PaymentRow)
      BY <2>2 DEF PaymentTypeOK
    <3>2. [payments[e.orderId] EXCEPT ![pay[w].row].status = pay[w].status] \in Seq(PaymentRow)
      BY <2>3, <3>1, RowUpdateIsTyped
    <3> QED
      BY <1>5, <2>2, <3>2 DEF PayRecord, PaymentTypeOK
  <2>5. Outcome(e, pay[w].status) \in Event
    BY <2>2, EventIsTyped DEF Outcome, EventType
  <2>6. [pc |-> "publish", event |-> Outcome(e, pay[w].status)] \in PaymentTask
    BY <2>5 DEF PaymentTask
  <2>7. log' = log /\ faults' \in 0..MaxFaults
    BY <1>5, FaultIsTyped DEF PayRecord, BusTypeOK
  <2> QED
    BY <1>5, <2>4, <2>6, <2>7 DEF PayRecord, PaymentTypeOK, BusTypeOK
<1>6. ASSUME PayPublish(w)
      PROVE  BusTypeOK' /\ PaymentTypeOK'
  <2>1. e \in Event
    BY <1>2, <1>6 DEF PayPublish
  <2>2. log' \in [Topic -> [Partition -> Seq(Event)]]
    BY <1>6, <2>1, PublishIsTyped DEF PayPublish, Topic
  <2>3. faults' \in 0..MaxFaults
    BY <1>6, FaultIsTyped DEF PayPublish, BusTypeOK
  <2>4. pay' \in [PayWorker -> PaymentTask]
    BY <1>6 DEF PayPublish, PaymentTypeOK, PaymentTask
  <2> QED
    BY <1>6, <2>2, <2>3, <2>4 DEF PayPublish, PaymentTypeOK, BusTypeOK
<1>7. ASSUME PayInsertError(w) \/ PayStop(w)
      PROVE  BusTypeOK' /\ PaymentTypeOK'
  <2>1. faults' \in 0..MaxFaults
    BY <1>7, FaultIsTyped DEF PayInsertError, PayStop
  <2>2. pay' \in [PayWorker -> PaymentTask]
    BY <1>7 DEF PayInsertError, PayStop, PaymentTypeOK, PaymentTask
  <2> QED
    BY <1>7, <2>1, <2>2 DEF PayInsertError, PayStop, PaymentTypeOK, BusTypeOK
<1> QED
  BY <1>1, <1>3, <1>4, <1>5, <1>6, <1>7 DEF PayWorkerStep

LEMMA TypeStep == TypeOK /\ [Next]_vars => TypeOK'
<1> SUFFICES ASSUME TypeOK, [Next]_vars PROVE TypeOK'
  OBVIOUS
<1>1. CASE OrderNext /\ UNCHANGED <<inventoryVars, paymentVars>>
  <2>1. BusTypeOK' /\ OrderTypeOK'
    BY <1>1, OrderTypeStep DEF TypeOK
  <2>2. InventoryTypeOK' /\ PaymentTypeOK'
    BY <1>1 DEF TypeOK, InventoryTypeOK, LedgerTypeOK, PaymentTypeOK, inventoryVars, paymentVars
  <2> QED
    BY <2>1, <2>2 DEF TypeOK
<1>2. CASE InventoryNext /\ UNCHANGED <<orderVars, paymentVars>>
  <2>1. BusTypeOK' /\ InventoryTypeOK'
    BY <1>2, InventoryTypeStep DEF TypeOK, InventoryNext
  <2>2. OrderTypeOK' /\ PaymentTypeOK'
    BY <1>2 DEF TypeOK, OrderTypeOK, PaymentTypeOK, orderVars, paymentVars
  <2> QED
    BY <2>1, <2>2 DEF TypeOK
<1>3. CASE PaymentNext /\ UNCHANGED <<orderVars, inventoryVars>>
  <2>1. BusTypeOK' /\ PaymentTypeOK'
    BY <1>3, PaymentTypeStep DEF TypeOK, PaymentNext
  <2>2. OrderTypeOK' /\ InventoryTypeOK'
    BY <1>3 DEF TypeOK, OrderTypeOK, InventoryTypeOK, LedgerTypeOK, orderVars, inventoryVars
  <2> QED
    BY <2>1, <2>2 DEF TypeOK
<1>4. CASE UNCHANGED vars
  BY <1>4 DEF TypeOK, BusTypeOK, OrderTypeOK, InventoryTypeOK, LedgerTypeOK, PaymentTypeOK,
              vars, busVars, orderVars, inventoryVars, paymentVars
<1> QED
  BY <1>1, <1>2, <1>3, <1>4 DEF Next, Waiting

(* Whatever the services do and whatever fails, tables, events, offsets     *)
(* and the state of every handler keep their types: in particular no event *)
(* carries items that Validate would refuse, and no reservation is of a     *)
(* negative quantity.                                                      *)
THEOREM TypeCorrect == Spec => []TypeOK
<1> QED
  BY TypeInit, TypeStep, PTL DEF Spec

-----------------------------------------------------------------------------
(* What was so stays so. *)

(* What the steps of the services only ever add to. *)
Taken(o, p) == reservations[o].active[p] + reservations[o].released[p]

Grows ==
    \A o \in Order :
        /\ orders[o].status # "none" =>
              /\ orders'[o].status # "none"
              /\ orders'[o].items = orders[o].items
              /\ orders'[o].total = orders[o].total
        /\ charges[o] # <<>> => charges'[o] # <<>>
        /\ \A p \in Product : Taken(o, p) <= Taken(o, p)'

(* What an order took once, it has taken. *)
LEMMA ReservedStays ==
    ASSUME TypeOK, TypeOK', Grows, NEW o \in Order,
           orders[o].status # "none", WasReserved(o)
    PROVE  WasReserved(o)'
<1>1. orders'[o].items = orders[o].items
  BY DEF Grows
<1>2. ASSUME NEW p \in Product
      PROVE  Demand(orders[o].items, p) <= Taken(o, p)'
  <2>1. Demand(orders[o].items, p) \in Nat
    BY DemandIsWanted DEF TypeOK, OrderTypeOK
  <2>2. Taken(o, p) \in Nat /\ Taken(o, p)' \in Nat
    BY DEF TypeOK, InventoryTypeOK, LedgerTypeOK, Taken
  <2>3. Taken(o, p) <= Taken(o, p)'
    BY DEF Grows
  <2>4. Demand(orders[o].items, p) <= Taken(o, p)
    BY DEF WasReserved, Taken
  <2> QED
    BY <2>1, <2>2, <2>3, <2>4
<1> QED
  BY <1>1, <1>2 DEF WasReserved, Taken

(* What an event vouches for stays so. *)
LEMMA VouchedStays ==
    ASSUME TypeOK, TypeOK', Grows, NEW e \in Event, Vouched(e)
    PROVE  Vouched(e)'
<1>1. e.orderId \in Order
  BY DEF Event
<1>2. orders[e.orderId].status # "none"
  BY DEF Vouched
<1>3. /\ orders'[e.orderId].status # "none"
      /\ orders'[e.orderId].items = orders[e.orderId].items
      /\ orders'[e.orderId].total = orders[e.orderId].total
  BY <1>1, <1>2 DEF Grows
<1>4. e.type = "inventory.reserved" => WasReserved(e.orderId)'
  BY <1>1, <1>2, ReservedStays DEF Vouched
<1>5. e.type = "payment.confirmed" => charges'[e.orderId] # <<>>
  BY <1>1 DEF Vouched, Grows
<1> QED
  BY <1>3, <1>4, <1>5 DEF Vouched

(* The topics stay vouched for: nothing was written, or one event that is. *)
LEMMA LogStaysVouched ==
    ASSUME TypeOK, TypeOK', Grows, LogVouched, log' = log
    PROVE  LogVouched'
<1> SUFFICES ASSUME NEW t \in Topic, NEW p \in Partition, NEW i \in DOMAIN log[t][p]
             PROVE  Vouched(log[t][p][i])'
  BY DEF LogVouched
<1>1. log[t][p][i] \in Event
  BY DEF TypeOK, BusTypeOK
<1>2. Vouched(log[t][p][i])
  BY DEF LogVouched
<1>3. \A e \in Event : Vouched(e) => Vouched(e)'
  BY VouchedStays
<1> QED
  BY <1>1, <1>2, <1>3 DEF Vouched, WasReserved

LEMMA PublishStaysVouched ==
    ASSUME TypeOK, TypeOK', Grows, LogVouched,
           NEW t \in Topic, NEW e \in Event, Publish(t, e), Vouched(e)
    PROVE  LogVouched'
<1> DEFINE q == PartitionOf[e.orderId]
<1>1. q \in Partition
  BY PartitionAssumption DEF Event
<1>2. log[t][q] \in Seq(Event)
  BY <1>1 DEF TypeOK, BusTypeOK
<1>3. log'[t][q] = Append(log[t][q], e)
  BY <1>1 DEF Publish, TypeOK, BusTypeOK
<1>4. \A u \in Topic, p \in Partition : <<u, p>> # <<t, q>> => log'[u][p] = log[u][p]
  BY <1>1 DEF Publish, TypeOK, BusTypeOK
<1>5. ASSUME NEW u \in Topic, NEW p \in Partition, NEW i \in DOMAIN log'[u][p]
      PROVE  log'[u][p][i] \in Event /\ Vouched(log'[u][p][i])
  <2> HIDE DEF q
  <2>1. CASE <<u, p>> = <<t, q>>
    <3>1. DOMAIN log'[u][p] = 1..(Len(log[t][q]) + 1)
      BY <1>2, <1>3, <2>1, AppendProperties, LenProperties
    <3>2. CASE i = Len(log[t][q]) + 1
      BY <1>2, <1>3, <2>1, <3>2, AppendProperties
    <3>3. CASE i \in 1..Len(log[t][q])
      <4>1. log'[u][p][i] = log[t][q][i]
        BY <1>2, <1>3, <2>1, <3>3, AppendProperties
      <4>2. log[t][q][i] \in Event
        BY <1>2, <3>3, ElementOfSeq
      <4>3. i \in DOMAIN log[t][q]
        BY <1>2, <3>3, LenProperties
      <4> QED
        BY <1>1, <4>1, <4>2, <4>3 DEF LogVouched
    <3>4. Len(log[t][q]) \in Nat
      BY <1>2, LenProperties
    <3> QED
      BY <3>1, <3>2, <3>3, <3>4
  <2>2. CASE <<u, p>> # <<t, q>>
    BY <1>4, <2>2 DEF LogVouched, TypeOK, BusTypeOK
  <2> QED
    BY <2>1, <2>2
<1>6. \A f \in Event : Vouched(f) => Vouched(f)'
  BY VouchedStays
<1>7. ASSUME NEW u \in Topic, NEW p \in Partition, NEW i \in DOMAIN log'[u][p]
      PROVE  Vouched(log[u][p][i])'
  <2>1. PICK f \in Event : f = log'[u][p][i]
    BY <1>5
  <2>2. Vouched(f)'
    BY <1>5, <1>6, <2>1
  <2> QED
    BY <2>1, <2>2 DEF Vouched, WasReserved
<1> QED
  BY <1>7 DEF LogVouched

-----------------------------------------------------------------------------
(* What a step of one service leaves as it was in the others. *)

(* The fields of a running handler of order-service. *)
LEMMA TaskFields ==
    ASSUME OrderTypeOK, NEW h \in Handler
    PROVE  /\ task[h].pc = "publish" => task[h].event \in Event
           /\ task[h].pc \in {"confirm", "cancel"} => task[h].orderId \in Order
<1>1. task[h] \in OrderTask
  BY DEF OrderTypeOK
<1> QED
  BY <1>1 DEF OrderTask, Idle

LEMMA TaskStays ==
    ASSUME TypeOK, TypeOK', Grows, NEW h \in Handler, TaskVouched(h), task'[h] = task[h]
    PROVE  TaskVouched(h)'
<1>1. ASSUME task[h].pc = "publish" PROVE Vouched(task[h].event)'
  <2>1. task[h].event \in Event
    BY <1>1, TaskFields DEF TypeOK
  <2>2. Vouched(task[h].event)
    BY <1>1 DEF TaskVouched
  <2>3. \A e \in Event : Vouched(e) => Vouched(e)'
    BY VouchedStays
  <2> QED
    BY <2>1, <2>2, <2>3 DEF Vouched, WasReserved
<1>2. ASSUME task[h].pc \in {"confirm", "cancel"} PROVE task[h].orderId \in Order
  BY <1>2, TaskFields DEF TypeOK
<1> QED
  BY <1>1, <1>2 DEF TaskVouched, Grows

LEMMA InvStays ==
    ASSUME TypeOK, TypeOK', Grows, NEW w \in InvWorker, InvVouched(w), inv'[w] = inv[w]
    PROVE  InvVouched(w)'
<1>1. ASSUME inv[w].pc # "idle" PROVE Vouched(inv[w].event)'
  <2>1. inv[w].event \in Event
    BY <1>1 DEF TypeOK, InventoryTypeOK, LedgerTypeOK, InventoryTask, Idle
  <2>2. Vouched(inv[w].event)
    BY <1>1 DEF InvVouched
  <2>3. \A e \in Event : Vouched(e) => Vouched(e)'
    BY VouchedStays
  <2> QED
    BY <2>1, <2>2, <2>3 DEF Vouched, WasReserved
<1> QED
  BY <1>1 DEF InvVouched

LEMMA PayStays ==
    ASSUME TypeOK, TypeOK', Grows, NEW w \in PayWorker, PayVouched(w), pay'[w] = pay[w]
    PROVE  PayVouched(w)'
<1>1. ASSUME pay[w].pc # "idle"
      PROVE  Vouched(pay[w].event)' /\ pay[w].event.orderId \in Order
  <2>1. pay[w].event \in Event
    BY <1>1 DEF TypeOK, PaymentTypeOK, PaymentTask, Idle
  <2>2. Vouched(pay[w].event)
    BY <1>1 DEF PayVouched
  <2>3. \A e \in Event : Vouched(e) => Vouched(e)'
    BY VouchedStays
  <2>4. pay[w].event.orderId \in Order
    BY <2>1 DEF Event
  <2> QED
    BY <2>1, <2>2, <2>3, <2>4 DEF Vouched, WasReserved
<1> QED
  BY <1>1 DEF PayVouched, Grows

(* What is known of the charges holds on as long as nothing is charged. *)
LEMMA ChargesStay ==
    ASSUME TypeOK, TypeOK', Grows, charges' = charges,
           ChargesVouched, ChargedAmountIsTotal, ChargedWasReserved
    PROVE  ChargesVouched' /\ ChargedAmountIsTotal' /\ ChargedWasReserved'
<1>1. ChargesVouched'
  BY DEF ChargesVouched, Grows
<1>2. ChargedAmountIsTotal'
  <2> SUFFICES ASSUME NEW o \in Order, NEW i \in DOMAIN charges[o]
               PROVE  charges[o][i] = orders'[o].total
    BY DEF ChargedAmountIsTotal
  <2>1. charges[o] # <<>>
    OBVIOUS
  <2> QED
    BY <2>1 DEF ChargedAmountIsTotal, ChargesVouched, Grows
<1>3. ChargedWasReserved'
  <2> SUFFICES ASSUME NEW o \in Order, charges[o] # <<>> PROVE WasReserved(o)'
    BY DEF ChargedWasReserved
  <2> QED
    BY ReservedStays DEF ChargedWasReserved, ChargesVouched
<1> QED
  BY <1>1, <1>2, <1>3

-----------------------------------------------------------------------------
(* Initially there is nothing to vouch for. *)
LEMMA ProvenanceInit == Init => Provenance
<1> SUFFICES ASSUME Init PROVE Provenance
  OBVIOUS
<1>1. LogVouched
  BY DEF Init, BusInit, LogVouched
<1>2. \A h \in Handler : TaskVouched(h)
  BY DEF Init, OrderInit, TaskVouched, Idle
<1>3. \A w \in InvWorker : InvVouched(w)
  BY DEF Init, InventoryInit, LedgerInit, InvVouched, Idle
<1>4. \A w \in PayWorker : PayVouched(w)
  BY DEF Init, PaymentInit, PayVouched, Idle
<1>5. ChargesVouched /\ ConfirmedWasPaid /\ ChargedAmountIsTotal /\ ChargedWasReserved
  BY DEF Init, OrderInit, PaymentInit, NoOrder, ChargesVouched, ConfirmedWasPaid,
         ChargedAmountIsTotal, ChargedWasReserved
<1> QED
  BY <1>1, <1>2, <1>3, <1>4, <1>5 DEF Provenance

-----------------------------------------------------------------------------
(* The steps of order-service.  Each step works on the task of one handler *)
(* h; the others' stay vouched for.                                        *)

(* What an order-service step has to show of Provenance. *)
OrderSide == LogVouched /\ (\A h \in Handler : TaskVouched(h)) /\ ConfirmedWasPaid

LEMMA OrderSideByTask ==
    ASSUME TypeOK, TypeOK', Grows, NEW h \in Handler,
           \A g \in Handler : TaskVouched(g),
           \A g \in Handler \ {h} : task'[g] = task[g],
           TaskVouched(h)', LogVouched', ConfirmedWasPaid'
    PROVE  OrderSide'
<1>1. \A g \in Handler : TaskVouched(g)'
  BY TaskStays
<1> QED
  BY <1>1 DEF OrderSide

LEMMA OrderProvenance ==
    ASSUME TypeOK, TypeOK', OrderNext, UNCHANGED <<inventoryVars, paymentVars>>, Provenance
    PROVE  Grows /\ OrderSide'
<1> USE DEF Handler, Provenance
<1>0. charges' = charges /\ reservations' = reservations
  BY DEF inventoryVars, paymentVars
<1>1. ASSUME NEW r \in Request, NEW o \in Order, NEW items \in Cart,
             CreateOrder(r, o, items)
      PROVE  Grows /\ OrderSide'
  <2>1. Grows
    BY <1>0, <1>1 DEF CreateOrder, Grows, TypeOK, OrderTypeOK, InventoryTypeOK, LedgerTypeOK, Taken
  <2>2. LogVouched'
    BY <1>1, <2>1, LogStaysVouched DEF CreateOrder, busVars
  <2>3. orders'[o] = NewOrder(items)
    BY <1>1 DEF CreateOrder, TypeOK, OrderTypeOK
  <2>4. task'[r] = [pc |-> "publish",
                    event |-> MakeEvent("order.created", o, items, Total(items))]
    BY <1>1 DEF CreateOrder, TypeOK, OrderTypeOK
  <2>5. TaskVouched(r)'
    BY <2>3, <2>4 DEF TaskVouched, Vouched, MakeEvent, NewOrder
  <2>6. ConfirmedWasPaid'
    BY <1>0, <1>1, <2>3 DEF CreateOrder, ConfirmedWasPaid, NewOrder, TypeOK, OrderTypeOK
  <2>7. \A g \in Handler \ {r} : task'[g] = task[g]
    BY <1>1 DEF CreateOrder, TypeOK, OrderTypeOK
  <2> QED
    BY <2>1, <2>2, <2>5, <2>6, <2>7, OrderSideByTask
<1>2. ASSUME NEW r \in Request, NEW o \in Order, CancelOrder(r, o)
      PROVE  Grows /\ OrderSide'
  <2>1. Grows
    BY <1>0, <1>2 DEF CancelOrder, Grows, TypeOK, InventoryTypeOK, LedgerTypeOK, Taken
  <2>2. LogVouched'
    BY <1>2, <2>1, LogStaysVouched DEF CancelOrder, busVars
  <2>3. task'[r] = [pc |-> "cancel", orderId |-> o]
    BY <1>2 DEF CancelOrder, TypeOK, OrderTypeOK
  <2>4. TaskVouched(r)'
    BY <1>2, <2>3 DEF CancelOrder, CanCancel, TaskVouched
  <2>5. ConfirmedWasPaid'
    BY <1>0, <1>2 DEF CancelOrder, ConfirmedWasPaid
  <2>6. \A g \in Handler \ {r} : task'[g] = task[g]
    BY <1>2 DEF CancelOrder, TypeOK, OrderTypeOK
  <2> QED
    BY <2>1, <2>2, <2>4, <2>5, <2>6, OrderSideByTask
<1>3. ASSUME NEW w \in SagaWorker, NEW t \in SagaTopic, NEW p \in Partition,
             SagaRead(w, t, p)
      PROVE  Grows /\ OrderSide'
  <2> DEFINE i == ordOffset[t][p] + 1
             e == log[t][p][i]
  <2>1. Grows
    BY <1>0, <1>3 DEF SagaRead, Grows, TypeOK, InventoryTypeOK, LedgerTypeOK, Taken
  <2>2. LogVouched'
    BY <1>3, <2>1, LogStaysVouched DEF SagaRead, busVars
  <2>3. Vouched(e) /\ e \in Event
    <3>1. t \in Topic /\ ordOffset[t][p] \in Nat
      BY DEF TypeOK, OrderTypeOK, SagaTopic, Topic
    <3>2. log[t][p] \in Seq(Event)
      BY <3>1 DEF TypeOK, BusTypeOK
    <3>3. i \in 1..Len(log[t][p])
      BY <1>3, <3>1, <3>2, LenProperties DEF SagaRead, HasNext
    <3>4. i \in DOMAIN log[t][p]
      BY <3>2, <3>3, LenProperties
    <3> QED
      BY <3>1, <3>2, <3>3, <3>4, ElementOfSeq DEF LogVouched
  <2>4. task'[w] = Handle(e)
    BY <1>3 DEF SagaRead, NextEvent, TypeOK, OrderTypeOK
  <2>5. orders' = orders
    BY <1>3 DEF SagaRead
  <2>6. TaskVouched(w)'
    <3>1. CASE e.type = "payment.confirmed"
      <4>1. task'[w] = [pc |-> "confirm", orderId |-> e.orderId]
        BY <2>4, <3>1 DEF Handle
      <4>2. orders[e.orderId].status # "none" /\ charges[e.orderId] # <<>>
        BY <2>3, <3>1 DEF Vouched
      <4> QED
        <5>1. /\ task'[w].pc = "confirm" /\ task'[w].orderId = e.orderId
              /\ orders' = orders /\ charges' = charges
          BY <1>0, <2>5, <4>1
        <5> QED
          BY <4>2, <5>1 DEF TaskVouched
    <3>2. CASE e.type \in {"inventory.failed", "payment.failed"}
      <4>1. task'[w] = [pc |-> "cancel", orderId |-> e.orderId]
        BY <2>4, <3>2 DEF Handle
      <4>2. orders[e.orderId].status # "none"
        BY <2>3 DEF Vouched
      <4> QED
        <5>1. task'[w].pc = "cancel" /\ task'[w].orderId = e.orderId /\ orders' = orders
          BY <2>5, <4>1
        <5> QED
          BY <4>2, <5>1 DEF TaskVouched
    <3>3. CASE e.type \notin {"payment.confirmed", "inventory.failed", "payment.failed"}
      <4>1. task'[w] = Idle
        BY <2>4, <3>3 DEF Handle
      <4> QED
        BY <4>1 DEF TaskVouched, Idle
    <3> QED
      BY <3>1, <3>2, <3>3
  <2>7. ConfirmedWasPaid'
    BY <1>0, <2>5 DEF ConfirmedWasPaid
  <2>8. \A g \in Handler \ {w} : task'[g] = task[g]
    BY <1>3 DEF SagaRead, TypeOK, OrderTypeOK
  <2> QED
    BY <2>1, <2>2, <2>6, <2>7, <2>8, OrderSideByTask
<1>4. ASSUME NEW h \in Handler, SagaConfirm(h) \/ SagaCancel(h)
      PROVE  Grows /\ OrderSide'
  <2> DEFINE o == task[h].orderId
  <2>1. /\ o \in Order
        /\ orders[o].status # "none"
        /\ task[h].pc = "confirm" => charges[o] # <<>>
    BY <1>4, TaskFields DEF SagaConfirm, SagaCancel, TaskVouched, TypeOK
  <2>2. /\ orders'[o].status # "none"
        /\ orders'[o].items = orders[o].items
        /\ orders'[o].total = orders[o].total
        /\ \A q \in Order \ {o} : orders'[q] = orders[q]
        /\ orders'[o].status = "confirmed" => task[h].pc = "confirm"
    BY <1>4, <2>1 DEF SagaConfirm, SagaCancel, TypeOK, OrderTypeOK
  <2>3. Grows
    <3>1. \A q \in Order, p \in Product : Taken(q, p) <= Taken(q, p)'
      BY <1>0 DEF TypeOK, InventoryTypeOK, LedgerTypeOK, Taken
    <3>2. ASSUME NEW q \in Order, orders[q].status # "none"
          PROVE  /\ orders'[q].status # "none"
                 /\ orders'[q].items = orders[q].items
                 /\ orders'[q].total = orders[q].total
      BY <2>2, <3>2
    <3> QED
      BY <1>0, <3>1, <3>2 DEF Grows
  <2>4. LogVouched'
    BY <1>4, <2>3, LogStaysVouched DEF SagaConfirm, SagaCancel, busVars
  <2>5. /\ task'[h].pc = "publish"
        /\ task'[h].event.orderId = o
        /\ task'[h].event.type \in {"order.confirmed", "order.cancelled"}
    BY <1>4 DEF SagaConfirm, SagaCancel, MakeEvent, TypeOK, OrderTypeOK
  <2>6. TaskVouched(h)'
    BY <2>2, <2>5 DEF TaskVouched, Vouched
  <2>7. ConfirmedWasPaid'
    BY <1>0, <2>1, <2>2 DEF ConfirmedWasPaid
  <2>8. \A g \in Handler \ {h} : task'[g] = task[g]
    BY <1>4 DEF SagaConfirm, SagaCancel, TypeOK, OrderTypeOK
  <2> QED
    BY <2>3, <2>4, <2>6, <2>7, <2>8, OrderSideByTask
<1>5. ASSUME NEW h \in Handler, OrderPublish(h)
      PROVE  Grows /\ OrderSide'
  <2>1. Grows
    BY <1>0, <1>5 DEF OrderPublish, Grows, TypeOK, InventoryTypeOK, LedgerTypeOK, Taken
  <2>2. task[h].event \in Event /\ Vouched(task[h].event)
    BY <1>5, TaskFields DEF OrderPublish, TaskVouched, TypeOK
  <2>3. LogVouched'
    BY <1>5, <2>1, <2>2, PublishStaysVouched DEF OrderPublish, Topic
  <2>4. ConfirmedWasPaid'
    BY <1>0, <1>5 DEF OrderPublish, ConfirmedWasPaid
  <2>5. /\ \A g \in Handler \ {h} : task'[g] = task[g]
        /\ task'[h] \in {Idle, task[h]}
    BY <1>5 DEF OrderPublish, TypeOK, OrderTypeOK
  <2>6. TaskVouched(h)'
    <3>1. CASE task'[h] = Idle
      BY <3>1 DEF TaskVouched, Idle
    <3>2. CASE task'[h] = task[h]
      BY <2>1, <3>2, TaskStays
    <3> QED
      BY <2>5, <3>1, <3>2
  <2> QED
    BY <2>1, <2>3, <2>4, <2>5, <2>6, OrderSideByTask
<1>6. ASSUME NEW h \in Handler, SagaError(h) \/ OrderStop(h)
      PROVE  Grows /\ OrderSide'
  <2>1. orders' = orders /\ log' = log
    BY <1>6 DEF SagaError, OrderStop
  <2>2. Grows
    BY <1>0, <2>1 DEF Grows, TypeOK, InventoryTypeOK, LedgerTypeOK, Taken
  <2>3. LogVouched'
    BY <2>1, <2>2, LogStaysVouched
  <2>4. task'[h] = Idle /\ \A g \in Handler \ {h} : task'[g] = task[g]
    BY <1>6 DEF SagaError, OrderStop, TypeOK, OrderTypeOK
  <2>5. TaskVouched(h)'
    BY <2>4 DEF TaskVouched, Idle
  <2>6. ConfirmedWasPaid'
    BY <1>0, <2>1 DEF ConfirmedWasPaid
  <2> QED
    BY <2>2, <2>3, <2>4, <2>5, <2>6, OrderSideByTask
<1> QED
  BY <1>1, <1>2, <1>3, <1>4, <1>5, <1>6
  DEF OrderNext, SagaWorkerStep, RequestStep

-----------------------------------------------------------------------------
(* The steps of inventory-service. *)

InventorySide == LogVouched /\ \A w \in InvWorker : InvVouched(w)

LEMMA InventorySideByTask ==
    ASSUME TypeOK, TypeOK', Grows, NEW w \in InvWorker,
           \A v \in InvWorker : InvVouched(v),
           \A v \in InvWorker \ {w} : inv'[v] = inv[v],
           InvVouched(w)', LogVouched'
    PROVE  InventorySide'
<1>1. \A v \in InvWorker : InvVouched(v)'
  BY InvStays
<1> QED
  BY <1>1 DEF InventorySide

LEMMA InventoryProvenance ==
    ASSUME TypeOK, TypeOK', Provenance, NEW w \in InvWorker,
           InvWorkerStep(w) \/ InvFaultStep(w),
           UNCHANGED <<orderVars, paymentVars>>
    PROVE  Grows /\ InventorySide'
<1> USE DEF Provenance
<1> DEFINE e == inv[w].event
           o == e.orderId
<1>0. orders' = orders /\ charges' = charges
  BY DEF orderVars, paymentVars
<1>1. ASSUME inv[w].pc # "idle"
      PROVE  e \in Event /\ o \in Order /\ Vouched(e)
  <2>1. e \in Event
    BY <1>1 DEF TypeOK, InventoryTypeOK, LedgerTypeOK, InventoryTask, Idle
  <2> QED
    BY <1>1, <2>1 DEF Event, InvVouched
<1>2. ASSUME reservations' = reservations
      PROVE  Grows
  BY <1>0, <1>2 DEF Grows, TypeOK, InventoryTypeOK, LedgerTypeOK, Taken
<1>3. ASSUME NEW p \in Partition, InvRead(w, p)
      PROVE  Grows /\ InventorySide'
  <2> DEFINE i == invOffset[p] + 1
             f == log["order.events"][p][i]
  <2>1. Grows
    BY <1>2, <1>3 DEF InvRead
  <2>2. LogVouched'
    BY <1>3, <2>1, LogStaysVouched DEF InvRead, busVars
  <2>3. Vouched(f) /\ f \in Event
    <3>1. invOffset[p] \in Nat /\ "order.events" \in Topic
      BY DEF TypeOK, InventoryTypeOK, LedgerTypeOK, Topic
    <3>2. log["order.events"][p] \in Seq(Event)
      BY <3>1 DEF TypeOK, BusTypeOK
    <3>3. i \in 1..Len(log["order.events"][p])
      BY <1>3, <3>1, <3>2, LenProperties DEF InvRead, HasNext
    <3>4. i \in DOMAIN log["order.events"][p]
      BY <3>2, <3>3, LenProperties
    <3> QED
      BY <3>1, <3>2, <3>3, <3>4, ElementOfSeq DEF LogVouched
  <2>4. inv'[w] = InvHandle(f)
    BY <1>3 DEF InvRead, NextEvent, TypeOK, InventoryTypeOK, LedgerTypeOK
  <2>5. InvVouched(w)'
    <3>1. \A g \in Event : Vouched(g) => Vouched(g)'
      BY <2>1, VouchedStays
    <3>2. CASE inv'[w] = Idle
      BY <3>2 DEF InvVouched, Idle
    <3>3. CASE inv'[w].event = f /\ (inv'[w].pc = "reserve" => f.type = "order.created")
      <4>1. Vouched(inv[w].event)'
        BY <2>3, <3>1, <3>3 DEF Vouched, WasReserved
      <4> QED
        BY <3>3, <4>1 DEF InvVouched
    <3> QED
      BY <2>4, <3>2, <3>3 DEF InvHandle
  <2>6. \A v \in InvWorker \ {w} : inv'[v] = inv[v]
    BY <1>3 DEF InvRead, TypeOK, InventoryTypeOK, LedgerTypeOK
  <2> QED
    BY <2>1, <2>2, <2>5, <2>6, InventorySideByTask
<1>4. ASSUME NEW type, NEW total, Report(w, type, e, total)
      PROVE  /\ inv'[w].pc = "publish"
             /\ inv'[w].event.type = type
             /\ inv'[w].event.orderId = o
             /\ inv'[w].event.total = total
             /\ \A v \in InvWorker \ {w} : inv'[v] = inv[v]
  BY <1>4 DEF Report, MakeEvent, TypeOK, InventoryTypeOK, LedgerTypeOK
<1>5. ASSUME inv[w].pc = "reserve", NEW c \in Order, c = o, ReserveOrder(o, e.items)
      PROVE  Grows /\ WasReserved(c)'
  <2>1. e.items = orders[c].items
    BY <1>1, <1>5 DEF Vouched, InvVouched
  <2>2. \A p \in Product : Demand(e.items, p) \in Nat
    BY <2>1, DemandIsWanted DEF TypeOK, OrderTypeOK
  <2>3. /\ \A q \in Order \ {c} : reservations'[q] = reservations[q]
        /\ reservations'[c].released = reservations[c].released
        /\ \A p \in Product : reservations'[c].active[p] =
                               reservations[c].active[p] + Demand(e.items, p)
    BY <1>5, <2>1 DEF ReserveOrder, TypeOK, InventoryTypeOK, LedgerTypeOK
  <2>4. \A q \in Order, p \in Product :
          reservations[q].active[p] \in Nat /\ reservations[q].released[p] \in Nat
    BY DEF TypeOK, InventoryTypeOK, LedgerTypeOK
  <2>5. ASSUME NEW q \in Order, NEW p \in Product
        PROVE  Taken(q, p) <= Taken(q, p)'
    <3>1. CASE q = c
      BY <2>2, <2>3, <2>4, <3>1 DEF Taken
    <3>2. CASE q # c
      BY <2>3, <2>4, <3>2 DEF Taken
    <3> QED
      BY <3>1, <3>2
  <2>6. Grows
    BY <1>0, <2>5 DEF Grows
  <2>7. WasReserved(c)'
    BY <1>0, <2>1, <2>2, <2>3, <2>4 DEF WasReserved
  <2> QED
    BY <2>6, <2>7
<1>6. ASSUME InvReserve(w)
      PROVE  Grows /\ InventorySide'
  <2>1. inv[w].pc = "reserve" /\ ReserveOrder(o, e.items) /\ log' = log
    BY <1>6 DEF InvReserve, busVars
  <2>2. Grows /\ \A c \in Order : c = o => WasReserved(c)'
    BY <1>1, <1>5, <2>1
  <2>3. LogVouched'
    BY <2>1, <2>2, LogStaysVouched
  <2>4. /\ inv'[w].pc = "publish"
        /\ inv'[w].event.type = "inventory.reserved"
        /\ inv'[w].event.orderId = o
        /\ inv'[w].event.total = e.total
        /\ \A v \in InvWorker \ {w} : inv'[v] = inv[v]
    BY <1>4, <1>6 DEF InvReserve
  <2>5. orders[o].status # "none" /\ e.total = orders[o].total
    BY <1>1, <2>1 DEF Vouched, InvVouched
  <2>6. InvVouched(w)'
    BY <1>0, <1>1, <2>1, <2>2, <2>4, <2>5 DEF InvVouched, Vouched, WasReserved
  <2> QED
    BY <2>2, <2>3, <2>4, <2>6, InventorySideByTask
<1>7. ASSUME InvRefuse(w) \/ InvReserveError(w)
      PROVE  Grows /\ InventorySide'
  <2>1. inv[w].pc = "reserve" /\ log' = log
    BY <1>7 DEF InvRefuse, InvReserveError, busVars
  <2>2. Grows
    BY <1>1, <1>2, <1>5, <1>7, <2>1 DEF InvRefuse, InvReserveError
  <2>3. LogVouched'
    BY <2>1, <2>2, LogStaysVouched
  <2>4. /\ inv'[w].pc = "publish"
        /\ inv'[w].event.type = "inventory.failed"
        /\ inv'[w].event.orderId = o
        /\ \A v \in InvWorker \ {w} : inv'[v] = inv[v]
    BY <1>4, <1>7 DEF InvRefuse, InvReserveError
  <2>5. orders[o].status # "none"
    BY <1>1, <2>1 DEF Vouched
  <2>6. InvVouched(w)'
    BY <1>0, <2>4, <2>5 DEF InvVouched, Vouched
  <2> QED
    BY <2>2, <2>3, <2>4, <2>6, InventorySideByTask
<1>8. ASSUME InvRelease(w)
      PROVE  Grows /\ InventorySide'
  <2>1. inv[w].pc = "release" /\ o \in Order /\ orders[o].status # "none" /\ log' = log
    BY <1>1, <1>8 DEF InvRelease, Vouched, busVars
  <2>2. /\ \A q \in Order \ {o} : reservations'[q] = reservations[q]
        /\ \A p \in Product : /\ reservations'[o].active[p] = 0
                               /\ reservations'[o].released[p] =
                                    reservations[o].released[p] + reservations[o].active[p]
    BY <1>8, <2>1 DEF InvRelease, ReleaseOrder, NoUnits, TypeOK, InventoryTypeOK, LedgerTypeOK
  <2>3. \A q \in Order, p \in Product :
          reservations[q].active[p] \in Nat /\ reservations[q].released[p] \in Nat
    BY DEF TypeOK, InventoryTypeOK, LedgerTypeOK
  <2>4. ASSUME NEW q \in Order, NEW p \in Product
        PROVE  Taken(q, p) <= Taken(q, p)'
    <3>1. CASE q = o
      BY <2>2, <2>3, <3>1 DEF Taken
    <3>2. CASE q # o
      BY <2>2, <2>3, <3>2 DEF Taken
    <3> QED
      BY <3>1, <3>2
  <2>5. Grows
    BY <1>0, <2>4 DEF Grows
  <2>6. LogVouched'
    BY <2>1, <2>5, LogStaysVouched
  <2>7. /\ inv'[w].pc = "publish"
        /\ inv'[w].event.type = "inventory.released"
        /\ inv'[w].event.orderId = o
        /\ \A v \in InvWorker \ {w} : inv'[v] = inv[v]
    BY <1>4, <1>8 DEF InvRelease
  <2>8. InvVouched(w)'
    BY <1>0, <2>1, <2>7 DEF InvVouched, Vouched
  <2> QED
    BY <2>5, <2>6, <2>7, <2>8, InventorySideByTask
<1>9. ASSUME InvPublish(w)
      PROVE  Grows /\ InventorySide'
  <2>1. Grows
    BY <1>2, <1>9 DEF InvPublish
  <2>2. e \in Event /\ Vouched(e)
    BY <1>1, <1>9 DEF InvPublish
  <2>3. LogVouched'
    BY <1>9, <2>1, <2>2, PublishStaysVouched DEF InvPublish, Topic
  <2>4. inv'[w] \in {Idle, inv[w]} /\ \A v \in InvWorker \ {w} : inv'[v] = inv[v]
    BY <1>9 DEF InvPublish, TypeOK, InventoryTypeOK, LedgerTypeOK
  <2>5. InvVouched(w)'
    <3>1. CASE inv'[w] = Idle
      BY <3>1 DEF InvVouched, Idle
    <3>2. CASE inv'[w] = inv[w]
      BY <2>1, <3>2, InvStays
    <3> QED
      BY <2>4, <3>1, <3>2
  <2> QED
    BY <2>1, <2>3, <2>4, <2>5, InventorySideByTask
<1>10. ASSUME InvReleaseError(w) \/ InvStop(w)
       PROVE  Grows /\ InventorySide'
  <2>1. Grows
    BY <1>2, <1>10 DEF InvReleaseError, InvStop
  <2>2. LogVouched'
    BY <1>10, <2>1, LogStaysVouched DEF InvReleaseError, InvStop
  <2>3. inv'[w] = Idle /\ \A v \in InvWorker \ {w} : inv'[v] = inv[v]
    BY <1>10 DEF InvReleaseError, InvStop, TypeOK, InventoryTypeOK, LedgerTypeOK
  <2>4. InvVouched(w)'
    BY <2>3 DEF InvVouched, Idle
  <2> QED
    BY <2>1, <2>2, <2>3, <2>4, InventorySideByTask
<1> QED
  BY <1>3, <1>6, <1>7, <1>8, <1>9, <1>10 DEF InvWorkerStep, InvFaultStep

-----------------------------------------------------------------------------
(* The steps of payment-service. *)

ChargeFacts == ChargesVouched /\ ChargedAmountIsTotal /\ ChargedWasReserved

PaymentSide == LogVouched /\ (\A w \in PayWorker : PayVouched(w)) /\ ChargeFacts

LEMMA PaymentSideByTask ==
    ASSUME TypeOK, TypeOK', Grows, NEW w \in PayWorker,
           \A v \in PayWorker : PayVouched(v),
           \A v \in PayWorker \ {w} : pay'[v] = pay[v],
           PayVouched(w)', LogVouched', ChargeFacts'
    PROVE  PaymentSide'
<1>1. \A v \in PayWorker : PayVouched(v)'
  BY PayStays
<1> QED
  BY <1>1 DEF PaymentSide

(* Appending to a list of amounts adds one at its end. *)
LEMMA OneMore ==
  ASSUME NEW s \in Seq(Nat), NEW x \in Nat
  PROVE  /\ Append(s, x) # <<>>
         /\ DOMAIN Append(s, x) = DOMAIN s \cup {Len(s) + 1}
         /\ \A i \in DOMAIN s : Append(s, x)[i] = s[i]
         /\ Append(s, x)[Len(s) + 1] = x
<1>1. /\ Append(s, x) \in Seq(Nat)
      /\ Len(Append(s, x)) = Len(s) + 1
      /\ \A i \in 1..Len(s) : Append(s, x)[i] = s[i]
      /\ Append(s, x)[Len(s) + 1] = x
  BY AppendProperties
<1>2. /\ Len(s) \in Nat /\ DOMAIN s = 1..Len(s)
      /\ DOMAIN Append(s, x) = 1..Len(Append(s, x))
  BY <1>1, LenProperties
<1>3. Len(<<>>) = 0 /\ Len(Append(s, x)) # 0
  BY <1>1, <1>2
<1> QED
  BY <1>1, <1>2, <1>3

LEMMA PaymentProvenance ==
    ASSUME TypeOK, TypeOK', Provenance, NEW w \in PayWorker,
           PayWorkerStep(w) \/ PayInsertError(w) \/ PayStop(w),
           UNCHANGED <<orderVars, inventoryVars>>
    PROVE  Grows /\ PaymentSide'
<1> USE DEF Provenance
<1> DEFINE e == pay[w].event
           o == e.orderId
<1>0. orders' = orders /\ reservations' = reservations
  BY DEF orderVars, inventoryVars
<1>1. ASSUME pay[w].pc # "idle"
      PROVE  e \in Event /\ o \in Order /\ Vouched(e)
  <2>1. e \in Event
    BY <1>1 DEF TypeOK, PaymentTypeOK, PaymentTask, Idle
  <2> QED
    BY <1>1, <2>1 DEF Event, PayVouched
<1>2. ASSUME charges' = charges
      PROVE  Grows /\ ChargeFacts'
  <2>1. Grows
    BY <1>0, <1>2 DEF Grows, TypeOK, InventoryTypeOK, LedgerTypeOK, Taken
  <2> QED
    BY <1>2, <2>1, ChargesStay DEF ChargeFacts
<1>3. ASSUME NEW p \in Partition, PayRead(w, p)
      PROVE  Grows /\ PaymentSide'
  <2> DEFINE i == payOffset[p] + 1
             f == log["inventory.events"][p][i]
  <2>1. Grows /\ ChargeFacts'
    BY <1>2, <1>3 DEF PayRead
  <2>2. LogVouched'
    BY <1>3, <2>1, LogStaysVouched DEF PayRead, busVars
  <2>3. Vouched(f) /\ f \in Event
    <3>1. payOffset[p] \in Nat /\ "inventory.events" \in Topic
      BY DEF TypeOK, PaymentTypeOK, Topic
    <3>2. log["inventory.events"][p] \in Seq(Event)
      BY <3>1 DEF TypeOK, BusTypeOK
    <3>3. i \in 1..Len(log["inventory.events"][p])
      BY <1>3, <3>1, <3>2, LenProperties DEF PayRead, HasNext
    <3>4. i \in DOMAIN log["inventory.events"][p]
      BY <3>2, <3>3, LenProperties
    <3> QED
      BY <3>1, <3>2, <3>3, <3>4, ElementOfSeq DEF LogVouched
  <2>4. pay'[w] = PayHandle(f)
    BY <1>3 DEF PayRead, NextEvent, TypeOK, PaymentTypeOK
  <2>5. PayVouched(w)'
    <3>1. \A g \in Event : Vouched(g) => Vouched(g)'
      BY <2>1, VouchedStays
    <3>2. CASE pay'[w] = Idle
      BY <3>2 DEF PayVouched, Idle
    <3>3. CASE pay'[w].event = f /\ pay'[w].pc = "insert" /\ f.type = "inventory.reserved"
      <4>1. Vouched(pay[w].event)'
        BY <2>3, <3>1, <3>3 DEF Vouched, WasReserved
      <4> QED
        BY <3>3, <4>1 DEF PayVouched
    <3> QED
      BY <2>4, <3>2, <3>3 DEF PayHandle
  <2>6. \A v \in PayWorker \ {w} : pay'[v] = pay[v]
    BY <1>3 DEF PayRead, TypeOK, PaymentTypeOK
  <2> QED
    BY <2>1, <2>2, <2>5, <2>6, PaymentSideByTask
<1>4. ASSUME PayInsert(w)
      PROVE  Grows /\ PaymentSide'
  <2>1. pay[w].pc = "insert" /\ log' = log /\ charges' = charges
    BY <1>4 DEF PayInsert, busVars
  <2>2. Grows /\ ChargeFacts'
    BY <1>2, <2>1
  <2>3. LogVouched'
    BY <2>1, <2>2, LogStaysVouched
  <2>4. /\ pay'[w].pc = "charge" /\ pay'[w].event = e
        /\ \A v \in PayWorker \ {w} : pay'[v] = pay[v]
    BY <1>4 DEF PayInsert, TypeOK, PaymentTypeOK
  <2>5. Vouched(e) /\ e.type = "inventory.reserved"
    BY <1>1, <2>1 DEF PayVouched
  <2>6. PayVouched(w)'
    BY <1>0, <2>1, <2>4, <2>5 DEF PayVouched, Vouched, WasReserved
  <2> QED
    BY <2>2, <2>3, <2>4, <2>6, PaymentSideByTask
<1>5. ASSUME PayCharge(w)
      PROVE  Grows /\ PaymentSide'
  <2>1. pay[w].pc = "charge" /\ log' = log
    BY <1>5 DEF PayCharge, busVars
  <2>2. /\ e \in Event /\ o \in Order /\ Vouched(e) /\ e.type = "inventory.reserved"
        /\ orders[o].status # "none" /\ e.total = orders[o].total /\ WasReserved(o)
    BY <1>1, <2>1 DEF PayVouched, Vouched
  <2>3. /\ \A q \in Order \ {o} : charges'[q] = charges[q]
        /\ charges'[o] = charges[o] \/ charges'[o] = Append(charges[o], e.total)
        /\ e.total <= DeclineOver => charges'[o] = Append(charges[o], e.total)
    BY <1>5, <2>2 DEF PayCharge, TypeOK, PaymentTypeOK
  <2>4. charges[o] \in Seq(Nat) /\ e.total \in Nat
    BY <2>2 DEF TypeOK, PaymentTypeOK, Event
  <2>5. /\ Append(charges[o], e.total) # <<>>
        /\ DOMAIN Append(charges[o], e.total) = DOMAIN charges[o] \cup {Len(charges[o]) + 1}
        /\ \A i \in DOMAIN charges[o] : Append(charges[o], e.total)[i] = charges[o][i]
        /\ Append(charges[o], e.total)[Len(charges[o]) + 1] = e.total
    BY <2>4, OneMore
  <2>6. Grows
    <3>1. \A q \in Order : charges[q] # <<>> => charges'[q] # <<>>
      BY <2>3, <2>5
    <3> QED
      BY <1>0, <3>1 DEF Grows, TypeOK, InventoryTypeOK, LedgerTypeOK, Taken
  <2>7. LogVouched'
    BY <2>1, <2>6, LogStaysVouched
  <2>8. ChargesVouched'
    BY <1>0, <2>2, <2>3 DEF ChargesVouched
  <2>9. ChargedAmountIsTotal'
    <3> SUFFICES ASSUME NEW q \in Order, NEW i \in DOMAIN charges'[q]
                 PROVE  charges'[q][i] = orders'[q].total
      BY DEF ChargedAmountIsTotal
    <3>0. orders'[q] = orders[q]
      BY <1>0
    <3>1. CASE charges'[q] = charges[q]
      <4>1. i \in DOMAIN charges[q] /\ charges'[q][i] = charges[q][i]
        BY <3>1
      <4> QED
        BY <1>0, <3>0, <4>1 DEF ChargedAmountIsTotal
    <3>2. CASE q = o /\ charges'[q] = Append(charges[q], e.total)
      <4>1. CASE i \in DOMAIN charges[q]
        <5>1. charges'[q][i] = charges[q][i]
          BY <2>5, <3>2, <4>1
        <5> QED
          BY <1>0, <3>0, <4>1, <5>1 DEF ChargedAmountIsTotal
      <4>2. CASE i = Len(charges[q]) + 1
        BY <2>2, <2>5, <3>0, <3>2, <4>2
      <4> QED
        BY <2>5, <3>2, <4>1, <4>2
    <3>3. charges'[q] = charges[q] \/ (q = o /\ charges'[q] = Append(charges[q], e.total))
      BY <2>3
    <3> QED
      BY <3>1, <3>2, <3>3
  <2>10. ChargedWasReserved'
    BY <1>0, <2>2, <2>3 DEF ChargedWasReserved, WasReserved
  <2>11. /\ pay'[w].pc = "record" /\ pay'[w].event = e
         /\ pay'[w].status = "completed" => e.total <= DeclineOver
         /\ \A v \in PayWorker \ {w} : pay'[v] = pay[v]
    BY <1>5 DEF PayCharge, TypeOK, PaymentTypeOK
  <2>12. PayVouched(w)'
    BY <1>0, <2>2, <2>3, <2>5, <2>11 DEF PayVouched, Vouched, WasReserved
  <2> QED
    BY <2>6, <2>7, <2>8, <2>9, <2>10, <2>11, <2>12, PaymentSideByTask DEF ChargeFacts
<1>6. ASSUME PayRecord(w)
      PROVE  Grows /\ PaymentSide'
  <2>1. pay[w].pc = "record" /\ log' = log /\ charges' = charges
    BY <1>6 DEF PayRecord
  <2>2. Grows /\ ChargeFacts'
    BY <1>2, <2>1
  <2>3. LogVouched'
    BY <2>1, <2>2, LogStaysVouched
  <2>4. /\ pay'[w].pc = "publish" /\ pay'[w].event = Outcome(e, pay[w].status)
        /\ \A v \in PayWorker \ {w} : pay'[v] = pay[v]
    BY <1>6 DEF PayRecord, TypeOK, PaymentTypeOK
  <2>5. orders[o].status # "none" /\ (pay[w].status = "completed" => charges[o] # <<>>)
    BY <1>1, <2>1 DEF PayVouched, Vouched
  <2>6. /\ pay'[w].event.orderId = o
        /\ pay'[w].event.type \in {"payment.confirmed", "payment.failed"}
        /\ pay'[w].event.type = "payment.confirmed" => pay[w].status = "completed"
    BY <2>4 DEF Outcome, MakeEvent
  <2>7. PayVouched(w)'
    BY <1>0, <2>1, <2>4, <2>5, <2>6 DEF PayVouched, Vouched
  <2> QED
    BY <2>2, <2>3, <2>4, <2>7, PaymentSideByTask
<1>7. ASSUME PayPublish(w)
      PROVE  Grows /\ PaymentSide'
  <2>1. Grows /\ ChargeFacts'
    BY <1>2, <1>7 DEF PayPublish
  <2>2. e \in Event /\ Vouched(e)
    BY <1>1, <1>7 DEF PayPublish
  <2>3. LogVouched'
    BY <1>7, <2>1, <2>2, PublishStaysVouched DEF PayPublish, Topic
  <2>4. pay'[w] \in {Idle, pay[w]} /\ \A v \in PayWorker \ {w} : pay'[v] = pay[v]
    BY <1>7 DEF PayPublish, TypeOK, PaymentTypeOK
  <2>5. PayVouched(w)'
    <3>1. CASE pay'[w] = Idle
      BY <3>1 DEF PayVouched, Idle
    <3>2. CASE pay'[w] = pay[w]
      BY <2>1, <3>2, PayStays
    <3> QED
      BY <2>4, <3>1, <3>2
  <2> QED
    BY <2>1, <2>3, <2>4, <2>5, PaymentSideByTask
<1>8. ASSUME PayInsertError(w) \/ PayStop(w)
      PROVE  Grows /\ PaymentSide'
  <2>1. Grows /\ ChargeFacts'
    BY <1>2, <1>8 DEF PayInsertError, PayStop
  <2>2. LogVouched'
    BY <1>8, <2>1, LogStaysVouched DEF PayInsertError, PayStop
  <2>3. pay'[w] = Idle /\ \A v \in PayWorker \ {w} : pay'[v] = pay[v]
    BY <1>8 DEF PayInsertError, PayStop, TypeOK, PaymentTypeOK
  <2>4. PayVouched(w)'
    BY <2>3 DEF PayVouched, Idle
  <2> QED
    BY <2>1, <2>2, <2>3, <2>4, PaymentSideByTask
<1> QED
  BY <1>3, <1>4, <1>5, <1>6, <1>7, <1>8 DEF PayWorkerStep

-----------------------------------------------------------------------------
(* Nor does a step that touches none of what it is about disturb it. *)
LEMMA ProvenanceKept ==
    ASSUME TypeOK, TypeOK', Provenance,
           UNCHANGED <<log, task, inv, pay, orders, charges, reservations>>
    PROVE  Provenance'
<1>1. Grows
  BY DEF Grows, TypeOK, InventoryTypeOK, LedgerTypeOK, Taken
<1>2. LogVouched'
  BY <1>1, LogStaysVouched DEF Provenance
<1>3. /\ \A h \in Handler : TaskVouched(h)'
      /\ \A w \in InvWorker : InvVouched(w)'
      /\ \A w \in PayWorker : PayVouched(w)'
  BY <1>1, TaskStays, InvStays, PayStays DEF Provenance
<1>4. ChargesVouched' /\ ChargedAmountIsTotal' /\ ChargedWasReserved'
  BY <1>1, ChargesStay DEF Provenance
<1>5. ConfirmedWasPaid'
  BY DEF Provenance, ConfirmedWasPaid
<1> QED
  BY <1>2, <1>3, <1>4, <1>5 DEF Provenance

(* Every step only adds. *)
LEMMA StepsGrow ==
    ASSUME TypeOK, TypeOK', Provenance, [Next]_vars
    PROVE  Grows
<1>1. CASE UNCHANGED vars
  BY <1>1 DEF Grows, TypeOK, InventoryTypeOK, LedgerTypeOK, Taken,
              vars, orderVars, inventoryVars, paymentVars
<1> QED
  BY <1>1, OrderProvenance, InventoryProvenance, PaymentProvenance
  DEF Next, Waiting, InventoryNext, PaymentNext

(* Provenance is inductive relative to the types. *)
LEMMA ProvenanceStep == TypeOK /\ TypeOK' /\ Provenance /\ [Next]_vars => Provenance'
<1> SUFFICES ASSUME TypeOK, TypeOK', Provenance, [Next]_vars PROVE Provenance'
  OBVIOUS
<1>1. CASE OrderNext /\ UNCHANGED <<inventoryVars, paymentVars>>
  <2>1. Grows /\ OrderSide'
    BY <1>1, OrderProvenance
  <2>2. inv' = inv /\ pay' = pay /\ charges' = charges
    BY <1>1 DEF inventoryVars, paymentVars
  <2>3. \A w \in InvWorker : InvVouched(w)'
    BY <2>1, <2>2, InvStays DEF Provenance
  <2>4. \A w \in PayWorker : PayVouched(w)'
    BY <2>1, <2>2, PayStays DEF Provenance
  <2>5. ChargesVouched' /\ ChargedAmountIsTotal' /\ ChargedWasReserved'
    BY <2>1, <2>2, ChargesStay DEF Provenance
  <2> QED
    BY <2>1, <2>3, <2>4, <2>5 DEF Provenance, OrderSide
<1>2. CASE InventoryNext /\ UNCHANGED <<orderVars, paymentVars>>
  <2>1. Grows /\ InventorySide'
    BY <1>2, InventoryProvenance DEF InventoryNext
  <2>2. task' = task /\ pay' = pay /\ charges' = charges /\ orders' = orders
    BY <1>2 DEF orderVars, paymentVars
  <2>3. \A h \in Handler : TaskVouched(h)'
    BY <2>1, <2>2, TaskStays DEF Provenance
  <2>4. \A w \in PayWorker : PayVouched(w)'
    BY <2>1, <2>2, PayStays DEF Provenance
  <2>5. ChargesVouched' /\ ChargedAmountIsTotal' /\ ChargedWasReserved'
    BY <2>1, <2>2, ChargesStay DEF Provenance
  <2>6. ConfirmedWasPaid'
    BY <2>2 DEF Provenance, ConfirmedWasPaid
  <2> QED
    BY <2>1, <2>3, <2>4, <2>5, <2>6 DEF Provenance, InventorySide
<1>3. CASE PaymentNext /\ UNCHANGED <<orderVars, inventoryVars>>
  <2>1. Grows /\ PaymentSide'
    BY <1>3, PaymentProvenance DEF PaymentNext
  <2>2. task' = task /\ inv' = inv /\ orders' = orders
    BY <1>3 DEF orderVars, inventoryVars
  <2>3. \A h \in Handler : TaskVouched(h)'
    BY <2>1, <2>2, TaskStays DEF Provenance
  <2>4. \A w \in InvWorker : InvVouched(w)'
    BY <2>1, <2>2, InvStays DEF Provenance
  <2>5. ConfirmedWasPaid'
    BY <2>1, <2>2 DEF Provenance, ConfirmedWasPaid, Grows
  <2> QED
    BY <2>1, <2>3, <2>4, <2>5 DEF Provenance, PaymentSide, ChargeFacts
<1>4. CASE UNCHANGED vars
  BY <1>4, ProvenanceKept DEF vars, busVars, orderVars, inventoryVars, paymentVars
<1> QED
  BY <1>1, <1>2, <1>3, <1>4 DEF Next, Waiting

(* What an event asserts is so in the databases when it is published, read *)
(* and acted on, under any interleaving of the replicas, any loss and any  *)
(* duplication.                                                            *)
THEOREM ProvenanceHolds == Spec => []Provenance
<1> QED
  BY ProvenanceInit, ProvenanceStep, TypeCorrect, PTL DEF Spec

(* An order is confirmed only after its customer has been charged          *)
(* (saga.go:11).                                                           *)
THEOREM ConfirmedOnlyIfPaid == Spec => []ConfirmedWasPaid
<1>1. Provenance => ConfirmedWasPaid
  BY DEF Provenance
<1> QED
  BY <1>1, ProvenanceHolds, PTL

(* Every charge is of the order's total, although payment-service never    *)
(* sees the order (inventory-service handler.go:47-55).                    *)
THEOREM ChargedOnlyTheTotal == Spec => []ChargedAmountIsTotal
<1>1. Provenance => ChargedAmountIsTotal
  BY DEF Provenance
<1> QED
  BY <1>1, ProvenanceHolds, PTL

(* A customer is charged only for an order all of whose items were         *)
(* reserved (payment-service handler.go:13-14).                            *)
THEOREM ChargedOnlyIfReserved == Spec => []ChargedWasReserved
<1>1. Provenance => ChargedWasReserved
  BY DEF Provenance
<1> QED
  BY <1>1, ProvenanceHolds, PTL
=============================================================================
