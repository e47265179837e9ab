---------------------------- MODULE LifecycleProofs ----------------------------
(***************************************************************************)
(* Pulse implements OrderLifecycle, for every instance in which no write   *)
(* is repeated and no customer asks to cancel, whatever else fails; and if *)
(* nothing fails, what comes to rest is all or nothing and announced.      *)
(*                                                                         *)
(* The three services' tables agree on how far an order is because whoever *)
(* has the order's turn (TurnProofs) knows it: while it is up to           *)
(* inventory-service nothing is reserved, from then on the order holds its *)
(* items, and only a pending order has a turn at all.  For what comes to   *)
(* rest the converse is needed too: while nothing has failed, an order     *)
(* that is not settled has a turn, so that somebody is still to act on it. *)
(* Last, if nothing fails each order is billed once, which is why its      *)
(* customer hears of one payment (NotifyProofs).                           *)
(***************************************************************************)
EXTENDS TurnProofs, PulseLifecycle, FiniteSetTheorems

(* No write has been repeated, and no customer cancels. *)
Undisturbed == NoRepeat /\ Cancelling = {}

NobodyCancels == \A r \in Request : task[r].pc # "cancel"

TurnKnowsStage ==
    \A o \in Order, at \in Site, who \in Actor, i \in Nat, duty \in Duty :
        Turn(at, who, i, o, duty) =>
            /\ orders[o].status = "pending"
            /\ duty = "reserve" => HoldsNothing(o)
            /\ duty \in {"charge", "confirm"} => HoldsItsItems(o) /\ ~ HoldsNothing(o)

(* An order that is not there holds nothing, one that is has items. *)
PlacedHasItems ==
    \A o \in Order : IF orders[o].status = "none"
                     THEN HoldsNothing(o)
                     ELSE orders[o].items \in ValidCart

(* What order-service says of a cancelled order is so. *)
CancelVouched ==
    /\ \A h \in Handler : task[h].pc = "publish" /\ task[h].event.type = "order.cancelled" =>
          orders[task[h].event.orderId].status = "cancelled"
    /\ \A p \in Partition : \A i \in DOMAIN log["order.events"][p] :
          log["order.events"][p][i].type = "order.cancelled" =>
              orders[log["order.events"][p][i].orderId].status = "cancelled"
    /\ \A w \in InvWorker : inv[w].pc = "release" =>
          orders[inv[w].event.orderId].status = "cancelled"

(* How an order ends, in the other services. *)
EndsWell ==
    \A o \in Order :
        /\ orders[o].status = "confirmed" => HoldsItsItems(o)
        /\ orders[o].status = "cancelled" => charges[o] = <<>>

Stages == NobodyCancels /\ TurnKnowsStage /\ PlacedHasItems /\ CancelVouched /\ EndsWell

StageInv == TurnInv /\ (Undisturbed => Stages)

-----------------------------------------------------------------------------
(* What may change in a single step.                                       *)

(* A step that leaves the tables of all the services alone. *)
LEMMA TablesAlone ==
    ASSUME TurnInv, NoRepeat, Stages, GoesOn, UNCHANGED <<orders, charges, reservations>>
    PROVE  TurnKnowsStage' /\ PlacedHasItems' /\ EndsWell'
<1>0. TypeOK /\ OneTurn
  BY DEF TurnInv, OneSaga
<1>1. \A o \in Order : /\ HoldsNothing(o)' <=> HoldsNothing(o)
                       /\ HoldsItsItems(o)' <=> HoldsItsItems(o)
  BY DEF HoldsNothing, HoldsItsItems, Held
<1>2. \A at, who, i, o, duty : Turn(at, who, i, o, duty)' =>
          \E bt, v, j : Turn(bt, v, j, o, duty)
  BY DEF GoesOn, Keeps, Drops, HandsOn, Passes
<1>3. TurnKnowsStage'
  BY <1>0, <1>1, <1>2, TurnIsOf DEF Stages, TurnKnowsStage
<1> QED
  BY <1>1, <1>3 DEF Stages, PlacedHasItems, EndsWell

(* A consumer of order-service decides about an order: it was its turn. *)
LEMMA SagaEndMoves ==
    ASSUME TurnInv, NoRepeat, Stages, NEW h \in Handler, SagaConfirm(h) \/ SagaCancel(h),
           SagaConfirm(h) => h \in SagaWorker, UNCHANGED <<inventoryVars, paymentVars>>
    PROVE  LET o == task[h].orderId IN
              /\ o \in Order
              /\ Turn("order-service", h, 0, o, task[h].pc)
              /\ orders[o].status = "pending"
              /\ orders' = [orders EXCEPT ![o].status =
                              IF SagaConfirm(h) THEN "confirmed" ELSE "cancelled"]
              /\ SagaConfirm(h) <=> task[h].pc = "confirm"
              /\ SagaConfirm(h) <=> charges[o] # <<>>
              /\ SagaConfirm(h) => HoldsItsItems(o) /\ ~ HoldsNothing(o)
<1> DEFINE o == task[h].orderId
<1>0. TypeOK /\ TurnFits /\ task[h].pc \in {"confirm", "cancel"}
  BY DEF TurnInv, OneSaga, SagaConfirm, SagaCancel
<1>1. h \in SagaWorker
  BY DEF Stages, NobodyCancels, SagaCancel, Handler
<1>2. Turn("order-service", h, 0, o, task[h].pc)
  BY <1>0, <1>1, SagaEndTurns
<1>3. /\ o \in Order
      /\ orders[o].status = "pending"
      /\ task[h].pc = "confirm" <=> charges[o] # <<>>
      /\ task[h].pc = "confirm" => HoldsItsItems(o) /\ ~ HoldsNothing(o)
  BY <1>0, <1>2, TurnIsOf DEF TurnFits, Stages, TurnKnowsStage
<1>4. SagaConfirm(h) <=> task[h].pc = "confirm"
  BY DEF SagaConfirm, SagaCancel
<1>5. orders' = [orders EXCEPT ![o].status = IF SagaConfirm(h) THEN "confirmed" ELSE "cancelled"]
  BY <1>4 DEF SagaConfirm, SagaCancel
<1> QED
  BY <1>2, <1>3, <1>4, <1>5

(* What was said of cancelled orders stays so. *)
StayCancelled == \A o \in Order : orders[o].status = "cancelled" => orders'[o].status = "cancelled"

LEMMA CancelStays ==
    ASSUME TypeOK, CancelVouched, StayCancelled, UNCHANGED <<log, inv>>,
           NEW h \in Handler, \A g \in Handler \ {h} : task'[g] = task[g],
           (task'[h].pc = "publish" /\ task'[h].event.type = "order.cancelled") =>
               orders'[task'[h].event.orderId].status = "cancelled"
    PROVE  CancelVouched'
<1>1. \A g \in Handler : task[g].pc = "publish" => task[g].event.orderId \in Order
  BY TaskFields DEF TypeOK, Event
<1>2. \A p \in Partition : \A i \in DOMAIN log["order.events"][p] :
          log["order.events"][p][i].orderId \in Order
  BY LogFacts DEF Topic, Event
<1>3. \A w \in InvWorker : inv[w].pc = "release" => inv[w].event.orderId \in Order
  BY InvFields DEF Event
<1> QED
  BY <1>1, <1>2, <1>3 DEF CancelVouched, StayCancelled

-----------------------------------------------------------------------------
(* The steps of order-service. *)

LEMMA CreateOrderStages ==
    ASSUME TurnInv, NoRepeat, Stages, NEW r \in Request, NEW o \in Order, NEW items \in Cart,
           CreateOrder(r, o, items), UNCHANGED <<inventoryVars, paymentVars>>
    PROVE  Stages'
<1> USE DEF TurnInv, Stages
<1>0. /\ UNCHANGED <<log, inv, reservations, charges>>
      /\ orders[o].status = "none" /\ orders'[o].status = "pending" /\ orders'[o].items = items
      /\ \A q \in Order \ {o} : orders'[q] = orders[q]
      /\ items \in ValidCart
      /\ r \in Handler
      /\ \A g \in Handler \ {r} : task'[g] = task[g]
      /\ task'[r].pc = "publish" /\ task'[r].event.type = "order.created"
  BY DEF CreateOrder, NewOrder, MakeEvent, ValidCart, busVars, inventoryVars, paymentVars,
         TypeOK, OrderTypeOK, Handler
<1>1. \A q \in Order : /\ HoldsNothing(q)' <=> HoldsNothing(q)
                       /\ q # o => (HoldsItsItems(q)' <=> HoldsItsItems(q))
  BY <1>0 DEF HoldsNothing, HoldsItsItems, Held
<1>2. \A at, who, i, q, duty : Turn(at, who, i, q, duty)' =>
          \/ q # o /\ Turn(at, who, i, q, duty)
          \/ q = o /\ duty = "reserve"
  BY <1>0, CreateOrderTurns, TurnHasOrder DEF Begins
<1>3. TurnKnowsStage'
  BY <1>0, <1>1, <1>2, TurnIsOf DEF TurnKnowsStage, PlacedHasItems
<1>4. NobodyCancels'
  BY <1>0 DEF NobodyCancels, Handler
<1>5. PlacedHasItems' /\ EndsWell'
  BY <1>0, <1>1 DEF PlacedHasItems, EndsWell
<1>6. CancelVouched'
  BY <1>0, CancelStays DEF StayCancelled
<1> QED
  BY <1>3, <1>4, <1>5, <1>6

LEMMA SagaReadStages ==
    ASSUME TurnInv, NoRepeat, Stages, NEW w \in SagaWorker, NEW t \in SagaTopic,
           NEW p \in Partition, SagaRead(w, t, p), UNCHANGED <<inventoryVars, paymentVars>>
    PROVE  Stages'
<1> USE DEF TurnInv, Stages
<1>0. /\ UNCHANGED <<log, inv, orders, reservations, charges>>
      /\ w \in Handler /\ w \notin Request
      /\ \A g \in Handler \ {w} : task'[g] = task[g]
      /\ task'[w].pc # "publish"
  BY HandlerAssumption
  DEF SagaRead, Handle, Idle, busVars, inventoryVars, paymentVars, TypeOK, OrderTypeOK, Handler
<1>1. GoesOn
  BY SagaReadTurns DEF GoesOn
<1>2. NobodyCancels'
  BY <1>0 DEF NobodyCancels, Handler
<1>3. CancelVouched'
  BY <1>0, CancelStays DEF StayCancelled
<1> QED
  BY <1>0, <1>1, <1>2, <1>3, TablesAlone

LEMMA SagaEndStages ==
    ASSUME TurnInv, NoRepeat, Stages, NEW h \in Handler, SagaConfirm(h) \/ SagaCancel(h),
           SagaConfirm(h) => h \in SagaWorker, UNCHANGED <<inventoryVars, paymentVars>>
    PROVE  Stages'
<1> USE DEF TurnInv, Stages
<1> DEFINE o == task[h].orderId
<1>1. /\ o \in Order
      /\ Turn("order-service", h, 0, o, task[h].pc)
      /\ orders[o].status = "pending"
      /\ orders' = [orders EXCEPT ![o].status = IF SagaConfirm(h) THEN "confirmed" ELSE "cancelled"]
      /\ SagaConfirm(h) <=> charges[o] # <<>>
      /\ SagaConfirm(h) => HoldsItsItems(o)
  BY SagaEndMoves
<1>2. /\ orders'[o].status = IF SagaConfirm(h) THEN "confirmed" ELSE "cancelled"
      /\ orders'[o].items = orders[o].items
      /\ \A q \in Order \ {o} : orders'[q] = orders[q]
  BY <1>1 DEF TypeOK, OrderTypeOK
<1>3. /\ UNCHANGED <<log, inv, reservations, charges>>
      /\ \A g \in Handler \ {h} : task'[g] = task[g]
      /\ task'[h].pc = "publish" /\ task'[h].event.orderId = o
      /\ task'[h].event.type = "order.cancelled" <=> ~ SagaConfirm(h)
  BY DEF SagaConfirm, SagaCancel, MakeEvent, busVars, inventoryVars, paymentVars, TypeOK, OrderTypeOK
<1> HIDE DEF o
<1>4. \A q \in Order : /\ HoldsNothing(q)' <=> HoldsNothing(q)
                       /\ HoldsItsItems(q)' <=> HoldsItsItems(q)
  BY <1>2, <1>3 DEF HoldsNothing, HoldsItsItems, Held
<1>5. \A at, who, i, q, duty : Turn(at, who, i, q, duty)' => q # o /\ Turn(at, who, i, q, duty)
  BY <1>1, SagaEndTurns, OnlyTurn DEF Drops, OneSaga
<1>6. TurnKnowsStage'
  BY <1>2, <1>4, <1>5, TurnIsOf DEF TurnKnowsStage
<1>7. NobodyCancels'
  BY <1>3 DEF NobodyCancels, Handler
<1>8. PlacedHasItems' /\ EndsWell'
  BY <1>1, <1>2, <1>3, <1>4 DEF PlacedHasItems, EndsWell
<1>9. CancelVouched'
  BY <1>1, <1>2, <1>3, CancelStays DEF StayCancelled
<1> QED
  BY <1>6, <1>7, <1>8, <1>9

LEMMA OrderPublishStages ==
    ASSUME TurnInv, NoRepeat', Stages, NEW h \in Handler, OrderPublish(h),
           NoRepeat, UNCHANGED <<inventoryVars, paymentVars>>
    PROVE  Stages'
<1> USE DEF TurnInv, Stages
<1> DEFINE e == task[h].event
           q == PartitionOf[e.orderId]
<1>0. /\ UNCHANGED <<inv, orders, reservations, charges>>
      /\ e \in Event /\ task[h].pc = "publish" /\ e.orderId \in Order /\ q \in Partition
      /\ \A g \in Handler : task'[g] \in {task[g], Idle}
  BY TaskFields, PartitionAssumption
  DEF OrderPublish, inventoryVars, paymentVars, TypeOK, OrderTypeOK, Event
<1>1. GoesOn
  BY OrderPublishTurns DEF GoesOn
<1>2. NobodyCancels'
  BY <1>0 DEF NobodyCancels, Handler, Idle
<1>3. \A p \in Partition : \A i \in DOMAIN log'["order.events"][p] :
          \/ i \in DOMAIN log["order.events"][p] /\ log'["order.events"][p][i] = log["order.events"][p][i]
          \/ log'["order.events"][p][i] = e
  <2>1. "order.events" \in Topic
    BY DEF Topic
  <2> QED
    BY <1>0, <2>1, PublishAdds DEF OrderPublish
<1>4. e.type = "order.cancelled" => orders[e.orderId].status = "cancelled"
  BY <1>0 DEF CancelVouched
<1>5. CancelVouched'
  BY <1>0, <1>3, <1>4 DEF CancelVouched, Idle
<1> QED
  BY <1>0, <1>1, <1>2, <1>5, TablesAlone

LEMMA OrderStages ==
    ASSUME TurnInv, NoRepeat, NoRepeat', Cancelling = {}, Stages, OrderNext,
           UNCHANGED <<inventoryVars, paymentVars>>
    PROVE  Stages'
<1>1. ASSUME NEW h \in Handler, SagaError(h) \/ OrderStop(h)
      PROVE  Stages'
  <2>0. /\ UNCHANGED <<log, inv, orders, reservations, charges>>
        /\ \A g \in Handler \ {h} : task'[g] = task[g]
        /\ task'[h].pc = "idle"
    BY <1>1 DEF SagaError, OrderStop, Idle, inventoryVars, paymentVars, TurnInv, TypeOK, OrderTypeOK
  <2>1. GoesOn
    BY <1>1, OrderFaultTurns DEF GoesOn, TurnInv
  <2>2. NobodyCancels'
    BY <2>0 DEF Stages, NobodyCancels, Handler
  <2>3. CancelVouched'
    BY <2>0, CancelStays DEF StayCancelled, Stages, TurnInv
  <2> QED
    BY <2>0, <2>1, <2>2, <2>3, TablesAlone DEF Stages
<1>2. ASSUME NEW h \in Handler, SagaConfirm(h), h \in SagaWorker
      PROVE  Stages'
  BY <1>2, SagaEndStages
<1>3. ASSUME NEW h \in Handler, SagaCancel(h)
      PROVE  Stages'
  BY <1>3, SagaEndStages DEF SagaConfirm, SagaCancel
<1>4. ASSUME NEW r \in Request, NEW o \in Order, CancelOrder(r, o)
      PROVE  FALSE
  BY <1>4 DEF CancelOrder
<1> QED
  BY <1>1, <1>2, <1>3, <1>4, CreateOrderStages, SagaReadStages, OrderPublishStages
  DEF OrderNext, SagaWorkerStep, RequestStep, Handler

-----------------------------------------------------------------------------
(* The steps of inventory-service. *)

LEMMA ReleaseStays ==
    ASSUME CancelVouched, UNCHANGED <<orders, task>>, log'["order.events"] = log["order.events"],
           NEW w \in InvWorker, \A v \in InvWorker \ {w} : inv'[v] = inv[v],
           inv'[w].pc = "release" => orders[inv'[w].event.orderId].status = "cancelled"
    PROVE  CancelVouched'
BY DEF CancelVouched

(* Every order that can be reserved asks for something. *)
LEMMA SomethingIsWanted ==
    ASSUME NEW items \in ValidCart, CanReserve(items)
    PROVE  \E p \in Product : Demand(items, p) > 0
<1>1. items \in Seq(Range(items)) /\ items # <<>>
  BY CartAssumption DEF ValidCart, Validate
<1>2. 1 \in DOMAIN items
  BY <1>1, EmptySeq, LenProperties
<1>3. items[1].product \in Wanted(items)
  BY <1>2 DEF Wanted
<1> QED
  BY <1>3, DemandIsWanted DEF CanReserve

(* A reservation is made when it is the turn of its order, which then      *)
(* holds what its row says.                                                *)
LEMMA ReserveHolds ==
    ASSUME TurnInv, NoRepeat, Stages, NEW w \in InvWorker, inv[w].pc = "reserve",
           NEW e, e = inv[w].event, NEW o, o = e.orderId
    PROVE  /\ o \in Order
           /\ Turn("inventory-service", w, 0, o, "reserve")
           /\ orders[o].status = "pending" /\ charges[o] = <<>> /\ HoldsNothing(o)
           /\ e.items = orders[o].items /\ e.items \in ValidCart
           /\ (CanReserve(e.items) /\ ReserveOrder(o, e.items) /\ UNCHANGED orders)
                  => HoldsItsItems(o)' /\ ~ HoldsNothing(o)'
<1> USE DEF TurnInv, Stages
<1>0. TurnFits
  BY DEF OneSaga
<1>1. e.type = "order.created" /\ Vouched(e)
  BY DEF Provenance, InvVouched
<1>2. Turn("inventory-service", w, 0, o, "reserve")
  BY <1>1 DEF Turn, InvTurn, Calls, Duty
<1>3. /\ o \in Order /\ orders[o].status = "pending" /\ charges[o] = <<>> /\ HoldsNothing(o)
  BY <1>0, <1>2, TurnIsOf DEF TurnFits, TurnKnowsStage
<1>4. e.items = orders[o].items /\ e.items \in ValidCart
  BY <1>1, <1>3 DEF Vouched, PlacedHasItems
<1>5. ASSUME CanReserve(e.items), ReserveOrder(o, e.items), UNCHANGED orders
      PROVE  HoldsItsItems(o)' /\ ~ HoldsNothing(o)'
  <2>1. reservations'[o].active =
            [p \in Product |-> reservations[o].active[p] + Demand(e.items, p)]
    BY <1>3, <1>5 DEF ReserveOrder, TypeOK, InventoryTypeOK, LedgerTypeOK
  <2>2. \A p \in Product : reservations[o].active[p] = 0 /\ Demand(e.items, p) \in Nat
    BY <1>3, <1>4, DemandIsWanted DEF HoldsNothing, Held, NoUnits
  <2>3. reservations'[o].active = [p \in Product |-> Demand(e.items, p)]
    <3>1. \A p \in Product : reservations[o].active[p] + Demand(e.items, p) = Demand(e.items, p)
      BY <2>2
    <3> QED
      BY <2>1, <3>1
  <2>4. PICK p \in Product : Demand(e.items, p) > 0
    BY <1>4, <1>5, SomethingIsWanted
  <2>5. reservations'[o].active # NoUnits
    BY <2>3, <2>4 DEF NoUnits
  <2> QED
    BY <1>4, <1>5, <2>3, <2>5 DEF HoldsItsItems, HoldsNothing, Held
<1> QED
  BY <1>2, <1>3, <1>4, <1>5

LEMMA InventoryStages ==
    ASSUME TurnInv, NoRepeat, NoRepeat', Stages, InventoryNext,
           UNCHANGED <<orderVars, paymentVars>>
    PROVE  Stages'
<1> USE DEF TurnInv
<1>0. /\ UNCHANGED <<orders, task, charges>>
      /\ NobodyCancels'
      /\ TurnKnowsStage /\ PlacedHasItems /\ CancelVouched /\ EndsWell
  BY DEF Stages, NobodyCancels, orderVars, paymentVars
<1>1. PICK w \in InvWorker : InvWorkerStep(w) \/ InvFaultStep(w)
  BY DEF InventoryNext
<1>2. \A v \in InvWorker \ {w} : inv'[v] = inv[v]
  BY <1>1
  DEF InvWorkerStep, InvFaultStep, InvRead, InvReserve, InvRefuse, InvReserveError, InvRelease,
      InvReleaseError, InvPublish, InvStop, Report, TypeOK, InventoryTypeOK
<1>3. PICK e, o : e = inv[w].event /\ o = e.orderId
  OBVIOUS
<1>4. ASSUME NEW p \in Partition, InvRead(w, p)
      PROVE  Stages'
  <2> DEFINE k == invOffset[p] + 1
  <2>1. GoesOn
    BY <1>4, InvReadTurns DEF GoesOn
  <2>2. k \in DOMAIN log["order.events"][p] /\ "order.events" \in Topic
    BY <1>4, LogFacts DEF InvRead, HasNext, TypeOK, InventoryTypeOK, Topic
  <2>3. inv'[w] = InvHandle(log["order.events"][p][k])
    BY <1>4 DEF InvRead, NextEvent, TypeOK, InventoryTypeOK
  <2>4. inv'[w].pc = "release" => orders[inv'[w].event.orderId].status = "cancelled"
    <3> HIDE DEF k
    <3>1. PICK f : f = log["order.events"][p][k]
      OBVIOUS
    <3>2. f.type = "order.cancelled" => orders[f.orderId].status = "cancelled"
      BY <1>0, <2>2, <3>1 DEF CancelVouched
    <3>3. inv'[w].pc = "release" => f.type = "order.cancelled" /\ inv'[w].event = f
      BY <2>3, <3>1 DEF InvHandle, Idle
    <3> QED
      BY <3>2, <3>3
  <2>5. UNCHANGED <<log, reservations>>
    BY <1>4 DEF InvRead, busVars
  <2>6. CancelVouched'
    BY <1>0, <1>2, <2>4, <2>5, ReleaseStays
  <2> QED
    BY <1>0, <2>1, <2>5, <2>6, TablesAlone DEF Stages
<1>5. CASE InvReserve(w) \/ InvRefuse(w) \/ InvReserveError(w)
  <2> DEFINE duty == IF InvReserve(w) THEN "charge" ELSE "cancel"
  <2>0. inv[w].pc = "reserve" /\ inv'[w].pc = "publish" /\ UNCHANGED log
    BY <1>5
    DEF InvReserve, InvRefuse, InvReserveError, Report, busVars, TypeOK, InventoryTypeOK
  <2>1. /\ o \in Order
        /\ orders[o].status = "pending" /\ charges[o] = <<>> /\ HoldsNothing(o)
        /\ CanReserve(e.items) /\ ReserveOrder(o, e.items) => HoldsItsItems(o)' /\ ~ HoldsNothing(o)'
    BY <1>0, <1>3, <2>0, ReserveHolds
  <2>2. /\ InvReserve(w) => CanReserve(e.items) /\ ReserveOrder(o, e.items)
        /\ UNCHANGED reservations \/ ReserveOrder(o, e.items)
    BY <1>3, <1>5 DEF InvReserve, InvRefuse, InvReserveError
  <2>3. \A q \in Order \ {o} : reservations'[q] = reservations[q]
    BY <2>1, <2>2 DEF ReserveOrder, TypeOK, InventoryTypeOK, LedgerTypeOK
  <2>4. \A q \in Order \ {o} : /\ HoldsNothing(q)' <=> HoldsNothing(q)
                               /\ HoldsItsItems(q)' <=> HoldsItsItems(q)
    BY <1>0, <2>3 DEF HoldsNothing, HoldsItsItems, Held
  <2>5. /\ Turn("inventory-service", w, 0, o, "reserve")
        /\ Passes("inventory-service", w, 0, "inventory-service", w, 0, o, duty)
    BY <1>3, <1>5, InvReserveTurns
  <2>6. \A at, who, i, q, d : Turn(at, who, i, q, d)' =>
            \/ q # o /\ Turn(at, who, i, q, d)
            \/ q = o /\ d = duty
    <3>1. OneTurn
      BY DEF OneSaga
    <3> HIDE DEF duty
    <3> QED
      BY <2>5, <3>1, OnlyTurn DEF Passes
  <2>7. duty \notin {"reserve", "confirm"} /\ (duty = "charge" => HoldsItsItems(o)' /\ ~ HoldsNothing(o)')
    BY <2>1, <2>2
  <2> HIDE DEF duty
  <2>8. TurnKnowsStage'
    BY <1>0, <2>1, <2>4, <2>6, <2>7, TurnIsOf DEF TurnKnowsStage
  <2>9. PlacedHasItems' /\ EndsWell'
    BY <1>0, <2>1, <2>4 DEF PlacedHasItems, EndsWell
  <2>10. CancelVouched'
    BY <1>0, <1>2, <2>0, ReleaseStays
  <2> QED
    BY <1>0, <2>8, <2>9, <2>10 DEF Stages
<1>6. CASE InvRelease(w)
  <2>1. /\ o \in Order /\ orders[o].status = "cancelled"
        /\ \A q \in Order \ {o} : reservations'[q] = reservations[q]
        /\ inv'[w].pc = "publish" /\ UNCHANGED log
    BY <1>0, <1>3, <1>6, InvFields
    DEF InvRelease, ReleaseOrder, Report, CancelVouched, Event, busVars,
        TypeOK, InventoryTypeOK, LedgerTypeOK
  <2>2. \A q \in Order \ {o} : /\ HoldsNothing(q)' <=> HoldsNothing(q)
                               /\ HoldsItsItems(q)' <=> HoldsItsItems(q)
    BY <1>0, <2>1 DEF HoldsNothing, HoldsItsItems, Held
  <2>3. \A at, who, i, q, d : Turn(at, who, i, q, d)' <=> Turn(at, who, i, q, d)
    BY <1>6, InvReleaseTurns DEF Keeps
  <2>4. TurnKnowsStage'
    BY <1>0, <2>1, <2>2, <2>3 DEF TurnKnowsStage
  <2>5. PlacedHasItems' /\ EndsWell'
    BY <1>0, <2>1, <2>2 DEF PlacedHasItems, EndsWell
  <2>6. CancelVouched'
    BY <1>0, <1>2, <2>1, ReleaseStays
  <2> QED
    BY <1>0, <2>4, <2>5, <2>6 DEF Stages
<1>7. CASE InvPublish(w) \/ InvReleaseError(w) \/ InvStop(w)
  <2>1. GoesOn
    BY <1>7, InvPublishTurns, InvFaultTurns DEF GoesOn
  <2>2. UNCHANGED reservations /\ log'["order.events"] = log["order.events"]
    BY <1>7 DEF InvPublish, InvReleaseError, InvStop, Publish, TypeOK, BusTypeOK, Topic
  <2>3. inv'[w].pc # "release"
    BY <1>7 DEF InvPublish, InvReleaseError, InvStop, Idle, TypeOK, InventoryTypeOK
  <2>4. CancelVouched'
    BY <1>0, <1>2, <2>2, <2>3, ReleaseStays
  <2> QED
    BY <1>0, <2>1, <2>2, <2>4, TablesAlone DEF Stages
<1> QED
  BY <1>1, <1>4, <1>5, <1>6, <1>7 DEF InvWorkerStep, InvFaultStep

-----------------------------------------------------------------------------
(* The steps of payment-service. *)

(* A charge is made when it is the turn of its order. *)
LEMMA ChargeHolds ==
    ASSUME TurnInv, NoRepeat, Stages, NEW w \in PayWorker, PayCharge(w),
           UNCHANGED <<orderVars, inventoryVars>>,
           NEW o, o = pay[w].event.orderId, NEW duty,
           duty = IF pay[w].event.total <= DeclineOver THEN "confirm" ELSE "cancel"
    PROVE  /\ o \in Order
           /\ orders[o].status = "pending" /\ charges[o] = <<>> /\ HoldsItsItems(o) /\ ~ HoldsNothing(o)
           /\ \A q \in Order \ {o} : charges'[q] = charges[q]
           /\ charges'[o] # <<>> <=> duty = "confirm"
           /\ Turn("payment-service", w, 0, o, "charge")
           /\ Passes("payment-service", w, 0, "payment-service", w, 0, o, duty)
<1> USE DEF TurnInv, Stages
<1>1. /\ Turn("payment-service", w, 0, o, "charge")
      /\ Passes("payment-service", w, 0, "payment-service", w, 0, o, duty)
  BY PayChargeTurns
<1>2. o \in Order /\ orders[o].status = "pending" /\ charges[o] = <<>> /\ HoldsItsItems(o) /\ ~ HoldsNothing(o)
  BY <1>1, TurnIsOf DEF TurnFits, TurnKnowsStage, OneSaga
<1>3. pay[w].event.total \in Nat
  BY PayFields DEF PayCharge, Event
<1>4. Append(<<>>, pay[w].event.total) # <<>>
  BY <1>3
<1>5. /\ \A q \in Order \ {o} : charges'[q] = charges[q]
      /\ charges'[o] = IF duty = "confirm" THEN Append(<<>>, pay[w].event.total) ELSE <<>>
  BY <1>2 DEF PayCharge, TypeOK, PaymentTypeOK
<1> QED
  BY <1>1, <1>2, <1>4, <1>5

LEMMA PaymentStages ==
    ASSUME TurnInv, NoRepeat, NoRepeat', Stages, PaymentNext,
           UNCHANGED <<orderVars, inventoryVars>>
    PROVE  Stages'
<1> USE DEF TurnInv
<1>0. /\ UNCHANGED <<orders, task, inv, reservations>>
      /\ NobodyCancels'
      /\ TurnKnowsStage /\ PlacedHasItems /\ CancelVouched /\ EndsWell
      /\ OneTurn
  BY DEF Stages, NobodyCancels, OneSaga, orderVars, inventoryVars
<1>1. PICK w \in PayWorker : PayWorkerStep(w) \/ PayInsertError(w) \/ PayStop(w)
  BY DEF PaymentNext
<1>2. CancelVouched'
  <2>1. log'["order.events"] = log["order.events"]
    BY <1>1
    DEF PayWorkerStep, PayRead, PayInsert, PayInsertError, PayCharge, PayRecord, PayPublish,
        PayStop, Publish, busVars, TypeOK, BusTypeOK, Topic
  <2> QED
    BY <1>0, <2>1 DEF CancelVouched
<1>3. CASE PayCharge(w)
  <2> DEFINE duty == IF pay[w].event.total <= DeclineOver THEN "confirm" ELSE "cancel"
  <2>0. PICK o : o = pay[w].event.orderId
    OBVIOUS
  <2>1. /\ o \in Order
        /\ orders[o].status = "pending" /\ charges[o] = <<>> /\ HoldsItsItems(o) /\ ~ HoldsNothing(o)
        /\ \A q \in Order \ {o} : charges'[q] = charges[q]
        /\ Turn("payment-service", w, 0, o, "charge")
        /\ Passes("payment-service", w, 0, "payment-service", w, 0, o, duty)
    BY <1>3, <2>0, ChargeHolds
  <2>2. \A q \in Order : /\ HoldsNothing(q)' <=> HoldsNothing(q)
                         /\ HoldsItsItems(q)' <=> HoldsItsItems(q)
    BY <1>0 DEF HoldsNothing, HoldsItsItems, Held
  <2>3. duty # "reserve"
    OBVIOUS
  <2> HIDE DEF duty
  <2>4. \A at, who, i, q, d : Turn(at, who, i, q, d)' =>
            \/ q # o /\ Turn(at, who, i, q, d)
            \/ q = o /\ d = duty
    BY <1>0, <2>1, OnlyTurn DEF Passes
  <2>5. TurnKnowsStage'
    BY <1>0, <2>1, <2>2, <2>3, <2>4, TurnIsOf DEF TurnKnowsStage
  <2>6. PlacedHasItems' /\ EndsWell'
    BY <1>0, <2>1, <2>2 DEF PlacedHasItems, EndsWell
  <2> QED
    BY <1>0, <1>2, <2>5, <2>6 DEF Stages
<1>4. CASE \/ \E p \in Partition : PayRead(w, p)
           \/ PayInsert(w) \/ PayRecord(w) \/ PayPublish(w) \/ PayInsertError(w) \/ PayStop(w)
  <2>1. GoesOn
    BY <1>4, PayReadTurns, PayRowTurns, PayPublishTurns, PayFaultTurns DEF GoesOn
  <2>2. UNCHANGED charges
    BY <1>4 DEF PayRead, PayInsert, PayRecord, PayPublish, PayInsertError, PayStop
  <2> QED
    BY <1>0, <1>2, <2>1, <2>2, TablesAlone DEF Stages
<1> QED
  BY <1>1, <1>3, <1>4 DEF PayWorkerStep

LEMMA StageInvInit == Init => StageInv
<1> SUFFICES ASSUME Init PROVE StageInv
  OBVIOUS
<1>1. \A at, who, i, o, duty : ~ Turn(at, who, i, o, duty)
  BY DEF Init, BusInit, OrderInit, InventoryInit, PaymentInit, Idle,
         Turn, OrderTurn, InvTurn, PayTurn, EventTurn
<1>2. PlacedHasItems /\ EndsWell
  BY DEF Init, OrderInit, InventoryInit, LedgerInit, NoOrder, PlacedHasItems, EndsWell,
         HoldsNothing, Held
<1>3. CancelVouched /\ NobodyCancels
  BY DEF Init, BusInit, OrderInit, InventoryInit, Idle, Topic, CancelVouched, NobodyCancels, Handler
<1> QED
  BY <1>1, <1>2, <1>3, TurnInvInit DEF StageInv, Stages, TurnKnowsStage

LEMMA StageInvStep == StageInv /\ [Next]_vars => StageInv'
<1> SUFFICES ASSUME StageInv, [Next]_vars PROVE StageInv'
  OBVIOUS
<1>1. TurnInv'
  BY TurnInvStep DEF StageInv
<1>2. ASSUME Undisturbed'
      PROVE  Stages'
  <2>1. TypeOK /\ TurnInv /\ NoRepeat' /\ Cancelling = {}
    BY <1>2 DEF StageInv, TurnInv, Undisturbed
  <2>2. NoRepeat
    BY <2>1, FaultsGrow DEF NoRepeat, TypeOK, BusTypeOK
  <2>3. Stages
    BY <2>1, <2>2 DEF StageInv, Undisturbed
  <2>4. CASE OrderNext /\ UNCHANGED <<inventoryVars, paymentVars>>
    BY <2>1, <2>2, <2>3, <2>4, OrderStages
  <2>5. CASE InventoryNext /\ UNCHANGED <<orderVars, paymentVars>>
    BY <2>1, <2>2, <2>3, <2>5, InventoryStages
  <2>6. CASE PaymentNext /\ UNCHANGED <<orderVars, inventoryVars>>
    BY <2>1, <2>2, <2>3, <2>6, PaymentStages
  <2>7. CASE UNCHANGED vars
    <3>0. UNCHANGED <<log, task, inv, orders, charges, reservations>>
      BY <2>7 DEF vars, busVars, orderVars, inventoryVars, paymentVars
    <3>1. GoesOn
      BY <2>7 DEF GoesOn, Keeps, Turn, OrderTurn, InvTurn, PayTurn, EventTurn, Ahead,
                  vars, busVars, orderVars, inventoryVars, paymentVars
    <3>2. NobodyCancels' /\ CancelVouched'
      BY <2>3, <3>0 DEF Stages, NobodyCancels, CancelVouched
    <3> QED
      BY <2>1, <2>2, <2>3, <3>0, <3>1, <3>2, TablesAlone DEF Stages
  <2> QED
    BY <2>4, <2>5, <2>6, <2>7 DEF Next, Waiting
<1> QED
  BY <1>1, <1>2 DEF StageInv

LEMMA AlwaysStageInv == Spec => []StageInv
BY StageInvInit, StageInvStep, PTL DEF Spec

-----------------------------------------------------------------------------
(* Each step of Pulse takes one order one stage further, or none. *)

Moves == { <<"none", "placed">>, <<"placed", "held">>, <<"placed", "cancelled">>,
           <<"held", "paid">>, <<"held", "returning">>, <<"paid", "confirmed">>,
           <<"returning", "cancelled">> }

OneMoves ==
    \/ \A q \in Order : Stage(q)' = Stage(q)
    \/ \E o \in Order : /\ <<Stage(o), Stage(o)'>> \in Moves
                        /\ \A q \in Order \ {o} : Stage(q)' = Stage(q)

LEMMA StageKept ==
    ASSUME NEW q \in Order, orders'[q].status = orders[q].status, charges'[q] = charges[q],
           reservations'[q].active = reservations[q].active
    PROVE  Stage(q)' = Stage(q)
BY DEF Stage, HoldsNothing, Held

LEMMA OrderMoves ==
    ASSUME TurnInv, NoRepeat, Cancelling = {}, Stages, OrderNext,
           UNCHANGED <<inventoryVars, paymentVars>>
    PROVE  OneMoves
<1> USE DEF TurnInv, Stages
<1>0. UNCHANGED <<reservations, charges>>
  BY DEF inventoryVars, paymentVars
<1>1. ASSUME NEW r \in Request, NEW o \in Order, NEW items \in Cart, CreateOrder(r, o, items)
      PROVE  OneMoves
  <2>1. /\ orders[o].status = "none" /\ orders'[o].status = "pending"
        /\ \A q \in Order \ {o} : orders'[q] = orders[q]
    BY <1>1 DEF CreateOrder, NewOrder, TypeOK, OrderTypeOK
  <2>2. charges[o] = <<>> /\ HoldsNothing(o)
    BY <2>1 DEF Provenance, ChargesVouched, PlacedHasItems
  <2>3. Stage(o) = "none" /\ Stage(o)' = "placed"
    BY <1>0, <2>1, <2>2 DEF Stage, HoldsNothing, Held
  <2> QED
    BY <1>0, <2>1, <2>3, StageKept DEF OneMoves, Moves
<1>2. ASSUME NEW h \in Handler, SagaConfirm(h) \/ SagaCancel(h), SagaConfirm(h) => h \in SagaWorker
      PROVE  OneMoves
  <2>1. PICK o \in Order :
          /\ orders[o].status = "pending"
          /\ orders' = [orders EXCEPT ![o].status =
                              IF SagaConfirm(h) THEN "confirmed" ELSE "cancelled"]
          /\ SagaConfirm(h) <=> charges[o] # <<>>
    BY <1>2, SagaEndMoves
  <2>2. /\ orders'[o].status = IF SagaConfirm(h) THEN "confirmed" ELSE "cancelled"
        /\ \A q \in Order \ {o} : orders'[q] = orders[q]
    BY <2>1 DEF TypeOK, OrderTypeOK
  <2>3. HoldsNothing(o)' <=> HoldsNothing(o)
    BY <1>0 DEF HoldsNothing, Held
  <2>4. <<Stage(o), Stage(o)'>> \in Moves
    <3>1. CASE SagaConfirm(h)
      BY <2>1, <2>2, <3>1 DEF Stage, Moves
    <3>2. CASE ~ SagaConfirm(h) /\ HoldsNothing(o)
      BY <2>1, <2>2, <2>3, <3>2 DEF Stage, Moves
    <3>3. CASE ~ SagaConfirm(h) /\ ~ HoldsNothing(o)
      BY <2>1, <2>2, <2>3, <3>3 DEF Stage, Moves
    <3> QED
      BY <3>1, <3>2, <3>3
  <2> QED
    BY <1>0, <2>2, <2>4, StageKept DEF OneMoves
<1>3. ASSUME UNCHANGED orders
      PROVE  OneMoves
  BY <1>0, <1>3, StageKept DEF OneMoves
<1>4. ASSUME NEW h \in Handler, SagaConfirm(h), h \in SagaWorker
      PROVE  OneMoves
  BY <1>2, <1>4
<1>5. ASSUME NEW h \in Handler, SagaCancel(h)
      PROVE  OneMoves
  BY <1>2, <1>5 DEF SagaConfirm, SagaCancel
<1>6. ASSUME NEW h \in Handler, OrderPublish(h) \/ SagaError(h) \/ OrderStop(h)
      PROVE  OneMoves
  BY <1>3, <1>6 DEF OrderPublish, SagaError, OrderStop
<1>7. ASSUME NEW w \in SagaWorker, NEW t \in SagaTopic, NEW p \in Partition, SagaRead(w, t, p)
      PROVE  OneMoves
  BY <1>3, <1>7 DEF SagaRead
<1>8. ASSUME NEW r \in Request, NEW o \in Order, CancelOrder(r, o)
      PROVE  OneMoves
  BY <1>3, <1>8 DEF CancelOrder
<1> QED
  BY <1>1, <1>4, <1>5, <1>6, <1>7, <1>8
  DEF OrderNext, SagaWorkerStep, RequestStep, Handler

LEMMA InventoryMoves ==
    ASSUME TurnInv, NoRepeat, Stages, InventoryNext, UNCHANGED <<orderVars, paymentVars>>
    PROVE  OneMoves
<1> USE DEF TurnInv
<1>0. UNCHANGED <<orders, charges>>
  BY DEF orderVars, paymentVars
<1>1. PICK w \in InvWorker : InvWorkerStep(w) \/ InvFaultStep(w)
  BY DEF InventoryNext
<1>2. PICK e, o : e = inv[w].event /\ o = e.orderId
  OBVIOUS
<1>3. CASE InvReserve(w) \/ InvReserveError(w)
  <2>1. /\ o \in Order
        /\ orders[o].status = "pending" /\ charges[o] = <<>> /\ HoldsNothing(o)
        /\ (CanReserve(e.items) /\ ReserveOrder(o, e.items)) => ~ HoldsNothing(o)'
    BY <1>0, <1>2, <1>3, ReserveHolds DEF InvReserve, InvReserveError
  <2>2. \/ UNCHANGED reservations
        \/ CanReserve(e.items) /\ ReserveOrder(o, e.items)
    BY <1>2, <1>3 DEF InvReserve, InvReserveError
  <2>3. CASE UNCHANGED reservations
    BY <1>0, <2>3, StageKept DEF OneMoves
  <2>4. CASE CanReserve(e.items) /\ ReserveOrder(o, e.items)
    <3>1. \A q \in Order \ {o} : reservations'[q] = reservations[q]
      BY <2>1, <2>4 DEF ReserveOrder, TypeOK, InventoryTypeOK, LedgerTypeOK
    <3>2. Stage(o) = "placed" /\ Stage(o)' = "held"
      BY <1>0, <2>1, <2>4 DEF Stage
    <3> QED
      BY <1>0, <2>1, <3>1, <3>2, StageKept DEF OneMoves, Moves
  <2> QED
    BY <2>2, <2>3, <2>4
<1>4. CASE InvRelease(w)
  <2>1. /\ o \in Order /\ orders[o].status = "cancelled"
        /\ \A q \in Order \ {o} : reservations'[q] = reservations[q]
        /\ reservations'[o].active = NoUnits
    BY <1>2, <1>4, InvFields
    DEF InvRelease, ReleaseOrder, Stages, CancelVouched, Event, TypeOK, InventoryTypeOK, LedgerTypeOK
  <2>2. Stage(o)' = "cancelled" /\ Stage(o) \in {"cancelled", "returning"}
    BY <1>0, <2>1 DEF Stage, HoldsNothing, Held
  <2>3. \A q \in Order \ {o} : Stage(q)' = Stage(q)
    BY <1>0, <2>1, StageKept
  <2> QED
    BY <2>1, <2>2, <2>3 DEF OneMoves, Moves
<1>5. CASE \/ \E p \in Partition : InvRead(w, p)
           \/ InvRefuse(w) \/ InvPublish(w) \/ InvReleaseError(w) \/ InvStop(w)
  <2>1. UNCHANGED reservations
    BY <1>5 DEF InvRead, InvRefuse, InvPublish, InvReleaseError, InvStop
  <2> QED
    BY <1>0, <2>1, StageKept DEF OneMoves
<1> QED
  BY <1>1, <1>3, <1>4, <1>5 DEF InvWorkerStep, InvFaultStep

LEMMA PaymentMoves ==
    ASSUME TurnInv, NoRepeat, Stages, PaymentNext, UNCHANGED <<orderVars, inventoryVars>>
    PROVE  OneMoves
<1>0. UNCHANGED <<orders, reservations>>
  BY DEF orderVars, inventoryVars
<1>1. PICK w \in PayWorker : PayWorkerStep(w) \/ PayInsertError(w) \/ PayStop(w)
  BY DEF PaymentNext
<1>2. CASE PayCharge(w)
  <2>1. PICK o, duty :
          /\ o = pay[w].event.orderId
          /\ duty = IF pay[w].event.total <= DeclineOver THEN "confirm" ELSE "cancel"
    OBVIOUS
  <2>2. /\ o \in Order
        /\ orders[o].status = "pending" /\ charges[o] = <<>> /\ ~ HoldsNothing(o)
        /\ \A q \in Order \ {o} : charges'[q] = charges[q]
    BY <1>2, <2>1, ChargeHolds
  <2>3. Stage(o) = "held" /\ Stage(o)' \in {"held", "paid"}
    BY <1>0, <2>2 DEF Stage, HoldsNothing, Held
  <2>4. \A q \in Order \ {o} : Stage(q)' = Stage(q)
    BY <1>0, <2>2, StageKept
  <2> QED
    BY <2>2, <2>3, <2>4 DEF OneMoves, Moves
<1>3. CASE \/ \E p \in Partition : PayRead(w, p)
           \/ PayInsert(w) \/ PayRecord(w) \/ PayPublish(w) \/ PayInsertError(w) \/ PayStop(w)
  <2>1. UNCHANGED charges
    BY <1>3 DEF PayRead, PayInsert, PayRecord, PayPublish, PayInsertError, PayStop
  <2> QED
    BY <1>0, <2>1, StageKept DEF OneMoves
<1> QED
  BY <1>1, <1>2, <1>3 DEF PayWorkerStep

LEMMA MovesAreSteps ==
    ASSUME OneMoves
    PROVE  [Lifecycle!Next]_([o \in Order |-> Stage(o)])
<1> DEFINE now == [o \in Order |-> Stage(o)]
<1>1. CASE \A q \in Order : Stage(q)' = Stage(q)
  <2>1. now' = now
    BY <1>1
  <2> QED
    BY <2>1
<1>2. ASSUME NEW o \in Order, <<Stage(o), Stage(o)'>> \in Moves,
             \A q \in Order \ {o} : Stage(q)' = Stage(q)
      PROVE  Lifecycle!Next
  <2>1. now[o] = Stage(o) /\ now' = [now EXCEPT ![o] = Stage(o)']
    BY <1>2
  <2> QED
    BY <1>2, <2>1
    DEF Moves, Lifecycle!Next, Lifecycle!Settle, Lifecycle!Place, Lifecycle!Hold,
        Lifecycle!Refuse, Lifecycle!Pay, Lifecycle!Decline, Lifecycle!Confirm, Lifecycle!Return,
        Lifecycle!Move
<1> QED
  BY <1>1, <1>2 DEF OneMoves

(* If no write is repeated and no customer cancels, the three services     *)
(* together take every order through the stages of OrderLifecycle, one at  *)
(* a time, whatever stops or fails (saga.go:8-14): it is charged only      *)
(* while its stock is held, confirmed only when it was charged, cancelled  *)
(* only when it was not, and then for good.                                *)
THEOREM SagaKeepsToLifecycle ==
    ASSUME "duplicate" \notin FaultKind, Cancelling = {}
    PROVE  Spec => ImplementsLifecycle
<1>1. Init => Lifecycle!Init
  BY DEF Init, OrderInit, NoOrder, Lifecycle!Init, Stage
<1>2. StageInv /\ [Next]_vars => [Lifecycle!Next]_([o \in Order |-> Stage(o)])
  <2> SUFFICES ASSUME StageInv, [Next]_vars
               PROVE  [Lifecycle!Next]_([o \in Order |-> Stage(o)])
    OBVIOUS
  <2>1. TurnInv /\ NoRepeat /\ Stages
    BY DEF StageInv, Undisturbed, NoRepeat
  <2>2. CASE OrderNext /\ UNCHANGED <<inventoryVars, paymentVars>>
    BY <2>1, <2>2, OrderMoves, MovesAreSteps
  <2>3. CASE InventoryNext /\ UNCHANGED <<orderVars, paymentVars>>
    BY <2>1, <2>3, InventoryMoves, MovesAreSteps
  <2>4. CASE PaymentNext /\ UNCHANGED <<orderVars, inventoryVars>>
    BY <2>1, <2>4, PaymentMoves, MovesAreSteps
  <2>5. CASE UNCHANGED vars
    <3>1. OneMoves
      BY <2>5, StageKept DEF OneMoves, vars, orderVars, inventoryVars, paymentVars
    <3> QED
      BY <3>1, MovesAreSteps
  <2> QED
    BY <2>2, <2>3, <2>4, <2>5 DEF Next, Waiting
<1> QED
  BY <1>1, <1>2, AlwaysStageInv, PTL DEF Spec, ImplementsLifecycle, Lifecycle!Spec

-----------------------------------------------------------------------------
(* When nothing fails either, nothing that is to be done for an order is   *)
(* lost: a pending order has a turn, an outcome is announced or about to   *)
(* be, once, and a cancelled order holds nothing unless its                *)
(* order.cancelled has still to get to inventory-service.                  *)

HasTurn(o) == \E at, who, i, duty : Turn(at, who, i, o, duty)

PendingHasTurn == \A o \in Order : orders[o].status = "pending" => HasTurn(o)

(* An event of order-service that says how an order ended, in the topic or *)
(* about to be published.                                                  *)
Final == {"order.confirmed", "order.cancelled"}

StatusOf(type) == IF type = "order.confirmed" THEN "confirmed" ELSE "cancelled"

Says(at, who, i, type, o) ==
    \/ /\ at = "order-service" /\ who \in Handler /\ i = 0
       /\ task[who].pc = "publish"
       /\ task[who].event.type = type
       /\ task[who].event.orderId = o
    \/ /\ at = "order.events" /\ who \in Partition /\ i \in DOMAIN log["order.events"][who]
       /\ log["order.events"][who][i].type = type
       /\ log["order.events"][who][i].orderId = o

SaidOnce ==
    \A o \in Order, type \in Final :
        /\ orders[o].status = StatusOf(type) <=> \E at, who, i : Says(at, who, i, type, o)
        /\ \A at, bt, u, v, i, j :
              Says(at, u, i, type, o) /\ Says(bt, v, j, type, o) => at = bt /\ u = v /\ i = j

CancelComing(o) ==
    \/ \E at, who, i : /\ Says(at, who, i, "order.cancelled", o)
                       /\ at = "order.events" => invOffset[who] < i
    \/ \E w \in InvWorker : inv[w].pc = "release" /\ inv[w].event.orderId = o

CancelledIsReturned ==
    \A o \in Order : orders[o].status = "cancelled" => HoldsNothing(o) \/ CancelComing(o)

NothingLost == PendingHasTurn /\ SaidOnce /\ CancelledIsReturned

-----------------------------------------------------------------------------
LEMMA TurnOfOne ==
    ASSUME NEW at, NEW who, NEW i, NEW o, NEW d, NEW q, NEW e,
           Turn(at, who, i, o, d), Turn(at, who, i, q, e)
    PROVE  o = q
BY DEF Turn, OrderTurn, InvTurn, PayTurn, EventTurn, Topic

(* A turn that is passed on is not lost. *)
LEMMA HandedOn ==
    ASSUME \/ Keeps
           \/ \E bt, v, j, q, d : Begins(bt, v, j, q, d)
           \/ \E ct, u, k, bt, v, j, q, d, e :
                 Turn(ct, u, k, q, e) /\ Passes(ct, u, k, bt, v, j, q, d),
           NEW o, HasTurn(o)
    PROVE  HasTurn(o)'
<1>1. PICK at, who, i, duty : Turn(at, who, i, o, duty)
  BY DEF HasTurn
<1>2. CASE Keeps \/ \E bt, v, j, q, d : Begins(bt, v, j, q, d)
  <2>1. Turn(at, who, i, o, duty)'
    BY <1>1, <1>2 DEF Keeps, Begins
  <2> QED
    BY <2>1 DEF HasTurn
<1>3. ASSUME NEW ct, NEW u, NEW k, NEW bt, NEW v, NEW j, NEW q, NEW d, NEW e,
             Turn(ct, u, k, q, e), Passes(ct, u, k, bt, v, j, q, d)
      PROVE  HasTurn(o)'
  <2>1. Turn(bt, v, j, q, d)'
    BY <1>3 DEF Passes
  <2>2. CASE o = q
    BY <2>1, <2>2 DEF HasTurn
  <2>3. CASE o # q
    <3>1. ~ (at = ct /\ who = u /\ i = k)
      BY <1>1, <1>3, <2>3, TurnOfOne
    <3>2. Turn(at, who, i, o, duty)'
      BY <1>1, <1>3, <3>1 DEF Passes
    <3> QED
      BY <3>2 DEF HasTurn
  <2> QED
    BY <2>2, <2>3
<1> QED
  BY <1>2, <1>3

LEMMA GoesOnHandsOn ==
    ASSUME Keeps \/ \E ct, u, k, bt, v, j, q, d : HandsOn(ct, u, k, bt, v, j, q, d),
           UNCHANGED orders, PendingHasTurn
    PROVE  PendingHasTurn'
<1>1. \A o : HasTurn(o) => HasTurn(o)'
  BY HandedOn DEF HandsOn
<1> QED
  BY <1>1 DEF PendingHasTurn

(* A step that says nothing new. *)
LEMMA SaysSame ==
    ASSUME \A at, who, i : \A type \in Final : \A o :
              Says(at, who, i, type, o)' <=> Says(at, who, i, type, o),
           UNCHANGED <<inv, invOffset>>,
           SaidOnce, CancelledIsReturned,
           \A o \in Order : /\ \/ orders'[o].status = orders[o].status
                               \/ orders'[o].status = "pending" /\ orders[o].status = "none"
                            /\ reservations'[o].active = reservations[o].active
    PROVE  SaidOnce' /\ CancelledIsReturned'
<1>1. SaidOnce'
  <2>1. \A o \in Order, type \in Final :
            orders'[o].status = StatusOf(type) <=> orders[o].status = StatusOf(type)
    BY DEF Final, StatusOf
  <2> QED
    BY <2>1 DEF SaidOnce
<1>2. \A o : CancelComing(o) => CancelComing(o)'
  BY DEF CancelComing, Final
<1>3. CancelledIsReturned'
  BY <1>2 DEF CancelledIsReturned, HoldsNothing, Held
<1> QED
  BY <1>1, <1>3

-----------------------------------------------------------------------------
LEMMA CreateOrderLoses ==
    ASSUME TypeOK, NothingLost, NEW r \in Request, NEW o \in Order, NEW items \in Cart,
           CreateOrder(r, o, items), UNCHANGED <<inventoryVars, paymentVars>>
    PROVE  NothingLost'
<1> USE DEF NothingLost
<1>1. /\ orders[o].status = "none" /\ orders'[o].status = "pending"
      /\ \A q \in Order \ {o} : orders'[q] = orders[q]
      /\ UNCHANGED <<log, reservations, inv, invOffset>>
      /\ task[r].pc = "idle" /\ task'[r].pc = "publish" /\ task'[r].event.type = "order.created"
      /\ \A g \in Handler \ {r} : task'[g] = task[g]
  BY DEF CreateOrder, NewOrder, MakeEvent, Idle, busVars, inventoryVars, TypeOK, OrderTypeOK, Handler
<1>2. Begins("order-service", r, 0, o, "reserve")
  BY CreateOrderTurns
<1>3. HasTurn(o)'
  <2>1. Turn("order-service", r, 0, o, "reserve")'
    BY <1>2 DEF Begins
  <2> QED
    BY <2>1 DEF HasTurn
<1>4. PendingHasTurn'
  BY <1>1, <1>2, <1>3, HandedOn DEF PendingHasTurn
<1>5. \A at, who, i : \A type \in Final : \A q :
          Says(at, who, i, type, q)' <=> Says(at, who, i, type, q)
  BY <1>1 DEF Says, Final
<1> QED
  BY <1>1, <1>4, <1>5, SaysSame

LEMMA SagaReadLoses ==
    ASSUME TypeOK, NothingLost, NEW w \in SagaWorker, NEW t \in SagaTopic, NEW p \in Partition,
           SagaRead(w, t, p), UNCHANGED <<inventoryVars, paymentVars>>
    PROVE  NothingLost'
<1> USE DEF NothingLost
<1>1. /\ UNCHANGED <<log, orders, reservations, inv, invOffset>>
      /\ task[w].pc = "idle" /\ task'[w].pc # "publish"
      /\ \A g \in Handler \ {w} : task'[g] = task[g]
  BY DEF SagaRead, Handle, Idle, busVars, inventoryVars, TypeOK, OrderTypeOK, Handler
<1>2. PendingHasTurn'
  BY <1>1, SagaReadTurns, GoesOnHandsOn
<1>3. \A at, who, i : \A type \in Final : \A q :
          Says(at, who, i, type, q)' <=> Says(at, who, i, type, q)
  BY <1>1 DEF Says
<1> QED
  BY <1>1, <1>2, <1>3, SaysSame

(* The order is decided, and the event that says so is to be published. *)
LEMMA SagaEndLoses ==
    ASSUME TurnInv, NoRepeat, Stages, NothingLost,
           NEW h \in Handler, SagaConfirm(h) \/ SagaCancel(h),
           SagaConfirm(h) => h \in SagaWorker, UNCHANGED <<inventoryVars, paymentVars>>
    PROVE  NothingLost'
<1> USE DEF NothingLost
<1>1. PICK o \in Order :
         /\ o = task[h].orderId
         /\ Turn("order-service", h, 0, o, task[h].pc)
         /\ orders[o].status = "pending"
         /\ orders' = [orders EXCEPT ![o].status =
                              IF SagaConfirm(h) THEN "confirmed" ELSE "cancelled"]
  BY SagaEndMoves
<1>2. /\ orders'[o].status = IF SagaConfirm(h) THEN "confirmed" ELSE "cancelled"
      /\ \A q \in Order \ {o} : orders'[q] = orders[q]
  BY <1>1 DEF TurnInv, TypeOK, OrderTypeOK
<1>3. PICK last : last = IF SagaConfirm(h) THEN "order.confirmed" ELSE "order.cancelled"
  OBVIOUS
<1>4. /\ UNCHANGED <<log, reservations, inv, invOffset>>
      /\ \A g \in Handler \ {h} : task'[g] = task[g]
      /\ task[h].pc # "publish"
      /\ task'[h].pc = "publish" /\ task'[h].event.orderId = o /\ task'[h].event.type = last
  BY <1>1, <1>3
  DEF SagaConfirm, SagaCancel, MakeEvent, busVars, inventoryVars, TurnInv, TypeOK, OrderTypeOK
<1>5. PendingHasTurn'
  <2>1. Drops("order-service", h, 0)
    BY SagaEndTurns DEF TurnInv
  <2>2. ASSUME NEW q \in Order \ {o}, HasTurn(q)
        PROVE  HasTurn(q)'
    <3>1. PICK at, who, i, duty : Turn(at, who, i, q, duty)
      BY <2>2 DEF HasTurn
    <3>2. Turn(at, who, i, q, duty)'
      BY <1>1, <2>1, <2>2, <3>1, TurnOfOne DEF Drops
    <3> QED
      BY <3>2 DEF HasTurn
  <2> QED
    BY <1>2, <2>2 DEF PendingHasTurn
<1>6. \A at, who, i, type, q : Says(at, who, i, type, q)' <=>
          \/ Says(at, who, i, type, q)
          \/ at = "order-service" /\ who = h /\ i = 0 /\ type = last /\ q = o
  BY <1>4 DEF Says
<1>7. \A type \in Final : \A at, who, i : ~ Says(at, who, i, type, o)
  BY <1>1 DEF SaidOnce, Final, StatusOf
<1>8. SaidOnce'
  <2>1. last \in Final /\ StatusOf(last) = orders'[o].status
    BY <1>2, <1>3 DEF Final, StatusOf
  <2>2. \A type \in Final \ {last} : StatusOf(type) # orders'[o].status
    BY <1>2, <1>3 DEF Final, StatusOf
  <2> QED
    BY <1>2, <1>6, <1>7, <2>1, <2>2 DEF SaidOnce
<1>9. CancelledIsReturned'
  <2>1. \A q : CancelComing(q) => CancelComing(q)'
    BY <1>4, <1>6 DEF CancelComing
  <2>2. last = "order.cancelled" => CancelComing(o)'
    BY <1>4, <1>6 DEF CancelComing
  <2>3. orders'[o].status = "cancelled" => last = "order.cancelled"
    BY <1>2, <1>3
  <2> QED
    BY <1>2, <1>4, <2>1, <2>2, <2>3 DEF CancelledIsReturned, HoldsNothing, Held
<1> QED
  BY <1>5, <1>8, <1>9

(* An announcement goes from its handler to the topic. *)
LEMMA OrderPublishLoses ==
    ASSUME TurnInv, NoRepeat', NothingLost, NEW h \in Handler, OrderPublish(h),
           UNCHANGED <<inventoryVars, paymentVars>>
    PROVE  NothingLost'
<1> USE DEF NothingLost, TurnInv
<1>1. PICK e, q, k : /\ e = task[h].event /\ q = PartitionOf[e.orderId]
                     /\ k = Len(log["order.events"][q]) + 1
  OBVIOUS
<1>2. /\ UNCHANGED <<orders, reservations, inv, invOffset>>
      /\ task[h].pc = "publish" /\ task'[h] = Idle
      /\ \A g \in Handler \ {h} : task'[g] = task[g]
  BY DEF OrderPublish, NoRepeat, Fault, Idle, inventoryVars, TypeOK, OrderTypeOK, BusTypeOK
<1>3. e \in Event /\ q \in Partition /\ "order.events" \in Topic
  BY <1>1, <1>2, TaskFields, PartitionAssumption DEF TypeOK, Event, Topic
<1>4. PendingHasTurn'
  BY <1>2, OrderPublishTurns, GoesOnHandsOn
<1>5. \A p \in Partition :
         /\ DOMAIN log'["order.events"][p] =
                DOMAIN log["order.events"][p] \cup (IF p = q THEN {k} ELSE {})
         /\ \A i \in DOMAIN log["order.events"][p] :
                log'["order.events"][p][i] = log["order.events"][p][i]
  BY <1>1, <1>3, PublishAdds DEF OrderPublish
<1>6. k \notin DOMAIN log["order.events"][q] /\ log'["order.events"][q][k] = e
  <2>1. Publish("order.events", e)
    BY <1>1 DEF OrderPublish
  <2>2. q = PartitionOf[e.orderId] =>
           /\ Len(log["order.events"][q]) + 1 \notin DOMAIN log["order.events"][q]
           /\ log'["order.events"][q][Len(log["order.events"][q]) + 1] = e
    BY <1>3, <2>1, PublishAdds
  <2> QED
    BY <1>1, <2>2
<1>7. \A at, who, i, type, o : Says(at, who, i, type, o)' <=>
          \/ Says(at, who, i, type, o) /\ ~ (at = "order-service" /\ who = h /\ i = 0)
          \/ at = "order.events" /\ who = q /\ i = k /\ type = e.type /\ o = e.orderId
  <2>1. \A who, i, type, o : Says("order-service", who, i, type, o)' <=>
            Says("order-service", who, i, type, o) /\ ~ (who = h /\ i = 0)
    BY <1>2 DEF Says, Idle
  <2>2. \A who, i, type, o : Says("order.events", who, i, type, o)' <=>
            \/ Says("order.events", who, i, type, o)
            \/ who = q /\ i = k /\ type = e.type /\ o = e.orderId
    BY <1>3, <1>5, <1>6 DEF Says
  <2>3. \A at, who, i, type, o : at \notin {"order-service", "order.events"} =>
            ~ Says(at, who, i, type, o) /\ ~ Says(at, who, i, type, o)'
    BY DEF Says
  <2>4. "order-service" # "order.events"
    OBVIOUS
  <2> QED
    BY <2>1, <2>2, <2>3, <2>4
<1>8. \A type, o : Says("order-service", h, 0, type, o) <=> type = e.type /\ o = e.orderId
  BY <1>1, <1>2 DEF Says
<1>9. SaidOnce'
  <2>1. ASSUME NEW o \in Order, NEW type \in Final, ~ (type = e.type /\ o = e.orderId)
        PROVE  \A at, who, i : Says(at, who, i, type, o)' <=> Says(at, who, i, type, o)
    BY <1>7, <1>8, <2>1
  <2>2. ASSUME NEW o \in Order, NEW type \in Final, type = e.type /\ o = e.orderId
        PROVE  /\ orders[o].status = StatusOf(type)
               /\ \A at, who, i : Says(at, who, i, type, o)' <=>
                                      at = "order.events" /\ who = q /\ i = k
    BY <1>7, <1>8, <2>2 DEF SaidOnce
  <2> QED
    BY <1>2, <2>1, <2>2 DEF SaidOnce
<1>10. CancelledIsReturned'
  <2>1. invOffset[q] < k
    <3>1. /\ invOffset[q] \in Nat /\ invOffset[q] <= Len(log["order.events"][q])
          /\ Len(log["order.events"][q]) \in Nat
      BY <1>3, LogFacts DEF Offsets, TypeOK, InventoryTypeOK
    <3> QED
      BY <1>1, <3>1
  <2>2. ASSUME NEW o, CancelComing(o)
        PROVE  CancelComing(o)'
    <3>1. CASE \E w \in InvWorker : inv[w].pc = "release" /\ inv[w].event.orderId = o
      BY <1>2, <3>1 DEF CancelComing
    <3>2. CASE o = e.orderId /\ e.type = "order.cancelled"
      BY <1>2, <1>7, <2>1, <3>2 DEF CancelComing
    <3>3. ASSUME NEW at, NEW who, NEW i, Says(at, who, i, "order.cancelled", o),
                 at = "order.events" => invOffset[who] < i,
                 ~ (o = e.orderId /\ e.type = "order.cancelled")
          PROVE  CancelComing(o)'
      <4>1. Says(at, who, i, "order.cancelled", o)'
        BY <1>7, <1>8, <3>3
      <4> QED
        BY <1>2, <3>3, <4>1 DEF CancelComing
    <3> QED
      BY <2>2, <3>1, <3>2, <3>3 DEF CancelComing
  <2> QED
    BY <1>2, <2>2 DEF CancelledIsReturned, HoldsNothing, Held
<1> QED
  BY <1>4, <1>9, <1>10

LEMMA InventoryLoses ==
    ASSUME TurnInv, NoRepeat, NoRepeat', Stages, NothingLost, NEW w \in InvWorker, InvWorkerStep(w),
           faults' = faults, UNCHANGED <<orderVars, paymentVars>>
    PROVE  NothingLost'
<1> USE DEF NothingLost, TurnInv
<1>0. UNCHANGED <<orders, task>>
  BY DEF orderVars
<1>1. PICK e, o : e = inv[w].event /\ o = e.orderId
  OBVIOUS
<1>2. log'["order.events"] = log["order.events"] /\ \A v \in InvWorker \ {w} : inv'[v] = inv[v]
  <2>1. \A v \in InvWorker \ {w} : inv'[v] = inv[v]
    BY DEF InvWorkerStep, InvRead, InvReserve, InvRefuse, InvRelease, InvPublish, Report,
           TypeOK, InventoryTypeOK
  <2>2. UNCHANGED log \/ \E m : Publish("inventory.events", m)
    BY DEF InvWorkerStep, InvRead, InvReserve, InvRefuse, InvRelease, InvPublish, busVars
  <2>3. \A m : Publish("inventory.events", m) => log'["order.events"] = log["order.events"]
    BY DEF Publish, TypeOK, BusTypeOK, Topic
  <2> QED
    BY <2>1, <2>2, <2>3
<1>3. \A at, who, i, type, q : Says(at, who, i, type, q)' <=> Says(at, who, i, type, q)
  BY <1>0, <1>2 DEF Says
<1>4. SaidOnce'
  BY <1>0, <1>3 DEF SaidOnce
<1>5. CASE \E p \in Partition : InvRead(w, p)
  <2>1. PICK p \in Partition : InvRead(w, p)
    BY <1>5
  <2> DEFINE k == invOffset[p] + 1
  <2>2. UNCHANGED <<reservations, log>>
    BY <2>1 DEF InvRead, busVars
  <2>3. PendingHasTurn'
    BY <1>0, <2>1, InvReadTurns, GoesOnHandsOn
  <2>4. /\ inv[w].pc = "idle" /\ inv'[w] = InvHandle(log["order.events"][p][k])
        /\ invOffset' = [invOffset EXCEPT ![p] = k] /\ invOffset \in [Partition -> Nat]
    <3>1. inv \in [InvWorker -> InventoryTask] /\ invOffset \in [Partition -> Nat]
      BY DEF InventoryTypeOK, TypeOK
    <3> QED
      BY <2>1, <3>1 DEF InvRead, NextEvent, Idle
  <2>5. ASSUME NEW q, CancelComing(q)
        PROVE  CancelComing(q)'
    <3>1. CASE \E v \in InvWorker : inv[v].pc = "release" /\ inv[v].event.orderId = q
      BY <1>2, <2>4, <3>1 DEF CancelComing
    <3>2. ASSUME NEW at, NEW who, NEW i, Says(at, who, i, "order.cancelled", q),
                 at = "order.events" => invOffset[who] < i
          PROVE  CancelComing(q)'
      <4>1. CASE at = "order.events" /\ who = p /\ i = k
        <5>1. /\ log["order.events"][p][k].type = "order.cancelled"
              /\ log["order.events"][p][k].orderId = q
          BY <3>2, <4>1 DEF Says
        <5>2. inv'[w].pc = "release" /\ inv'[w].event.orderId = q
          BY <2>4, <5>1 DEF InvHandle
        <5> QED
          BY <5>2 DEF CancelComing
      <4>2. CASE ~ (at = "order.events" /\ who = p /\ i = k)
        <5>1. at = "order.events" => who \in Partition /\ i \in Nat
          BY <3>2, LogFacts DEF Says, Topic
        <5>2. at = "order.events" => invOffset'[who] < i
          BY <2>4, <3>2, <4>2, <5>1
        <5> QED
          BY <1>3, <3>2, <5>2 DEF CancelComing
      <4> QED
        BY <4>1, <4>2
    <3> QED
      BY <2>5, <3>1, <3>2 DEF CancelComing
  <2>6. CancelledIsReturned'
    BY <1>0, <2>2, <2>5 DEF CancelledIsReturned, HoldsNothing, Held
  <2> QED
    BY <1>4, <2>3, <2>6
<1>6. CASE ~ \E p \in Partition : InvRead(w, p)
  <2>1. UNCHANGED invOffset
    BY <1>6 DEF InvWorkerStep, InvReserve, InvRefuse, InvRelease, InvPublish
  <2>2. PendingHasTurn'
    <3>1. CASE InvReserve(w) \/ InvRefuse(w)
      BY <1>0, <3>1, InvReserveTurns, HandedOn DEF PendingHasTurn
    <3> QED
      BY <1>0, <1>6, <3>1, InvReleaseTurns, InvPublishTurns, GoesOnHandsOn DEF InvWorkerStep
  <2>3. ASSUME NEW q, CancelComing(q), ~ (inv[w].pc = "release" /\ o = q)
        PROVE  CancelComing(q)'
    BY <1>1, <1>2, <1>3, <2>1, <2>3 DEF CancelComing
  <2>4. CASE inv[w].pc = "release"
    <3>1. InvRelease(w)
      BY <1>6, <2>4 DEF InvWorkerStep, InvReserve, InvRefuse, InvPublish
    <3>2. /\ o \in Order /\ reservations'[o].active = NoUnits
          /\ \A q \in Order \ {o} : reservations'[q] = reservations[q]
      BY <1>1, <3>1, InvFields
      DEF InvRelease, ReleaseOrder, Event, TypeOK, InventoryTypeOK, LedgerTypeOK
    <3>3. CancelledIsReturned'
      BY <1>0, <2>3, <3>2 DEF CancelledIsReturned, HoldsNothing, Held
    <3> QED
      BY <1>4, <2>2, <3>3
  <2>5. CASE inv[w].pc # "release"
    <3>1. \A q \in Order : orders[q].status = "cancelled" => reservations'[q].active = reservations[q].active
      <4>1. CASE InvReserve(w)
        <5>1. orders[o].status = "pending" /\ o \in Order
          BY <1>1, <4>1, ReserveHolds DEF InvReserve
        <5>2. \A q \in Order \ {o} : reservations'[q] = reservations[q]
          BY <1>1, <4>1, <5>1
          DEF InvReserve, ReserveOrder, TypeOK, InventoryTypeOK, LedgerTypeOK
        <5> QED
          BY <5>1, <5>2
      <4>2. CASE InvRefuse(w) \/ InvPublish(w)
        BY <4>2 DEF InvRefuse, InvPublish
      <4> QED
        BY <1>6, <2>5, <4>1, <4>2 DEF InvWorkerStep, InvRelease
    <3>2. CancelledIsReturned'
      BY <1>0, <2>3, <2>5, <3>1 DEF CancelledIsReturned, HoldsNothing, Held
    <3> QED
      BY <1>4, <2>2, <3>2
  <2> QED
    BY <2>4, <2>5
<1> QED
  BY <1>5, <1>6

LEMMA PaymentLoses ==
    ASSUME TurnInv, NoRepeat', NothingLost, NEW w \in PayWorker, PayWorkerStep(w),
           UNCHANGED <<orderVars, inventoryVars>>
    PROVE  NothingLost'
<1> USE DEF NothingLost, TurnInv
<1>0. UNCHANGED <<orders, task, inv, invOffset, reservations>>
  BY DEF orderVars, inventoryVars
<1>1. log'["order.events"] = log["order.events"]
  BY DEF PayWorkerStep, PayRead, PayInsert, PayCharge, PayRecord, PayPublish, Publish, busVars,
         TypeOK, BusTypeOK, Topic
<1>2. \A at, who, i, type, q : Says(at, who, i, type, q)' <=> Says(at, who, i, type, q)
  BY <1>0, <1>1 DEF Says
<1>3. PendingHasTurn'
  <2>1. CASE PayCharge(w)
    BY <1>0, <2>1, PayChargeTurns, HandedOn DEF PendingHasTurn
  <2> QED
    BY <1>0, <2>1, PayReadTurns, PayRowTurns, PayPublishTurns, GoesOnHandsOn DEF PayWorkerStep
<1> QED
  BY <1>0, <1>2, <1>3, SaysSame

-----------------------------------------------------------------------------
AtomicInv == StageInv /\ (faults = 0 /\ Cancelling = {} => NothingLost)

LEMMA AtomicInvInit == Init => AtomicInv
<1> SUFFICES ASSUME Init PROVE AtomicInv
  OBVIOUS
<1>1. \A o \in Order : orders[o].status = "none"
  BY DEF Init, OrderInit, NoOrder
<1>2. \A at, who, i, type, o : ~ Says(at, who, i, type, o)
  BY DEF Init, BusInit, OrderInit, Idle, Topic, Says
<1>3. NothingLost
  BY <1>1, <1>2 DEF NothingLost, PendingHasTurn, SaidOnce, CancelledIsReturned, StatusOf
<1> QED
  BY <1>3, StageInvInit DEF AtomicInv

LEMMA AtomicInvStep == AtomicInv /\ [Next]_vars => AtomicInv'
<1> SUFFICES ASSUME AtomicInv, [Next]_vars, faults' = 0, Cancelling = {}
             PROVE  NothingLost'
  BY StageInvStep DEF AtomicInv
<1>1. TypeOK /\ TurnInv
  BY DEF AtomicInv, StageInv, TurnInv
<1>2. faults = 0 /\ faults' = faults /\ NoRepeat /\ NoRepeat'
  BY <1>1, FaultsGrow DEF NoRepeat, TypeOK, BusTypeOK
<1>3. NothingLost /\ Stages
  BY <1>2 DEF AtomicInv, StageInv, Undisturbed
<1>4. \A k : ~ Fault(k)
  BY <1>2 DEF Fault
<1>5. CASE OrderNext /\ UNCHANGED <<inventoryVars, paymentVars>>
  <2>1. ASSUME NEW h \in Handler, SagaConfirm(h), h \in SagaWorker
        PROVE  NothingLost'
    BY <1>1, <1>2, <1>3, <1>5, <2>1, SagaEndLoses
  <2>2. ASSUME NEW h \in Handler, SagaCancel(h)
        PROVE  NothingLost'
    BY <1>1, <1>2, <1>3, <1>5, <2>2, SagaEndLoses DEF SagaConfirm, SagaCancel
  <2>3. ASSUME NEW r \in Request, NEW o \in Order, NEW items \in Cart, CreateOrder(r, o, items)
        PROVE  NothingLost'
    BY <1>1, <1>3, <1>5, <2>3, CreateOrderLoses
  <2>4. ASSUME NEW w \in SagaWorker, NEW t \in SagaTopic, NEW p \in Partition, SagaRead(w, t, p)
        PROVE  NothingLost'
    BY <1>1, <1>3, <1>5, <2>4, SagaReadLoses
  <2>5. ASSUME NEW h \in Handler, OrderPublish(h)
        PROVE  NothingLost'
    BY <1>1, <1>2, <1>3, <1>5, <2>5, OrderPublishLoses
  <2>6. ~ \E h \in Handler : SagaError(h) \/ OrderStop(h)
    BY <1>4 DEF SagaError, OrderStop
  <2>7. ~ \E r \in Request, o \in Order : CancelOrder(r, o)
    BY DEF CancelOrder
  <2> QED
    BY <1>5, <2>1, <2>2, <2>3, <2>4, <2>5, <2>6, <2>7
    DEF OrderNext, SagaWorkerStep, RequestStep, Handler
<1>6. CASE InventoryNext /\ UNCHANGED <<orderVars, paymentVars>>
  <2>1. PICK w \in InvWorker : InvWorkerStep(w)
    BY <1>4, <1>6 DEF InventoryNext, InvFaultStep, InvReserveError, InvReleaseError, InvStop
  <2> QED
    BY <1>1, <1>2, <1>3, <1>6, <2>1, InventoryLoses
<1>7. CASE PaymentNext /\ UNCHANGED <<orderVars, inventoryVars>>
  <2>1. PICK w \in PayWorker : PayWorkerStep(w)
    BY <1>4, <1>7 DEF PaymentNext, PayInsertError, PayStop
  <2> QED
    BY <1>1, <1>2, <1>3, <1>7, <2>1, PaymentLoses
<1>8. CASE UNCHANGED vars
  <2>1. /\ UNCHANGED <<orders, task, inv, invOffset, reservations, log>>
        /\ Keeps
    BY <1>8 DEF Keeps, Turn, OrderTurn, InvTurn, PayTurn, EventTurn, Ahead,
                vars, busVars, orderVars, inventoryVars, paymentVars
  <2>2. PendingHasTurn'
    BY <1>3, <2>1, GoesOnHandsOn DEF NothingLost
  <2>3. \A at, who, i, type, q : Says(at, who, i, type, q)' <=> Says(at, who, i, type, q)
    BY <2>1 DEF Says
  <2> QED
    BY <1>3, <2>1, <2>2, <2>3, SaysSame DEF NothingLost
<1> QED
  BY <1>5, <1>6, <1>7, <1>8 DEF Next, Waiting

LEMMA AlwaysAtomicInv == Spec => []AtomicInv
BY AtomicInvInit, AtomicInvStep, PTL DEF Spec

(* At rest nobody is to act on any order, and every announcement is in its *)
(* topic and has been read.                                                *)
LEMMA AtRest ==
    ASSUME TypeOK, Quiescent
    PROVE  /\ \A o : ~ HasTurn(o)
           /\ \A o : ~ CancelComing(o)
           /\ \A at, who, i, type, o : Says(at, who, i, type, o) => at = "order.events"
<1>1. /\ \A h \in Handler : task[h].pc = "idle"
      /\ \A w \in InvWorker : inv[w].pc = "idle"
      /\ \A w \in PayWorker : pay[w].pc = "idle"
  BY DEF Quiescent, Idle
<1>2. ASSUME NEW t \in Topic, NEW p \in Partition, NEW i \in DOMAIN log[t][p]
      PROVE  /\ t \in SagaTopic => ~ (ordOffset[t][p] < i)
             /\ t = "order.events" => ~ (invOffset[p] < i)
             /\ t = "inventory.events" => ~ (payOffset[p] < i)
  <2>1. i \in Nat /\ i <= Len(log[t][p]) /\ Len(log[t][p]) \in Nat
    BY LogFacts
  <2>2. /\ ordOffset \in [SagaTopic -> [Partition -> Nat]]
        /\ invOffset[p] \in Nat /\ payOffset[p] \in Nat
    BY DEF TypeOK, OrderTypeOK, InventoryTypeOK, PaymentTypeOK
  <2>3. /\ t \in SagaTopic => ~ (ordOffset[t][p] < Len(log[t][p]))
        /\ t = "order.events" => ~ (invOffset[p] < Len(log[t][p]))
        /\ t = "inventory.events" => ~ (payOffset[p] < Len(log[t][p]))
    BY DEF Quiescent, HasNext
  <2>4. \A m, n, k \in Nat : k <= n /\ ~ (m < n) => ~ (m < k)
    OBVIOUS
  <2>5. t \in SagaTopic => ordOffset[t][p] \in Nat
    BY <2>2
  <2> QED
    BY <2>1, <2>2, <2>3, <2>4, <2>5
<1>3. \A at, who, i, o, duty : ~ Turn(at, who, i, o, duty)
  BY <1>1, <1>2 DEF Turn, OrderTurn, InvTurn, PayTurn, EventTurn, Ahead
<1>4. \A at, who, i, type, o : Says(at, who, i, type, o) => at = "order.events"
  BY <1>1 DEF Says
<1>5. \A o : ~ CancelComing(o)
  BY <1>1, <1>2, <1>4 DEF CancelComing, Says, Topic
<1> QED
  BY <1>3, <1>4, <1>5 DEF HasTurn

(* The saga is all or nothing if no customer cancels (saga.go:8-14): when  *)
(* nothing is left to do and nothing has failed, a confirmed order holds   *)
(* its stock and was charged its total, once; any other order is           *)
(* cancelled, holds no stock and was not charged.                          *)
THEOREM SagaIsAtomic ==
    ASSUME Cancelling = {}
    PROVE  Spec => []SagaAtomicity
<1>1. AtomicInv => SagaAtomicity
  <2> SUFFICES ASSUME AtomicInv, Quiescent, faults = 0, NEW o \in Order
               PROVE  /\ orders[o].status = "confirmed" =>
                              HoldsItsItems(o) /\ charges[o] = <<orders[o].total>>
                      /\ orders[o].status \in {"none", "cancelled"} =>
                              HoldsNothing(o) /\ charges[o] = <<>>
                      /\ orders[o].status # "pending"
    BY DEF SagaAtomicity, AtomicInv, StageInv, TurnInv, TypeOK, OrderTypeOK
  <2>1. NothingLost /\ Stages /\ TypeOK /\ Provenance /\ NoDoubleCharge
    BY DEF AtomicInv, StageInv, Undisturbed, NoRepeat, TurnInv, OneSaga
  <2>2. orders[o].status # "pending"
    BY <2>1, AtRest DEF NothingLost, PendingHasTurn
  <2>3. ASSUME orders[o].status = "confirmed"
        PROVE  charges[o] = <<orders[o].total>>
    <3>1. charges[o] \in Seq(Nat) /\ charges[o] # <<>> /\ Len(charges[o]) <= 1
      BY <2>1, <2>3 DEF Provenance, ConfirmedWasPaid, NoDoubleCharge, TypeOK, PaymentTypeOK
    <3>2. Len(charges[o]) = 1 /\ DOMAIN charges[o] = 1..1
      <4>1. Len(charges[o]) \in Nat /\ DOMAIN charges[o] = 1..Len(charges[o])
        BY <3>1, LenProperties
      <4>2. Len(charges[o]) # 0
        BY <3>1, EmptySeq
      <4>3. \A n \in Nat : n <= 1 /\ n # 0 => n = 1
        OBVIOUS
      <4>4. Len(charges[o]) = 1
        BY <3>1, <4>1, <4>2, <4>3
      <4> QED
        BY <4>1, <4>4
    <3>3. charges[o][1] = orders[o].total
      BY <2>1, <3>2 DEF Provenance, ChargedAmountIsTotal
    <3> QED
      BY <3>1, <3>2, <3>3
  <2>4. orders[o].status \in {"none", "cancelled"} => HoldsNothing(o) /\ charges[o] = <<>>
    BY <2>1, AtRest
    DEF NothingLost, CancelledIsReturned, Stages, PlacedHasItems, EndsWell,
        Provenance, ChargesVouched
  <2> QED
    BY <2>1, <2>2, <2>3, <2>4 DEF Stages, EndsWell
<1> QED
  BY <1>1, AlwaysAtomicInv, PTL

(* And when it is, order.events has announced how each order ended, once,  *)
(* and not the other outcome (saga.go:43-71).                              *)
THEOREM OutcomeIsAnnounced ==
    ASSUME Cancelling = {}
    PROVE  Spec => []OutcomeAnnounced
<1>1. AtomicInv => OutcomeAnnounced
  <2> SUFFICES ASSUME AtomicInv, Quiescent, faults = 0, NEW o \in Order, NEW type \in Final
               PROVE  Cardinality(Published("order.events", type, o)) =
                          IF orders[o].status = StatusOf(type) THEN 1 ELSE 0
    BY DEF OutcomeAnnounced, Final, StatusOf
  <2>1. SaidOnce /\ TypeOK
    BY DEF AtomicInv, NothingLost, StageInv, TurnInv
  <2>2. \A p, i : <<p, i>> \in Published("order.events", type, o) <=>
                      Says("order.events", p, i, type, o)
    BY DEF Published, Says
  <2>3. \A x \in Published("order.events", type, o) : x = <<x[1], x[2]>>
    BY DEF Published
  <2>4. CASE orders[o].status = StatusOf(type)
    <3>1. PICK p, i : Says("order.events", p, i, type, o)
      BY <2>1, <2>4, AtRest DEF SaidOnce
    <3>2. Published("order.events", type, o) = {<<p, i>>}
      BY <2>1, <2>2, <2>3, <3>1 DEF SaidOnce
    <3> QED
      BY <2>4, <3>2, FS_Singleton
  <2>5. CASE orders[o].status # StatusOf(type)
    <3>1. Published("order.events", type, o) = {}
      BY <2>1, <2>2, <2>3, <2>5 DEF SaidOnce
    <3> QED
      BY <2>5, <3>1, FS_EmptySet
  <2> QED
    BY <2>4, <2>5
<1> QED
  BY <1>1, AlwaysAtomicInv, PTL

-----------------------------------------------------------------------------
(* Each order is billed once, too, and the answer to its charge is given   *)
(* once; notification-service tells of it (NotifyProofs).                  *)

(* Where the order's charge is, once its row is inserted: with a handler,  *)
(* or answered in the topic.                                               *)
Bills(at, who, i, o) ==
    \/ /\ at = "payment-service" /\ who \in PayWorker /\ i = 0
       /\ pay[who].pc \in {"charge", "record", "publish"}
       /\ pay[who].event.orderId = o
    \/ /\ at = "payment.events" /\ who \in Partition /\ i \in DOMAIN log["payment.events"][who]
       /\ log["payment.events"][who][i].orderId = o

(* The order's turn is one before that. *)
Unbilled(at, who, i, o) ==
    /\ \E duty \in {"reserve", "charge"} : Turn(at, who, i, o, duty)
    /\ at = "payment-service" => pay[who].pc # "charge"

(* If nothing fails there is one such place for every order with rows in   *)
(* payments, and the answer in the topic is what has come of it.           *)
BilledOnce ==
    \A o \in Order :
        /\ payments[o] # <<>> <=> \E at, who, i : Bills(at, who, i, o)
        /\ \A at, bt, u, v, i, j :
              Bills(at, u, i, o) /\ Bills(bt, v, j, o) => at = bt /\ u = v /\ i = j
        /\ \A at, who, i : Unbilled(at, who, i, o) => payments[o] = <<>>
        /\ \A p, i : Bills("payment.events", p, i, o) =>
              (log["payment.events"][p][i].type = "payment.confirmed" <=> charges[o] # <<>>)
        /\ charges[o] # <<>> => payments[o] # <<>>

(* What is not yet billed was not. *)
LEMMA UnbilledBefore ==
    ASSUME GoesOn, UNCHANGED payments,
           \A w \in PayWorker : pay[w].pc = "charge" => pay'[w] = pay[w],
           NEW o, \A at, who, i : Unbilled(at, who, i, o) => payments[o] = <<>>,
           NEW at, NEW who, NEW i, Unbilled(at, who, i, o)'
    PROVE  payments'[o] = <<>>
<1>1. PICK duty \in {"reserve", "charge"} : Turn(at, who, i, o, duty)'
  BY DEF Unbilled
<1>2. \A v : at = "payment-service" /\ pay[v].pc = "charge" /\ v \in PayWorker => v # who
  BY DEF Unbilled
<1>3. CASE Turn(at, who, i, o, duty)
  <2>1. at = "payment-service" => who \in PayWorker
    BY <1>3 DEF Turn, Topic
  <2> QED
    BY <1>2, <1>3, <2>1 DEF Unbilled
<1>4. ASSUME NEW ct, NEW u, NEW k, NEW bt, NEW v, NEW j, NEW q, NEW d,
             HandsOn(ct, u, k, bt, v, j, q, d), ~ Turn(at, who, i, o, duty)
      PROVE  payments'[o] = <<>>
  <2>1. at = bt /\ who = v /\ i = j /\ o = q /\ duty = d
    BY <1>1, <1>4 DEF HandsOn, Passes
  <2>2. Turn(ct, u, k, o, duty)
    BY <1>4, <2>1 DEF HandsOn
  <2>3. CASE ct = "payment-service" /\ pay[u].pc = "charge"
    <3>1. u \in PayWorker
      BY <2>2, <2>3 DEF Turn, Topic
    <3>2. pay'[u] = pay[u]
      BY <2>3, <3>1
    <3>3. Turn(ct, u, k, o, duty)'
      BY <2>2, <2>3, <3>2 DEF Turn, PayTurn, Topic
    <3>4. ct = at /\ u = who
      BY <1>4, <2>1, <3>3 DEF HandsOn, Passes
    <3> QED
      BY <1>2, <2>3, <3>1, <3>4
  <2>4. CASE ~ (ct = "payment-service" /\ pay[u].pc = "charge")
    BY <2>2, <2>4 DEF Unbilled
  <2> QED
    BY <2>3, <2>4
<1> QED
  BY <1>1, <1>3, <1>4 DEF GoesOn, Keeps, Drops

(* A step that is nobody's business but the others'. *)
LEMMA BilledAside ==
    ASSUME BilledOnce, UNCHANGED <<payments, charges>>,
           log'["payment.events"] = log["payment.events"],
           \A at, who, i, o : Bills(at, who, i, o)' <=> Bills(at, who, i, o),
           \A o \in Order : \A at, who, i : Unbilled(at, who, i, o)' => payments'[o] = <<>>
    PROVE  BilledOnce'
BY DEF BilledOnce

LEMMA OrderBills ==
    ASSUME TurnInv, BilledOnce, OrderNext, faults' = 0, faults = 0,
           UNCHANGED <<inventoryVars, paymentVars>>
    PROVE  BilledOnce'
<1> USE DEF TurnInv
<1>0. /\ UNCHANGED <<payments, charges, pay>>
      /\ \A k : ~ Fault(k)
      /\ NoRepeat'
  BY DEF paymentVars, Fault, NoRepeat
<1>1. log'["payment.events"] = log["payment.events"]
  <2>1. UNCHANGED log \/ \E m : Publish("order.events", m)
    BY DEF OrderNext, SagaWorkerStep, RequestStep, CreateOrder, CancelOrder, SagaRead, SagaConfirm,
           SagaCancel, SagaError, OrderStop, OrderPublish, busVars, Handler
  <2>2. \A m : Publish("order.events", m) => log'["payment.events"] = log["payment.events"]
    BY DEF Publish, TypeOK, BusTypeOK, Topic
  <2> QED
    BY <2>1, <2>2
<1>2. \A at, who, i, o : Bills(at, who, i, o)' <=> Bills(at, who, i, o)
  BY <1>0, <1>1 DEF Bills
<1>3. ASSUME NEW r \in Request, NEW q \in Order, NEW items \in Cart, CreateOrder(r, q, items),
             NEW o \in Order, NEW at, NEW who, NEW i, Unbilled(at, who, i, o)'
      PROVE  payments'[o] = <<>>
  <2>1. Begins("order-service", r, 0, q, "reserve") /\ orders[q].status = "none"
    BY <1>3, CreateOrderTurns DEF CreateOrder
  <2>2. CASE Unbilled(at, who, i, o)
    BY <1>0, <2>2 DEF BilledOnce
  <2>3. CASE ~ Unbilled(at, who, i, o)
    <3>1. o = q
      BY <1>0, <1>3, <2>1, <2>3 DEF Unbilled, Begins
    <3>2. ASSUME NEW bt, NEW v, NEW j, Bills(bt, v, j, o)
          PROVE  FALSE
      <4>1. CASE bt = "payment-service"
        <5>1. v \in PayWorker /\ pay[v].pc # "idle" /\ pay[v].event.orderId = o
          BY <3>2, <4>1 DEF Bills
        <5> QED
          BY <2>1, <3>1, <5>1 DEF Provenance, PayVouched, Vouched
      <4>2. CASE bt # "payment-service"
        <5>1. /\ v \in Partition /\ j \in DOMAIN log["payment.events"][v]
              /\ log["payment.events"][v][j].orderId = o
          BY <3>2, <4>2 DEF Bills
        <5>2. Vouched(log["payment.events"][v][j])
          BY <5>1 DEF Provenance, LogVouched, Topic
        <5>3. orders[o].status # "none"
          BY <5>1, <5>2 DEF Vouched
        <5> QED
          BY <2>1, <3>1, <5>3
      <4> QED
        BY <4>1, <4>2
    <3> QED
      BY <1>0, <3>2 DEF BilledOnce
  <2> QED
    BY <2>2, <2>3
<1>4. ASSUME GoesOn, NEW o \in Order, NEW at, NEW who, NEW i, Unbilled(at, who, i, o)'
      PROVE  payments'[o] = <<>>
  BY <1>0, <1>4, UnbilledBefore DEF BilledOnce
<1>5. ASSUME NEW h \in Handler, SagaConfirm(h), h \in SagaWorker
      PROVE  GoesOn
  BY <1>5, SagaEndTurns DEF GoesOn
<1>6. ASSUME NEW h \in Handler, SagaCancel(h)
      PROVE  GoesOn
  BY <1>6, SagaEndTurns DEF GoesOn, SagaConfirm, SagaCancel
<1>7. ASSUME NEW h \in Handler, OrderPublish(h)
      PROVE  GoesOn
  BY <1>0, <1>7, OrderPublishTurns DEF GoesOn
<1>8. ASSUME NEW w \in SagaWorker, NEW t \in SagaTopic, NEW p \in Partition, SagaRead(w, t, p)
      PROVE  GoesOn
  BY <1>8, SagaReadTurns DEF GoesOn
<1>9. ASSUME NEW r \in Request, NEW o \in Order, CancelOrder(r, o)
      PROVE  GoesOn
  BY <1>9, CancelOrderTurns DEF GoesOn
<1>10. ~ \E h \in Handler : SagaError(h) \/ OrderStop(h)
  BY <1>0 DEF SagaError, OrderStop
<1>11. GoesOn \/ \E r \in Request, q \in Order, items \in Cart : CreateOrder(r, q, items)
  BY <1>5, <1>6, <1>7, <1>8, <1>9, <1>10
  DEF OrderNext, SagaWorkerStep, RequestStep, Handler
<1>12. \A o \in Order : \A at, who, i : Unbilled(at, who, i, o)' => payments'[o] = <<>>
  BY <1>3, <1>4, <1>11
<1> QED
  BY <1>0, <1>1, <1>2, <1>12, BilledAside

LEMMA InventoryBills ==
    ASSUME TurnInv, BilledOnce, InventoryNext, faults' = 0, faults = 0,
           UNCHANGED <<orderVars, paymentVars>>
    PROVE  BilledOnce'
<1> USE DEF TurnInv
<1>0. /\ UNCHANGED <<payments, charges, pay>>
      /\ NoRepeat'
  BY DEF paymentVars, NoRepeat
<1>1. PICK w \in InvWorker : InvWorkerStep(w) \/ InvFaultStep(w)
  BY DEF InventoryNext
<1>2. log'["payment.events"] = log["payment.events"]
  <2>1. UNCHANGED log \/ \E m : Publish("inventory.events", m)
    BY <1>1 DEF InvWorkerStep, InvFaultStep, InvRead, InvReserve, InvRefuse, InvReserveError,
                InvRelease, InvReleaseError, InvPublish, InvStop, busVars
  <2>2. \A m : Publish("inventory.events", m) => log'["payment.events"] = log["payment.events"]
    BY DEF Publish, TypeOK, BusTypeOK, Topic
  <2> QED
    BY <2>1, <2>2
<1>3. \A at, who, i, o : Bills(at, who, i, o)' <=> Bills(at, who, i, o)
  BY <1>0, <1>2 DEF Bills
<1>4. ASSUME NEW o \in Order, NEW at, NEW who, NEW i, Unbilled(at, who, i, o)'
      PROVE  payments'[o] = <<>>
  <2>1. CASE InvReserve(w) \/ InvRefuse(w) \/ InvReserveError(w)
    <3>1. PICK q, d : /\ q = inv[w].event.orderId
                      /\ d = IF InvReserve(w) THEN "charge" ELSE "cancel"
      OBVIOUS
    <3>2. /\ Turn("inventory-service", w, 0, q, "reserve")
          /\ Passes("inventory-service", w, 0, "inventory-service", w, 0, q, d)
      BY <2>1, <3>1, InvReserveTurns
    <3>3. CASE o = q
      BY <1>0, <3>2, <3>3 DEF BilledOnce, Unbilled
    <3>4. CASE o # q
      BY <1>0, <1>4, <3>2, <3>4 DEF BilledOnce, Unbilled, Passes
    <3> QED
      BY <3>3, <3>4
  <2>2. CASE ~ (InvReserve(w) \/ InvRefuse(w) \/ InvReserveError(w))
    <3>1. GoesOn
      BY <1>0, <1>1, <2>2, InvReadTurns, InvReleaseTurns, InvPublishTurns, InvFaultTurns
      DEF GoesOn, InvWorkerStep, InvFaultStep
    <3> QED
      BY <1>0, <1>4, <3>1, UnbilledBefore DEF BilledOnce
  <2> QED
    BY <2>1, <2>2
<1> QED
  BY <1>0, <1>2, <1>3, <1>4, BilledAside

(* The row inserted: from here on the order is billed. *)
LEMMA InsertBills ==
    ASSUME TurnInv, OneTurn, BilledOnce, NEW w \in PayWorker, PayInsert(w),
           UNCHANGED <<orderVars, inventoryVars>>
    PROVE  BilledOnce'
<1> USE DEF TurnInv
<1>1. PICK e, o : e = pay[w].event /\ o = e.orderId
  OBVIOUS
<1>2. /\ pay[w].pc = "insert" /\ e.type = "inventory.reserved" /\ o \in Order
  BY <1>1, PayFields DEF PayInsert, Provenance, PayVouched, Event
<1>3. /\ \A v \in PayWorker \ {w} : pay'[v] = pay[v]
      /\ pay'[w].pc = "charge" /\ pay'[w].event = e
      /\ UNCHANGED <<log, charges>>
  BY <1>1 DEF PayInsert, TypeOK, PaymentTypeOK, busVars
<1>4. Keeps /\ Turn("payment-service", w, 0, o, "charge")
  BY <1>1, <1>2, PayRowTurns DEF Turn, PayTurn, Calls, Duty
<1>5. payments[o] = <<>> /\ \A at, who, i : ~ Bills(at, who, i, o)
  <2>1. Unbilled("payment-service", w, 0, o)
    BY <1>2, <1>4 DEF Unbilled
  <2> QED
    BY <1>2, <2>1 DEF BilledOnce
<1>6. payments'[o] # <<>> /\ \A q \in Order \ {o} : payments'[q] = payments[q]
  <2>1. PICK row : row = [amount |-> e.total, status |-> "pending"]
    OBVIOUS
  <2>2. payments' = [payments EXCEPT ![o] = Append(@, row)]
    BY <1>1, <2>1 DEF PayInsert
  <2>3. payments'[o] = Append(<<>>, row) /\ Append(<<>>, row) # <<>>
    BY <1>2, <1>5, <2>2 DEF TypeOK, PaymentTypeOK
  <2> QED
    BY <2>2, <2>3 DEF TypeOK, PaymentTypeOK
<1>7. \A at, who, i, q : Bills(at, who, i, q)' <=>
          \/ Bills(at, who, i, q)
          \/ at = "payment-service" /\ who = w /\ i = 0 /\ q = o
  BY <1>1, <1>2, <1>3 DEF Bills
<1>8. ASSUME NEW q \in Order, NEW at, NEW who, NEW i, Unbilled(at, who, i, q)'
      PROVE  payments'[q] = <<>>
  <2>1. PICK duty \in {"reserve", "charge"} : Turn(at, who, i, q, duty)
    BY <1>4, <1>8 DEF Unbilled, Keeps
  <2>2. ~ (at = "payment-service" /\ who = w)
    BY <1>3, <1>8 DEF Unbilled
  <2>3. q # o
    BY <1>4, <2>1, <2>2, OnlyTurn
  <2>4. at = "payment-service" => who \in PayWorker \ {w}
    BY <2>1, <2>2 DEF Turn, Topic
  <2>5. Unbilled(at, who, i, q)
    BY <1>3, <1>8, <2>1, <2>4 DEF Unbilled
  <2> QED
    BY <1>6, <2>3, <2>5 DEF BilledOnce
<1>9. charges[o] = <<>>
  BY <1>2, <1>5 DEF BilledOnce
<1> QED
  BY <1>2, <1>3, <1>5, <1>6, <1>7, <1>8, <1>9 DEF BilledOnce

(* The card charged or declined, for the row that is there. *)
LEMMA ChargeBills ==
    ASSUME TurnInv, OneTurn, BilledOnce, NEW w \in PayWorker, PayCharge(w),
           UNCHANGED <<orderVars, inventoryVars>>
    PROVE  BilledOnce'
<1> USE DEF TurnInv
<1>1. PICK e, o, d : /\ e = pay[w].event /\ o = e.orderId
                     /\ d = IF e.total <= DeclineOver THEN "confirm" ELSE "cancel"
  OBVIOUS
<1>2. pay[w].pc = "charge" /\ o \in Order
  BY <1>1, PayFields DEF PayCharge, Event
<1>3. /\ \A v \in PayWorker \ {w} : pay'[v] = pay[v]
      /\ pay'[w].pc = "record" /\ pay'[w].event = e
      /\ \A q \in Order \ {o} : charges'[q] = charges[q]
      /\ UNCHANGED <<log, payments>>
  BY <1>1, <1>2 DEF PayCharge, TypeOK, PaymentTypeOK, busVars
<1>4. Passes("payment-service", w, 0, "payment-service", w, 0, o, d)
  BY <1>1, PayChargeTurns
<1>5. Bills("payment-service", w, 0, o)
  BY <1>1, <1>2 DEF Bills
<1>6. payments[o] # <<>> /\ \A p, i : ~ Bills("payment.events", p, i, o)
  BY <1>2, <1>5 DEF BilledOnce
<1>7. \A at, who, i, q : Bills(at, who, i, q)' <=> Bills(at, who, i, q)
  BY <1>1, <1>2, <1>3 DEF Bills
<1>8. ASSUME NEW q \in Order, NEW at, NEW who, NEW i, Unbilled(at, who, i, q)'
      PROVE  payments'[q] = <<>>
  <2>1. PICK duty \in {"reserve", "charge"} : Turn(at, who, i, q, duty)'
    BY <1>8 DEF Unbilled
  <2>2. duty # d
    BY <1>1, <2>1
  <2>3. Turn(at, who, i, q, duty) /\ ~ (at = "payment-service" /\ who = w /\ i = 0)
    BY <1>4, <2>1, <2>2 DEF Passes
  <2>4. at = "payment-service" => who \in PayWorker \ {w}
    BY <2>3 DEF Turn, Topic
  <2>5. Unbilled(at, who, i, q)
    BY <1>3, <1>8, <2>3, <2>4 DEF Unbilled
  <2> QED
    BY <1>3, <2>5 DEF BilledOnce
<1> QED
  BY <1>3, <1>6, <1>7, <1>8 DEF BilledOnce

(* The row updated: an order has rows if it had. *)
LEMMA RecordBills ==
    ASSUME TurnInv, TypeOK', BilledOnce, NEW w \in PayWorker, PayRecord(w), faults' = 0, faults = 0,
           UNCHANGED <<orderVars, inventoryVars>>
    PROVE  BilledOnce'
<1> USE DEF TurnInv
<1>1. PICK o : o = pay[w].event.orderId
  OBVIOUS
<1>2. /\ pay[w].pc = "record" /\ pay'[w].pc = "publish" /\ pay'[w].event.orderId = o
      /\ \A v \in PayWorker \ {w} : pay'[v] = pay[v]
      /\ UNCHANGED <<log, charges>>
  BY <1>1 DEF PayRecord, Outcome, MakeEvent, TypeOK, PaymentTypeOK
<1>3. Keeps
  BY PayRowTurns
<1>4. payments' = [payments EXCEPT ![o][pay[w].row].status = pay[w].status]
  BY <1>1 DEF PayRecord, Fault
<1>5. \A q \in Order : payments'[q] # <<>> <=> payments[q] # <<>>
  <2> SUFFICES ASSUME NEW q \in Order PROVE payments'[q] # <<>> <=> payments[q] # <<>>
    OBVIOUS
  <2>1. DOMAIN payments'[q] = DOMAIN payments[q]
    BY <1>4 DEF TypeOK, PaymentTypeOK
  <2>2. payments[q] \in Seq(PaymentRow) /\ payments'[q] \in Seq(PaymentRow)
    BY DEF TypeOK, PaymentTypeOK
  <2>3. \A s \in Seq(PaymentRow) : s = <<>> <=> DOMAIN s = {}
    BY EmptySeq, LenProperties
  <2> QED
    BY <2>1, <2>2, <2>3
<1>6. \A at, who, i, q : Bills(at, who, i, q)' <=> Bills(at, who, i, q)
  BY <1>1, <1>2 DEF Bills
<1>7. \A at, who, i, q : Unbilled(at, who, i, q)' => Unbilled(at, who, i, q)
  <2> SUFFICES ASSUME NEW at, NEW who, NEW i, NEW q, Unbilled(at, who, i, q)'
               PROVE  Unbilled(at, who, i, q)
    OBVIOUS
  <2>1. PICK duty \in {"reserve", "charge"} : Turn(at, who, i, q, duty)
    BY <1>3 DEF Unbilled, Keeps
  <2>2. at = "payment-service" => who \in PayWorker
    BY <2>1 DEF Turn, Topic
  <2> QED
    BY <1>2, <2>1, <2>2 DEF Unbilled
<1> QED
  BY <1>2, <1>5, <1>6, <1>7 DEF BilledOnce

(* The answer goes from its handler to the topic. *)
LEMMA AnswerBills ==
    ASSUME TurnInv, TurnFits, BilledOnce, NEW w \in PayWorker, PayPublish(w),
           faults' = 0, faults = 0, UNCHANGED <<orderVars, inventoryVars>>
    PROVE  BilledOnce'
<1> USE DEF TurnInv
<1>1. PICK e, o, p, k : /\ e = pay[w].event /\ o = e.orderId /\ p = PartitionOf[o]
                        /\ k = Len(log["payment.events"][p]) + 1
  OBVIOUS
<1>2. /\ pay[w].pc = "publish" /\ pay'[w] = Idle
      /\ \A v \in PayWorker \ {w} : pay'[v] = pay[v]
      /\ UNCHANGED <<payments, charges>> /\ NoRepeat'
      /\ Publish("payment.events", e)
  BY <1>1 DEF PayPublish, Fault, NoRepeat, TypeOK, PaymentTypeOK
<1>3. /\ e \in Event /\ o \in Order /\ p \in Partition /\ "payment.events" \in Topic
      /\ e.type \in {"payment.confirmed", "payment.failed"}
  BY <1>1, <1>2, PayFields, PartitionAssumption DEF Event, Topic, Outcomes
<1>4. \A q \in Partition :
         /\ DOMAIN log'["payment.events"][q] =
                DOMAIN log["payment.events"][q] \cup (IF q = p THEN {k} ELSE {})
         /\ \A i \in DOMAIN log["payment.events"][q] :
                log'["payment.events"][q][i] = log["payment.events"][q][i]
  BY <1>1, <1>2, <1>3, PublishAdds
<1>5. k \notin DOMAIN log["payment.events"][p] /\ log'["payment.events"][p][k] = e
  <2>1. p = PartitionOf[e.orderId] =>
           /\ Len(log["payment.events"][p]) + 1 \notin DOMAIN log["payment.events"][p]
           /\ log'["payment.events"][p][Len(log["payment.events"][p]) + 1] = e
    BY <1>2, <1>3, PublishAdds
  <2> QED
    BY <1>1, <2>1
<1>6. \A at, who, i, q : Bills(at, who, i, q)' <=>
          \/ Bills(at, who, i, q) /\ ~ (at = "payment-service" /\ who = w /\ i = 0)
          \/ at = "payment.events" /\ who = p /\ i = k /\ q = o
  <2>1. \A who, i, q : Bills("payment-service", who, i, q)' <=>
            Bills("payment-service", who, i, q) /\ ~ (who = w /\ i = 0)
    BY <1>2 DEF Bills, Idle
  <2>2. \A who, i, q : Bills("payment.events", who, i, q)' <=>
            \/ Bills("payment.events", who, i, q)
            \/ who = p /\ i = k /\ q = o
    <3> SUFFICES ASSUME NEW who, NEW i, NEW q
                 PROVE  Bills("payment.events", who, i, q)' <=>
                            \/ Bills("payment.events", who, i, q)
                            \/ who = p /\ i = k /\ q = o
      OBVIOUS
    <3>1. CASE who = p /\ i = k
      <4>1. k \in DOMAIN log'["payment.events"][p] /\ e.orderId = o
        BY <1>1, <1>3, <1>4
      <4> QED
        BY <1>3, <1>5, <3>1, <4>1 DEF Bills
    <3>2. CASE ~ (who = p /\ i = k)
      <4>1. ASSUME who \in Partition
            PROVE  i \in DOMAIN log'["payment.events"][who] <=> i \in DOMAIN log["payment.events"][who]
        BY <1>4, <3>2, <4>1
      <4> QED
        BY <1>4, <3>2, <4>1 DEF Bills
    <3> QED
      BY <3>1, <3>2
  <2>3. \A at, who, i, q : at \notin {"payment-service", "payment.events"} =>
            ~ Bills(at, who, i, q) /\ ~ Bills(at, who, i, q)'
    BY DEF Bills
  <2>4. "payment-service" # "payment.events"
    OBVIOUS
  <2> QED
    BY <2>1, <2>2, <2>3, <2>4
<1>7. \A q : Bills("payment-service", w, 0, q) <=> q = o
  BY <1>1, <1>2 DEF Bills
<1>8. GoesOn
  BY <1>2, PayPublishTurns DEF GoesOn
<1>9. \A q \in Order : \A at, who, i : Unbilled(at, who, i, q)' => payments'[q] = <<>>
  <2>1. \A v \in PayWorker : pay[v].pc = "charge" => pay'[v] = pay[v]
    BY <1>2
  <2> QED
    BY <1>2, <1>8, <2>1, UnbilledBefore DEF BilledOnce
<1>10. e.type = "payment.confirmed" <=> charges[o] # <<>>
  <2>1. Turn("payment-service", w, 0, o, Calls(e))
    BY <1>1, <1>2, <1>3 DEF Turn, PayTurn, Calls, Duty
  <2>2. Calls(e) = "confirm" <=> charges[o] # <<>>
    BY <2>1, TurnIsOf DEF TurnFits
  <2> QED
    BY <1>3, <2>2 DEF Calls
<1>11. ASSUME NEW q \in Order
       PROVE  \A r, i : Bills("payment.events", r, i, q)' =>
                (log'["payment.events"][r][i].type = "payment.confirmed" <=> charges'[q] # <<>>)
  <2> SUFFICES ASSUME NEW r, NEW i, Bills("payment.events", r, i, q)'
               PROVE  log'["payment.events"][r][i].type = "payment.confirmed" <=> charges[q] # <<>>
    BY <1>2
  <2>1. CASE r = p /\ i = k
    <3>1. q = o
      BY <1>5, <1>6, <2>1 DEF Bills
    <3> QED
      BY <1>5, <1>10, <2>1, <3>1
  <2>2. CASE ~ (r = p /\ i = k)
    <3>1. Bills("payment.events", r, i, q)
      BY <1>6, <2>2
    <3>2. log'["payment.events"][r][i] = log["payment.events"][r][i]
      BY <1>4, <3>1 DEF Bills
    <3> QED
      BY <3>1, <3>2 DEF BilledOnce
  <2> QED
    BY <2>1, <2>2
<1>12. ASSUME NEW q \in Order
       PROVE  /\ payments'[q] # <<>> <=> \E at, who, i : Bills(at, who, i, q)'
              /\ \A at, bt, u, v, i, j :
                    Bills(at, u, i, q)' /\ Bills(bt, v, j, q)' => at = bt /\ u = v /\ i = j
  <2>1. CASE q = o
    <3>1. /\ payments[o] # <<>>
          /\ \A at, who, i : Bills(at, who, i, o) =>
                at = "payment-service" /\ who = w /\ i = 0
      <4>1. Bills("payment-service", w, 0, o)
        BY <1>7
      <4> QED
        BY <1>3, <4>1 DEF BilledOnce
    <3>2. \A at, who, i : Bills(at, who, i, o)' <=> at = "payment.events" /\ who = p /\ i = k
      BY <1>6, <3>1
    <3> QED
      BY <1>2, <2>1, <3>1, <3>2
  <2>2. CASE q # o
    <3>1. \A at, who, i : Bills(at, who, i, q)' <=> Bills(at, who, i, q)
      BY <1>6, <1>7, <2>2
    <3> QED
      BY <1>2, <3>1 DEF BilledOnce
  <2> QED
    BY <2>1, <2>2
<1> QED
  BY <1>2, <1>9, <1>11, <1>12 DEF BilledOnce

LEMMA PaymentBills ==
    ASSUME TurnInv, TypeOK', BilledOnce, PaymentNext, faults' = 0, faults = 0,
           UNCHANGED <<orderVars, inventoryVars>>
    PROVE  BilledOnce'
<1>1. OneTurn /\ TurnFits /\ TypeOK
  BY DEF TurnInv, OneSaga, NoRepeat
<1>2. PICK w \in PayWorker : PayWorkerStep(w)
  BY DEF PaymentNext, PayInsertError, PayStop, Fault
<1>3. CASE \E p \in Partition : PayRead(w, p)
  <2>1. PICK p \in Partition : PayRead(w, p)
    BY <1>3
  <2>2. /\ UNCHANGED <<log, payments, charges>>
        /\ pay[w].pc = "idle" /\ pay'[w].pc \in {"idle", "insert"}
        /\ \A v \in PayWorker \ {w} : pay'[v] = pay[v]
    BY <1>1, <2>1 DEF PayRead, PayHandle, Idle, busVars, TypeOK, PaymentTypeOK
  <2>3. \A at, who, i, o : Bills(at, who, i, o)' <=> Bills(at, who, i, o)
    BY <2>2 DEF Bills
  <2>4. GoesOn /\ \A v \in PayWorker : pay[v].pc = "charge" => pay'[v] = pay[v]
    BY <1>1, <2>1, <2>2, PayReadTurns DEF GoesOn
  <2>5. \A o \in Order : \A at, who, i : Unbilled(at, who, i, o)' => payments'[o] = <<>>
    BY <2>2, <2>4, UnbilledBefore DEF BilledOnce
  <2> QED
    BY <2>2, <2>3, <2>5, BilledAside
<1> QED
  BY <1>1, <1>2, <1>3, InsertBills, ChargeBills, RecordBills, AnswerBills DEF PayWorkerStep

LEMMA BilledStep ==
    ASSUME TurnInv, BilledOnce, [Next]_vars, faults' = 0, faults = 0
    PROVE  BilledOnce'
<1>1. CASE UNCHANGED vars
  <2>1. /\ UNCHANGED <<log, payments, charges, pay>> /\ Keeps
    BY <1>1 DEF Keeps, Turn, OrderTurn, InvTurn, PayTurn, EventTurn, Ahead,
                vars, busVars, orderVars, inventoryVars, paymentVars
  <2>2. /\ \A at, who, i, o : Bills(at, who, i, o)' <=> Bills(at, who, i, o)
        /\ \A at, who, i, o : Unbilled(at, who, i, o)' => Unbilled(at, who, i, o)
    BY <2>1 DEF Bills, Unbilled, Keeps
  <2> QED
    BY <2>1, <2>2 DEF BilledOnce
<1> QED
  BY <1>1, TypeStep, OrderBills, InventoryBills, PaymentBills DEF Next, Waiting, TurnInv

LEMMA BilledInit == Init => BilledOnce
<1> SUFFICES ASSUME Init PROVE BilledOnce
  OBVIOUS
<1>1. /\ payments = [o \in Order |-> <<>>] /\ charges = [o \in Order |-> <<>>]
      /\ \A w \in PayWorker : pay[w].pc = "idle"
      /\ \A p \in Partition : log["payment.events"][p] = <<>>
  BY DEF Init, BusInit, PaymentInit, Idle, Topic
<1>2. \A at, who, i, o : ~ Bills(at, who, i, o)
  BY <1>1 DEF Bills
<1> QED
  BY <1>1, <1>2 DEF BilledOnce
=============================================================================
