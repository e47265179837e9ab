---------------------------- MODULE TablesProofs ----------------------------
(***************************************************************************)
(* That the tables of inventory-service and payment-service add up, for    *)
(* every instance of Pulse: stock is not oversold, and the counter is the  *)
(* sum of the rows; what is released was cancelled, and a cancelled order  *)
(* ends up holding nothing; each charge has its own row in payments and    *)
(* its own inventory.reserved.                                             *)
(*                                                                         *)
(* Neither the provider nor the tables say which charge goes with which    *)
(* row or event, so the invariants about charges say that there is a set   *)
(* of rows, or of events, one for each charge.                             *)
(***************************************************************************)
EXTENDS TurnProofs

-----------------------------------------------------------------------------
(* No unit is reserved twice. *)

(* A reservation that CanReserve allows stays within the stock. *)
LEMMA ReserveFits ==
    ASSUME InventoryTypeOK, NeverOversold,
           NEW o \in Order, NEW items \in ValidCart \cup {<<>>},
           CanReserve(items), ReserveOrder(o, items)
    PROVE  NeverOversold'
<1> SUFFICES ASSUME NEW p \in Product
             PROVE  reserved'[p] \in 0..StockLevel[p]
  BY DEF NeverOversold
<1>1. /\ reserved'[p] = reserved[p] + Demand(items, p)
      /\ reserved[p] \in 0..StockLevel[p]
      /\ StockLevel[p] \in Nat
      /\ Demand(items, p) \in Nat
      /\ Demand(items, p) > 0 <=> p \in Wanted(items)
  BY StockAssumption, DemandIsWanted DEF ReserveOrder, NeverOversold
<1>2. CASE p \in Wanted(items)
  <2>1. Demand(items, p) <= StockLevel[p] - reserved[p]
    BY <1>2 DEF CanReserve, Available
  <2> QED
    BY <1>1, <2>1
<1>3. CASE p \notin Wanted(items)
  BY <1>1, <1>3
<1> QED
  BY <1>2, <1>3

(* A release takes no product below zero. *)
LEMMA ReleaseFits ==
    ASSUME InventoryTypeOK, NeverOversold, NEW o \in Order, ReleaseOrder(o)
    PROVE  NeverOversold'
<1> SUFFICES ASSUME NEW p \in Product
             PROVE  reserved'[p] \in 0..StockLevel[p]
  BY DEF NeverOversold
<1> DEFINE units == reservations[o].active[p]
<1>1. /\ reserved'[p] = IF units < reserved[p] THEN reserved[p] - units ELSE 0
      /\ reserved[p] \in 0..StockLevel[p]
      /\ StockLevel[p] \in Nat
      /\ units \in Nat
  BY StockAssumption DEF ReleaseOrder, NeverOversold, InventoryTypeOK, LedgerTypeOK
<1> QED
  BY <1>1

(* The event a handler of inventory-service acts on. *)
LEMMA InvTaskFields ==
    ASSUME InventoryTypeOK, NEW w \in InvWorker, inv[w].pc # "idle"
    PROVE  /\ inv[w].event \in Event
           /\ inv[w].event.orderId \in Order
           /\ inv[w].event.items \in ValidCart \cup {<<>>}
<1>1. inv[w].event \in Event
  BY DEF InventoryTypeOK, LedgerTypeOK, InventoryTask, Idle
<1> QED
  BY <1>1 DEF Event

LEMMA StockStep == TypeOK /\ NeverOversold /\ [Next]_vars => NeverOversold'
<1> SUFFICES ASSUME TypeOK, NeverOversold, [Next]_vars PROVE NeverOversold'
  OBVIOUS
<1>1. CASE UNCHANGED reserved
  BY <1>1 DEF NeverOversold
<1>2. ASSUME NEW w \in InvWorker, InvReserve(w)
      PROVE  NeverOversold'
  BY <1>2, ReserveFits, InvTaskFields DEF InvReserve, TypeOK
<1>3. ASSUME NEW w \in InvWorker, InvReserveError(w)
      PROVE  NeverOversold'
  BY <1>1, <1>3, ReserveFits, InvTaskFields DEF InvReserveError, TypeOK
<1>4. ASSUME NEW w \in InvWorker, InvRelease(w)
      PROVE  NeverOversold'
  BY <1>4, ReleaseFits, InvTaskFields DEF InvRelease, TypeOK
<1>5. CASE InventoryNext
  <2>1. ASSUME NEW w \in InvWorker,
               \/ \E p \in Partition : InvRead(w, p)
               \/ InvRefuse(w) \/ InvPublish(w) \/ InvReleaseError(w) \/ InvStop(w)
        PROVE  UNCHANGED reserved
    BY <2>1 DEF InvRead, InvRefuse, InvPublish, InvReleaseError, InvStop
  <2> QED
    BY <1>1, <1>2, <1>3, <1>4, <1>5, <2>1
    DEF InventoryNext, InvWorkerStep, InvFaultStep
<1>6. CASE UNCHANGED inventoryVars \/ UNCHANGED vars
  BY <1>1, <1>6 DEF inventoryVars, vars
<1> QED
  BY <1>5, <1>6 DEF Next, Waiting, vars, inventoryVars

(* No product ever has more units reserved than it has, and none a negative *)
(* number: two orders never take the same unit (inventory-service          *)
(* db.go:51-98), however often an order.created or order.cancelled is      *)
(* delivered and wherever a handler stops or its commit is in doubt.       *)
THEOREM StockIsNotOversold == Spec => []NeverOversold
<1>1. Init => NeverOversold
  BY StockAssumption DEF Init, InventoryInit, LedgerInit, NoUnits, NeverOversold
<1> QED
  BY <1>1, StockStep, TypeCorrect, PTL DEF Spec

-----------------------------------------------------------------------------
(* The counter is the sum of the rows.                                     *)

HeldOf(p) == [o \in Order |-> reservations[o].active[p]]
Exact(p) == reserved[p] = SumFunctionOnSet(HeldOf(p), Order)

LEMMA LedgerIsExact == LedgerExact <=> \A p \in Product : Exact(p)
BY DEF LedgerExact, Exact, HeldOf, SumFunction

(* When one order's rows change, the sum changes by as much. *)
LEMMA HeldChanges ==
    ASSUME IsFiniteSet(Order), LedgerTypeOK, LedgerTypeOK', NEW p \in Product, Exact(p),
           NEW o \in Order, \A q \in Order \ {o} : reservations'[q] = reservations[q],
           reserved'[p] - reserved[p] = reservations'[o].active[p] - reservations[o].active[p]
    PROVE  Exact(p)'
<1>1. PICK f, g : f = HeldOf(p) /\ g = HeldOf(p)'
  OBVIOUS
<1>2. /\ f[o] = reservations[o].active[p] /\ g[o] = reservations'[o].active[p]
      /\ \A q \in Order \ {o} : g[q] = f[q]
      /\ \A q \in Order : f[q] \in Int /\ g[q] \in Int
  BY <1>1 DEF HeldOf, LedgerTypeOK
<1>3. SumFunctionOnSet(g, Order) = SumFunctionOnSet(f, Order) + g[o] - f[o]
  BY <1>2, SumChanges
<1>4. reserved[p] = SumFunctionOnSet(f, Order)
  BY <1>1 DEF Exact
<1>5. /\ reserved[p] \in Int /\ reserved'[p] \in Int
      /\ reserved'[p] - reserved[p] = g[o] - f[o] /\ g[o] \in Int /\ f[o] \in Int
  BY <1>2 DEF LedgerTypeOK
<1>6. reserved'[p] = SumFunctionOnSet(g, Order)
  BY <1>3, <1>4, <1>5
<1> QED
  BY <1>1, <1>6 DEF Exact

LEMMA ReserveExact ==
    ASSUME IsFiniteSet(Order), LedgerTypeOK, LedgerTypeOK', LedgerExact,
           NEW o \in Order, NEW items \in ValidCart \cup {<<>>}, ReserveOrder(o, items)
    PROVE  LedgerExact'
<1> SUFFICES ASSUME NEW p \in Product PROVE Exact(p)'
  BY LedgerIsExact DEF LedgerExact, Exact, HeldOf, SumFunction
<1>1. Exact(p) /\ Demand(items, p) \in Nat
  BY LedgerIsExact, DemandIsWanted
<1>2. /\ reserved'[p] = reserved[p] + Demand(items, p)
      /\ reservations'[o].active[p] = reservations[o].active[p] + Demand(items, p)
      /\ \A q \in Order \ {o} : reservations'[q] = reservations[q]
      /\ reserved[p] \in Int /\ reservations[o].active[p] \in Nat
  BY DEF ReserveOrder, LedgerTypeOK
<1>3. reserved'[p] - reserved[p] = reservations'[o].active[p] - reservations[o].active[p]
  BY <1>1, <1>2
<1> QED
  BY <1>1, <1>2, <1>3, HeldChanges

(* No order holds more of a product than all of them together, so a        *)
(* release does not meet the floor that GREATEST puts under the counter.   *)
LEMMA HeldIsCounted ==
    ASSUME IsFiniteSet(Order), LedgerTypeOK, NEW p \in Product, Exact(p), NEW o \in Order
    PROVE  reservations[o].active[p] <= reserved[p]
<1>1. PICK f : f = HeldOf(p)
  OBVIOUS
<1>2. f[o] = reservations[o].active[p] /\ \A q \in Order : f[q] \in Nat /\ f[q] \in Int
  BY <1>1 DEF HeldOf, LedgerTypeOK
<1>3. SumFunctionOnSet(f, Order) = f[o] + SumFunctionOnSet(f, Order \ {o})
  BY <1>2, SumWithout
<1>4. SumFunctionOnSet(f, Order \ {o}) \in Nat
  <2>1. IsFiniteSet(Order \ {o})
    BY FS_Subset
  <2> QED
    BY <1>2, <2>1, SumOfNaturals
<1>5. reserved[p] = SumFunctionOnSet(f, Order)
  BY <1>1 DEF Exact
<1> QED
  BY <1>2, <1>3, <1>4, <1>5

LEMMA ReleaseExact ==
    ASSUME IsFiniteSet(Order), LedgerTypeOK, LedgerTypeOK', LedgerExact,
           NEW o \in Order, ReleaseOrder(o)
    PROVE  LedgerExact'
<1> SUFFICES ASSUME NEW p \in Product PROVE Exact(p)'
  BY LedgerIsExact DEF LedgerExact, Exact, HeldOf, SumFunction
<1>1. Exact(p)
  BY LedgerIsExact
<1>2. PICK units : units = reservations[o].active[p]
  OBVIOUS
<1>3. /\ reserved'[p] = IF units < reserved[p] THEN reserved[p] - units ELSE 0
      /\ reservations'[o].active[p] = 0
      /\ \A q \in Order \ {o} : reservations'[q] = reservations[q]
      /\ reserved[p] \in Int /\ units \in Nat
  BY <1>2 DEF ReleaseOrder, LedgerTypeOK, NoUnits
<1>4. units <= reserved[p]
  BY <1>1, <1>2, HeldIsCounted
<1>5. reserved'[p] - reserved[p] = reservations'[o].active[p] - reservations[o].active[p]
  BY <1>2, <1>3, <1>4
<1> QED
  BY <1>1, <1>3, <1>5, HeldChanges

LEMMA ExactStep ==
    ASSUME IsFiniteSet(Order), TypeOK, TypeOK', LedgerExact, [Next]_vars
    PROVE  LedgerExact'
<1>0. LedgerTypeOK /\ LedgerTypeOK'
  BY DEF TypeOK, InventoryTypeOK
<1>1. CASE UNCHANGED <<reserved, reservations>>
  BY <1>1 DEF LedgerExact
<1>2. CASE InventoryNext
  <2>1. PICK w \in InvWorker : InvWorkerStep(w) \/ InvFaultStep(w)
    BY <1>2 DEF InventoryNext
  <2>2. CASE InvReserve(w) \/ InvReserveError(w)
    <3>1. \/ UNCHANGED <<reserved, reservations>>
          \/ ReserveOrder(inv[w].event.orderId, inv[w].event.items)
      BY <2>2 DEF InvReserve, InvReserveError
    <3>2. inv[w].event.orderId \in Order /\ inv[w].event.items \in ValidCart \cup {<<>>}
      BY <2>2, InvTaskFields DEF InvReserve, InvReserveError, TypeOK
    <3> QED
      BY <1>0, <1>1, <3>1, <3>2, ReserveExact
  <2>3. CASE InvRelease(w)
    BY <1>0, <2>3, ReleaseExact, InvTaskFields DEF InvRelease, TypeOK
  <2>4. CASE \/ \E p \in Partition : InvRead(w, p)
             \/ InvRefuse(w) \/ InvPublish(w) \/ InvReleaseError(w) \/ InvStop(w)
    BY <1>1, <2>4 DEF InvRead, InvRefuse, InvPublish, InvReleaseError, InvStop
  <2> QED
    BY <2>1, <2>2, <2>3, <2>4 DEF InvWorkerStep, InvFaultStep
<1>3. CASE UNCHANGED inventoryVars \/ UNCHANGED vars
  BY <1>1, <1>3 DEF inventoryVars, vars
<1> QED
  BY <1>2, <1>3 DEF Next, Waiting, vars, inventoryVars

(* The reserved column is the sum of the active reservations of all        *)
(* orders, through repeated reserves and repeated releases of one order,   *)
(* and GREATEST never hides a difference (inventory-service db.go:80-92,   *)
(* 111-142).                                                               *)
THEOREM CounterIsTheSum ==
    ASSUME IsFiniteSet(Order)
    PROVE  Spec => []LedgerExact
<1>1. Init => LedgerExact
  <2> SUFFICES ASSUME Init, NEW p \in Product PROVE Exact(p)
    BY LedgerIsExact
  <2>1. PICK f : f = HeldOf(p)
    OBVIOUS
  <2>2. reserved[p] = 0 /\ \A o \in Order : f[o] = 0
    BY <2>1 DEF Init, InventoryInit, LedgerInit, NoUnits, HeldOf
  <2>3. SumFunctionOnSet(f, Order) = 0
    BY <2>2, SumOfNaturals
  <2> QED
    BY <2>1, <2>2, <2>3 DEF Exact
<1>2. TypeOK /\ TypeOK' /\ LedgerExact /\ [Next]_vars => LedgerExact'
  BY ExactStep
<1> QED
  BY <1>1, <1>2, TypeCorrect, PTL DEF Spec

-----------------------------------------------------------------------------
(* Stock is given back only after a cancellation was announced. *)

(* What a release and a released row rest on. *)
Announced(o) == HasEvent("order.events", "order.cancelled", o)

ReleaseAnnounced ==
    /\ \A w \in InvWorker : inv[w].pc = "release" => Announced(inv[w].event.orderId)
    /\ ReleasedWasCancelled

(* What was announced was announced. *)
LEMMA AnnouncedStays ==
    ASSUME TypeOK, [Next]_vars, NEW o \in Order, Announced(o)
    PROVE  Announced(o)'
<1>1. PICK p \in Partition : \E i \in DOMAIN log["order.events"][p] :
          /\ log["order.events"][p][i].type = "order.cancelled"
          /\ log["order.events"][p][i].orderId = o
  BY DEF Announced, HasEvent, Published
<1>2. PICK i \in DOMAIN log["order.events"][p] :
          /\ log["order.events"][p][i].type = "order.cancelled"
          /\ log["order.events"][p][i].orderId = o
  BY <1>1
<1>3. /\ i \in DOMAIN log'["order.events"][p]
      /\ log'["order.events"][p][i].type = "order.cancelled"
      /\ log'["order.events"][p][i].orderId = o
  BY <1>2, EventsStay DEF Topic
<1>4. <<p, i>> \in Published("order.events", "order.cancelled", o)'
  BY <1>3 DEF Published
<1> QED
  BY <1>4 DEF Announced, HasEvent

(* Reading an event a topic holds: an order.cancelled has been announced. *)
LEMMA ReadIsAnnounced ==
    ASSUME TypeOK, NEW p \in Partition, HasNext(invOffset[p], "order.events", p),
           NextEvent(invOffset[p], "order.events", p).type = "order.cancelled"
    PROVE  Announced(NextEvent(invOffset[p], "order.events", p).orderId)
<1> DEFINE i == invOffset[p] + 1
<1>1. log["order.events"][p] \in Seq(Event) /\ invOffset[p] \in Nat
  BY DEF TypeOK, BusTypeOK, InventoryTypeOK, LedgerTypeOK, Topic
<1>2. i \in DOMAIN log["order.events"][p]
  BY <1>1, LenProperties DEF HasNext
<1>3. <<p, i>> \in Published("order.events", "order.cancelled", log["order.events"][p][i].orderId)
  BY <1>2 DEF Published, NextEvent
<1> QED
  BY <1>3 DEF Announced, HasEvent, NextEvent

(* A consumer comes to release an order only by reading its event. *)
LEMMA ReleaseFromRead ==
    ASSUME TypeOK, [Next]_vars, NEW v \in InvWorker, inv'[v].pc = "release"
    PROVE  \/ inv'[v] = inv[v]
           \/ \E p \in Partition :
                 /\ HasNext(invOffset[p], "order.events", p)
                 /\ NextEvent(invOffset[p], "order.events", p).type = "order.cancelled"
                 /\ inv'[v].event = NextEvent(invOffset[p], "order.events", p)
<1>1. CASE UNCHANGED inv
  BY <1>1
<1>2. ASSUME NEW w \in InvWorker, NEW p \in Partition, InvRead(w, p), v = w
      PROVE  /\ HasNext(invOffset[p], "order.events", p)
             /\ NextEvent(invOffset[p], "order.events", p).type = "order.cancelled"
             /\ inv'[v].event = NextEvent(invOffset[p], "order.events", p)
  <2> DEFINE f == NextEvent(invOffset[p], "order.events", p)
  <2>1. inv'[v] = InvHandle(f)
    BY <1>2 DEF InvRead, TypeOK, InventoryTypeOK, LedgerTypeOK
  <2>2. CASE f.type = "order.created"
    <3>1. InvHandle(f).pc = "reserve"
      BY <2>2 DEF InvHandle
    <3> QED
      BY <2>1, <3>1
  <2>3. CASE f.type = "order.cancelled"
    <3>1. InvHandle(f).event = f
      BY <2>3 DEF InvHandle
    <3> QED
      BY <1>2, <2>1, <2>3, <3>1 DEF InvRead
  <2>4. CASE f.type # "order.created" /\ f.type # "order.cancelled"
    <3>1. InvHandle(f).pc = "idle"
      BY <2>4 DEF InvHandle, Idle
    <3> QED
      BY <2>1, <3>1
  <2> QED
    BY <2>2, <2>3, <2>4
<1>3. ASSUME NEW w \in InvWorker, NEW p \in Partition, InvRead(w, p), v # w
      PROVE  inv'[v] = inv[v]
  BY <1>3 DEF InvRead, TypeOK, InventoryTypeOK, LedgerTypeOK
<1>4. ASSUME NEW w \in InvWorker,
             \/ InvReserve(w) \/ InvRefuse(w) \/ InvReserveError(w) \/ InvRelease(w)
      PROVE  inv'[v] = inv[v]
  BY <1>4 DEF InvReserve, InvRefuse, InvReserveError, InvRelease, Report,
              TypeOK, InventoryTypeOK, LedgerTypeOK
<1>5. ASSUME NEW w \in InvWorker, InvPublish(w) \/ InvReleaseError(w) \/ InvStop(w)
      PROVE  inv'[v] = inv[v]
  BY <1>5 DEF InvPublish, InvReleaseError, InvStop, Idle, TypeOK, InventoryTypeOK, LedgerTypeOK
<1>6. CASE InventoryNext
  BY <1>2, <1>3, <1>4, <1>5, <1>6 DEF InventoryNext, InvWorkerStep, InvFaultStep
<1>7. CASE UNCHANGED inventoryVars \/ UNCHANGED vars
  BY <1>1, <1>7 DEF inventoryVars, vars
<1> QED
  BY <1>6, <1>7 DEF Next, Waiting

(* Rows become released only where a consumer releases them. *)
LEMMA ReleasedByRelease ==
    ASSUME TypeOK, [Next]_vars, NEW o \in Order,
           reservations'[o].released # reservations[o].released
    PROVE  \E w \in InvWorker : inv[w].pc = "release" /\ inv[w].event.orderId = o
<1>1. ASSUME NEW w \in InvWorker, InvReserve(w) \/ InvReserveError(w)
      PROVE  FALSE
  <2> DEFINE e == inv[w].event
  <2>1. e.orderId \in Order
    BY <1>1, InvTaskFields DEF InvReserve, InvReserveError, TypeOK
  <2>2. UNCHANGED reservations \/ ReserveOrder(e.orderId, e.items)
    BY <1>1 DEF InvReserve, InvReserveError
  <2> QED
    BY <2>1, <2>2 DEF ReserveOrder, TypeOK, InventoryTypeOK, LedgerTypeOK
<1>2. ASSUME NEW w \in InvWorker, InvRelease(w)
      PROVE  inv[w].pc = "release" /\ inv[w].event.orderId = o
  BY <1>2 DEF InvRelease, ReleaseOrder, TypeOK, InventoryTypeOK, LedgerTypeOK
<1>3. CASE InventoryNext
  <2>1. ASSUME NEW w \in InvWorker,
               \/ \E p \in Partition : InvRead(w, p)
               \/ InvRefuse(w) \/ InvPublish(w) \/ InvReleaseError(w) \/ InvStop(w)
        PROVE  UNCHANGED reservations
    BY <2>1 DEF InvRead, InvRefuse, InvPublish, InvReleaseError, InvStop
  <2> QED
    BY <1>1, <1>2, <1>3, <2>1 DEF InventoryNext, InvWorkerStep, InvFaultStep
<1>4. CASE UNCHANGED inventoryVars \/ UNCHANGED vars
  BY <1>4 DEF inventoryVars, vars
<1> QED
  BY <1>3, <1>4 DEF Next, Waiting

LEMMA AnnouncedStep == TypeOK /\ ReleaseAnnounced /\ [Next]_vars => ReleaseAnnounced'
<1> SUFFICES ASSUME TypeOK, ReleaseAnnounced, [Next]_vars PROVE ReleaseAnnounced'
  OBVIOUS
<1>1. \A o \in Order : Announced(o) => Announced(o)'
  BY AnnouncedStays
<1>2. \A w \in InvWorker : inv[w].pc = "release" =>
          inv[w].event.orderId \in Order /\ Announced(inv[w].event.orderId)
  BY InvTaskFields DEF ReleaseAnnounced, TypeOK
<1>3. ASSUME NEW v \in InvWorker, inv'[v].pc = "release"
      PROVE  \E o \in Order : o = inv'[v].event.orderId /\ Announced(o)
  <2>1. CASE inv'[v] = inv[v]
    BY <1>2, <1>3, <2>1
  <2>2. ASSUME NEW p \in Partition,
               HasNext(invOffset[p], "order.events", p),
               NextEvent(invOffset[p], "order.events", p).type = "order.cancelled",
               inv'[v].event = NextEvent(invOffset[p], "order.events", p)
        PROVE  \E o \in Order : o = inv'[v].event.orderId /\ Announced(o)
    <3>1. NextEvent(invOffset[p], "order.events", p) \in Event
      BY <2>2, NextEventIsTyped DEF TypeOK, InventoryTypeOK, LedgerTypeOK, Topic
    <3> QED
      BY <2>2, <3>1, ReadIsAnnounced DEF Event
  <2> QED
    BY <1>3, <2>1, <2>2, ReleaseFromRead
<1>4. ASSUME NEW o \in Order, reservations'[o].released # NoUnits
      PROVE  Announced(o)
  <2>1. CASE reservations'[o].released = reservations[o].released
    BY <1>4, <2>1 DEF ReleaseAnnounced, ReleasedWasCancelled, Announced
  <2>2. CASE reservations'[o].released # reservations[o].released
    BY <1>2, <2>2, ReleasedByRelease
  <2> QED
    BY <2>1, <2>2
<1>5. ASSUME NEW v \in InvWorker, inv'[v].pc = "release"
      PROVE  (Announced(inv[v].event.orderId))'
  BY <1>1, <1>3, <1>5 DEF Announced, HasEvent, Published
<1>6. ASSUME NEW o \in Order, reservations'[o].released # NoUnits
      PROVE  Announced(o)'
  BY <1>1, <1>4, <1>6
<1> QED
  BY <1>5, <1>6 DEF ReleaseAnnounced, ReleasedWasCancelled, Announced, NoUnits

(* inventory-service gives stock back only for an order whose               *)
(* order.cancelled is in order.events (inventory-service handler.go:20-23). *)
THEOREM OnlyCancelledIsReleased == Spec => []ReleasedWasCancelled
<1>1. Init => ReleaseAnnounced
  BY DEF Init, InventoryInit, LedgerInit, ReleaseAnnounced, ReleasedWasCancelled, Idle
<1>2. ReleaseAnnounced => ReleasedWasCancelled
  BY DEF ReleaseAnnounced
<1> QED
  BY <1>1, <1>2, AnnouncedStep, TypeCorrect, PTL DEF Spec

-----------------------------------------------------------------------------
(* Everything about an order follows its order.created.                    *)

(* The topic of each kind of event. *)
Home(type) ==
    CASE type \in {"order.created", "order.confirmed", "order.cancelled"} -> "order.events"
      [] type \in {"inventory.reserved", "inventory.failed", "inventory.released"} -> "inventory.events"
      [] OTHER -> "payment.events"

(* Where order.events has the order.created of an order, if anywhere. *)
CreatedAt(o, j) ==
    LET story == log["order.events"][PartitionOf[o]] IN
      /\ j \in DOMAIN story
      /\ story[j].type = "order.created"
      /\ story[j].orderId = o

Underway == { o \in Order : \E j \in Nat : CreatedAt(o, j) }
Begun(o) == o \in Underway

(* An event is on the topic of its kind, in the partition of its order, and *)
(* the order.created is there before it.                                   *)
Follows(t, p, i) ==
    LET e == log[t][p][i] IN
      /\ t = Home(e.type)
      /\ p = PartitionOf[e.orderId]
      /\ e.type # "order.created" =>
            \E j \in Nat : CreatedAt(e.orderId, j) /\ (t = "order.events" => j < i)

LogFollows == \A t \in Topic, p \in Partition : \A i \in DOMAIN log[t][p] : Follows(t, p, i)

(* Whoever does something about an order, its story has begun. *)
TaskBegun(h) ==
    /\ task[h].pc \in {"confirm", "cancel"} => Begun(task[h].orderId)
    /\ task[h].pc = "publish" =>
          task[h].event.type = "order.created" \/ Begun(task[h].event.orderId)

InvBegun(w) == inv[w].pc # "idle" => Begun(inv[w].event.orderId)
PayBegun(w) == pay[w].pc # "idle" => Begun(pay[w].event.orderId)
AnswersBegun == \A o \in acknowledged : Begun(o)

BegunInv ==
    /\ LogFollows
    /\ AnswersBegun
    /\ \A h \in Handler : TaskBegun(h)
    /\ \A w \in InvWorker : InvBegun(w)
    /\ \A w \in PayWorker : PayBegun(w)

(* If no write is repeated it begins once. *)
Creates(h, o) == /\ task[h].pc = "publish"
                /\ task[h].event.type = "order.created"
                /\ task[h].event.orderId = o

BeginsOnce ==
    \A o \in Order :
        /\ \A i, j \in Nat : CreatedAt(o, i) /\ CreatedAt(o, j) => i = j
        /\ \A h \in Handler : Creates(h, o) => ~ Begun(o)
        /\ \A g, h \in Handler : Creates(g, o) /\ Creates(h, o) => g = h

(* What has begun once has begun. *)
LEMMA CreatedStays ==
    ASSUME TypeOK, [Next]_vars, NEW o \in Order, NEW j, CreatedAt(o, j)
    PROVE  CreatedAt(o, j)'
<1>1. PartitionOf[o] \in Partition /\ "order.events" \in Topic
  BY PartitionAssumption DEF Topic
<1> QED
  BY <1>1, EventsStay DEF CreatedAt

LEMMA BegunStays ==
    ASSUME TypeOK, [Next]_vars
    PROVE  Underway \subseteq Underway'
BY CreatedStays DEF Underway

(* An order whose creation is published has begun. *)
LEMMA PublishBegins ==
    ASSUME TypeOK, NEW e \in Event, e.type = "order.created", Publish("order.events", e)
    PROVE  Begun(e.orderId)'
<1>1. PICK q, k : q = PartitionOf[e.orderId] /\ k = Len(log["order.events"][q]) + 1
  OBVIOUS
<1>2. q \in Partition /\ "order.events" \in Topic
  BY <1>1, PartitionAssumption DEF Event, Topic
<1>3. k \in Nat
  BY <1>1, <1>2, LogFacts
<1>4. k \in DOMAIN log'["order.events"][q] /\ log'["order.events"][q][k] = e
  BY <1>1, <1>2, PublishAdds
<1>5. CreatedAt(e.orderId, k)'
  BY <1>1, <1>4 DEF CreatedAt
<1> QED
  BY <1>3, <1>5 DEF Begun, Underway, Event

(* One more event about an order that has begun, or that begins it. *)
LEMMA PublishFollows ==
    ASSUME TypeOK, [Next]_vars, LogFollows, NEW t \in Topic, NEW e \in Event, Publish(t, e),
           t = Home(e.type), e.type = "order.created" \/ Begun(e.orderId)
    PROVE  LogFollows'
<1> SUFFICES ASSUME NEW s \in Topic, NEW p \in Partition, NEW i \in DOMAIN log'[s][p]
             PROVE  Follows(s, p, i)'
  BY DEF LogFollows
<1>1. PICK q, k : q = PartitionOf[e.orderId] /\ k = Len(log[s][p]) + 1
  OBVIOUS
<1>2. \/ i \in DOMAIN log[s][p] /\ log'[s][p][i] = log[s][p][i]
      \/ s = t /\ p = q /\ i = k /\ log'[s][p][i] = e
  BY <1>1, PublishAdds
<1>3. CASE i \in DOMAIN log[s][p] /\ log'[s][p][i] = log[s][p][i]
  <2>1. Follows(s, p, i) /\ log[s][p][i].orderId \in Order
    BY <1>3, LogFacts DEF LogFollows, Event
  <2>2. \A j \in Nat : CreatedAt(log[s][p][i].orderId, j)
                           => /\ j \in DOMAIN log'["order.events"][p]
                              /\ log'["order.events"][p][j] = log["order.events"][p][j]
    BY <2>1, EventsStay DEF CreatedAt, Follows, Topic
  <2> QED
    BY <1>3, <2>1, <2>2 DEF Follows, CreatedAt
<1>4. CASE s = t /\ p = q /\ i = k /\ log'[s][p][i] = e
  <2>1. ASSUME e.type # "order.created"
        PROVE  \E j \in Nat : CreatedAt(e.orderId, j)' /\ (s = "order.events" => j < i)
    <3>1. PICK j \in Nat : CreatedAt(e.orderId, j)
      BY <2>1 DEF Begun, Underway
    <3>2. CreatedAt(e.orderId, j)'
      BY <3>1, CreatedStays DEF Event
    <3>3. s = "order.events" => j \in DOMAIN log[s][p]
      BY <1>1, <1>4, <3>1 DEF CreatedAt
    <3>4. DOMAIN log[s][p] = 1..Len(log[s][p]) /\ Len(log[s][p]) \in Nat
      BY LogFacts
    <3>5. s = "order.events" => j < i
      BY <1>1, <1>4, <3>3, <3>4
    <3> QED
      BY <3>2, <3>5
  <2> QED
    BY <1>1, <1>4, <2>1 DEF Follows, CreatedAt
<1> QED
  BY <1>2, <1>3, <1>4

(* Reading about an order, its story has begun. *)
LEMMA ReadBegun ==
    ASSUME TypeOK, LogFollows, NEW t \in Topic, NEW p \in Partition, NEW i \in DOMAIN log[t][p]
    PROVE  Begun(log[t][p][i].orderId)
<1>1. Follows(t, p, i) /\ i \in Nat /\ log[t][p][i].orderId \in Order
  BY LogFacts DEF LogFollows, Event
<1>2. CASE log[t][p][i].type = "order.created"
  <2>1. t = "order.events" /\ p = PartitionOf[log[t][p][i].orderId]
    BY <1>1, <1>2 DEF Follows, Home
  <2>2. CreatedAt(log[t][p][i].orderId, i)
    BY <1>2, <2>1 DEF CreatedAt
  <2> QED
    BY <1>1, <2>2 DEF Begun, Underway
<1> QED
  BY <1>1, <1>2 DEF Follows, Begun, Underway

(* Whoever goes on with what he had goes on with what has begun. *)
LEMMA HandsBegun ==
    ASSUME TypeOK, [Next]_vars
    PROVE  /\ \A h \in Handler : TaskBegun(h) /\ task'[h] = task[h] => TaskBegun(h)'
           /\ \A w \in InvWorker : InvBegun(w) /\ inv'[w] = inv[w] => InvBegun(w)'
           /\ \A w \in PayWorker : PayBegun(w) /\ pay'[w] = pay[w] => PayBegun(w)'
           /\ AnswersBegun /\ UNCHANGED acknowledged => AnswersBegun'
<1>1. Underway \subseteq Underway'
  BY BegunStays
<1>2. \A h \in Handler :
         /\ task[h].pc \in {"confirm", "cancel"} => task[h].orderId \in Order
         /\ task[h].pc = "publish" => task[h].event.orderId \in Order
  BY TaskFields DEF TypeOK, Event
<1>3. /\ \A w \in InvWorker : inv[w].pc # "idle" => inv[w].event.orderId \in Order
      /\ \A w \in PayWorker : pay[w].pc # "idle" => pay[w].event.orderId \in Order
  BY InvFields, PayFields DEF Event
<1>4. \A o \in acknowledged : o \in Order
  BY DEF TypeOK, OrderTypeOK
<1>5. \A h \in Handler : TaskBegun(h) /\ task'[h] = task[h] => TaskBegun(h)'
  BY <1>1, <1>2 DEF TaskBegun, Begun
<1>6. \A w \in InvWorker : InvBegun(w) /\ inv'[w] = inv[w] => InvBegun(w)'
  BY <1>1, <1>3 DEF InvBegun, Begun
<1>7. \A w \in PayWorker : PayBegun(w) /\ pay'[w] = pay[w] => PayBegun(w)'
  BY <1>1, <1>3 DEF PayBegun, Begun
<1> QED
  BY <1>1, <1>4, <1>5, <1>6, <1>7 DEF AnswersBegun, Begun

LEMMA LogKeepsFollowing ==
    ASSUME UNCHANGED log, LogFollows
    PROVE  LogFollows'
<1> SUFFICES ASSUME NEW t \in Topic, NEW p \in Partition, NEW i \in DOMAIN log[t][p]
             PROVE  Follows(t, p, i)'
  BY DEF LogFollows
<1>1. Follows(t, p, i)
  BY DEF LogFollows
<1> QED
  BY <1>1 DEF Follows, CreatedAt

LEMMA OrderBegun ==
    ASSUME TypeOK, Provenance, BegunInv, [Next]_vars, OrderNext,
           UNCHANGED <<inventoryVars, paymentVars>>
    PROVE  LogFollows' /\ AnswersBegun' /\ \A h \in Handler : TaskBegun(h)'
<1> USE DEF BegunInv
<1>1. ASSUME NEW h \in Handler, \A g \in Handler \ {h} : task'[g] = task[g], TaskBegun(h)'
      PROVE  \A g \in Handler : TaskBegun(g)'
  BY <1>1, HandsBegun
<1>2. ASSUME NEW r \in Request, NEW o \in Order, NEW items \in Cart, CreateOrder(r, o, items)
      PROVE  LogFollows' /\ AnswersBegun' /\ \A h \in Handler : TaskBegun(h)'
  <2>1. /\ \A g \in Handler \ {r} : task'[g] = task[g]
        /\ task'[r].pc = "publish" /\ task'[r].event.type = "order.created"
    BY <1>2 DEF CreateOrder, MakeEvent, TypeOK, OrderTypeOK, Handler
  <2>2. TaskBegun(r)'
    BY <2>1 DEF TaskBegun
  <2>3. UNCHANGED <<log, acknowledged>>
    BY <1>2 DEF CreateOrder, busVars
  <2> QED
    BY <1>1, <2>1, <2>2, <2>3, HandsBegun, LogKeepsFollowing DEF Handler
<1>3. ASSUME NEW r \in Request, NEW o \in Order, CancelOrder(r, o)
      PROVE  LogFollows' /\ AnswersBegun' /\ \A h \in Handler : TaskBegun(h)'
  <2>1. /\ \A g \in Handler \ {r} : task'[g] = task[g]
        /\ task'[r].pc = "cancel" /\ task'[r].orderId = o
        /\ UNCHANGED <<log, acknowledged>>
    BY <1>3 DEF CancelOrder, busVars, TypeOK, OrderTypeOK, Handler
  <2>2. Begun(o)'
    BY <1>3, BegunStays DEF CancelOrder, AnswersBegun, Begun
  <2>3. TaskBegun(r)'
    BY <2>1, <2>2 DEF TaskBegun, Begun
  <2> QED
    BY <1>1, <2>1, <2>3, HandsBegun, LogKeepsFollowing DEF Handler
<1>4. ASSUME NEW w \in SagaWorker, NEW t \in SagaTopic, NEW p \in Partition, SagaRead(w, t, p)
      PROVE  LogFollows' /\ AnswersBegun' /\ \A h \in Handler : TaskBegun(h)'
  <2>1. PICK i, e : i = ordOffset[t][p] + 1 /\ e = log[t][p][i]
    OBVIOUS
  <2>2. t \in Topic /\ i \in DOMAIN log[t][p]
    <3>1. t \in Topic /\ ordOffset[t][p] \in Nat
      BY DEF TypeOK, OrderTypeOK, SagaTopic, Topic
    <3>2. DOMAIN log[t][p] = 1..Len(log[t][p]) /\ Len(log[t][p]) \in Nat
      BY <3>1, LogFacts
    <3> QED
      BY <1>4, <2>1, <3>1, <3>2 DEF SagaRead, HasNext
  <2>3. e.orderId \in Order /\ Begun(e.orderId)
    BY <2>1, <2>2, ReadBegun, LogFacts DEF Event
  <2>4. Begun(e.orderId)'
    BY <2>3, BegunStays DEF Begun
  <2>5. /\ task'[w] = Handle(e) /\ \A g \in Handler \ {w} : task'[g] = task[g]
        /\ UNCHANGED <<log, acknowledged>>
    BY <1>4, <2>1 DEF SagaRead, NextEvent, busVars, TypeOK, OrderTypeOK, Handler
  <2>6. TaskBegun(w)'
    BY <2>4, <2>5 DEF TaskBegun, Handle, Idle, Begun
  <2> QED
    BY <1>1, <2>5, <2>6, HandsBegun, LogKeepsFollowing DEF Handler
<1>5. ASSUME NEW h \in Handler, SagaConfirm(h) \/ SagaCancel(h)
      PROVE  LogFollows' /\ AnswersBegun' /\ \A g \in Handler : TaskBegun(g)'
  <2>1. PICK o : o = task[h].orderId
    OBVIOUS
  <2>2. o \in Order /\ Begun(o)
    BY <1>5, <2>1, TaskFields DEF SagaConfirm, SagaCancel, TaskBegun, TypeOK
  <2>3. /\ \A g \in Handler \ {h} : task'[g] = task[g]
        /\ task'[h].pc = "publish" /\ task'[h].event.orderId = o
        /\ UNCHANGED <<log, acknowledged>>
    BY <1>5, <2>1 DEF SagaConfirm, SagaCancel, MakeEvent, busVars, TypeOK, OrderTypeOK
  <2>4. Begun(o)'
    BY <2>2, BegunStays DEF Begun
  <2>5. TaskBegun(h)'
    BY <2>3, <2>4 DEF TaskBegun, Begun
  <2> QED
    BY <1>1, <2>3, <2>5, HandsBegun, LogKeepsFollowing
<1>6. ASSUME NEW h \in Handler, OrderPublish(h)
      PROVE  LogFollows' /\ AnswersBegun' /\ \A g \in Handler : TaskBegun(g)'
  <2>1. PICK e : e = task[h].event
    OBVIOUS
  <2>2. /\ e \in Event /\ e.type \in {"order.created", "order.confirmed", "order.cancelled"}
        /\ e.type = "order.created" \/ Begun(e.orderId)
        /\ Publish("order.events", e)
    BY <1>6, <2>1, TaskFields
    DEF OrderPublish, TypeOK, Provenance, TaskVouched, TaskBegun
  <2>3. LogFollows'
    BY <2>2, PublishFollows DEF Home, Topic
  <2>4. Begun(e.orderId)'
    BY <2>2, PublishBegins, BegunStays DEF Begun
  <2>5. /\ acknowledged' \subseteq acknowledged \cup {e.orderId}
        /\ task'[h] \in {Idle, task[h]} /\ \A g \in Handler \ {h} : task'[g] = task[g]
    BY <1>6, <2>1 DEF OrderPublish, TypeOK, OrderTypeOK
  <2>6. AnswersBegun'
    <3>1. \A o \in acknowledged : o \in Order /\ Begun(o)
      BY DEF AnswersBegun, TypeOK, OrderTypeOK
    <3>2. \A o \in acknowledged : Begun(o)'
      BY <3>1, BegunStays DEF Begun
    <3>3. \A o \in acknowledged' : o \in acknowledged \/ o = e.orderId
      BY <2>5
    <3> QED
      BY <2>4, <3>2, <3>3 DEF AnswersBegun, Begun
  <2>7. TaskBegun(h)'
    <3>1. CASE task'[h] = Idle
      BY <3>1 DEF TaskBegun, Idle
    <3> QED
      BY <2>5, <3>1, HandsBegun
  <2> QED
    BY <1>1, <2>3, <2>5, <2>6, <2>7
<1>7. ASSUME NEW h \in Handler, SagaError(h) \/ OrderStop(h)
      PROVE  LogFollows' /\ AnswersBegun' /\ \A g \in Handler : TaskBegun(g)'
  <2>1. /\ task'[h] = Idle /\ \A g \in Handler \ {h} : task'[g] = task[g]
        /\ UNCHANGED <<log, acknowledged>>
    BY <1>7 DEF SagaError, OrderStop, TypeOK, OrderTypeOK
  <2>2. TaskBegun(h)'
    BY <2>1 DEF TaskBegun, Idle
  <2> QED
    BY <1>1, <2>1, <2>2, HandsBegun, LogKeepsFollowing
<1> QED
  BY <1>2, <1>3, <1>4, <1>5, <1>6, <1>7 DEF OrderNext, SagaWorkerStep, RequestStep, Handler

LEMMA InventoryBegun ==
    ASSUME TypeOK, Outcomes, BegunInv, [Next]_vars, NEW w \in InvWorker,
           InvWorkerStep(w) \/ InvFaultStep(w)
    PROVE  LogFollows' /\ \A v \in InvWorker : InvBegun(v)'
<1> USE DEF BegunInv
<1>1. ASSUME \A v \in InvWorker \ {w} : inv'[v] = inv[v], InvBegun(w)'
      PROVE  \A v \in InvWorker : InvBegun(v)'
  BY <1>1, HandsBegun
<1>2. inv \in [InvWorker -> InventoryTask] /\ \A v \in InvWorker : v # w => inv'[v] = inv[v]
  BY DEF InvWorkerStep, InvFaultStep, InvRead, InvReserve, InvRefuse, InvReserveError, InvRelease,
         InvReleaseError, InvPublish, InvStop, Report, TypeOK, InventoryTypeOK
<1>3. ASSUME NEW p \in Partition, InvRead(w, p)
      PROVE  LogFollows' /\ InvBegun(w)'
  <2>1. PICK i, e : i = invOffset[p] + 1 /\ e = log["order.events"][p][i]
    OBVIOUS
  <2>2. i \in DOMAIN log["order.events"][p] /\ "order.events" \in Topic
    <3>1. "order.events" \in Topic /\ invOffset[p] \in Nat
      BY DEF TypeOK, InventoryTypeOK, Topic
    <3>2. /\ DOMAIN log["order.events"][p] = 1..Len(log["order.events"][p])
          /\ Len(log["order.events"][p]) \in Nat
      BY <3>1, LogFacts
    <3> QED
      BY <1>3, <2>1, <3>1, <3>2 DEF InvRead, HasNext
  <2>3. Begun(e.orderId)
    BY <2>1, <2>2, ReadBegun
  <2>4. Begun(e.orderId)'
    BY <2>3, BegunStays DEF Begun
  <2>5. inv'[w] = InvHandle(e) /\ UNCHANGED log
    BY <1>2, <1>3, <2>1 DEF InvRead, NextEvent, busVars
  <2>6. InvBegun(w)'
    BY <2>4, <2>5 DEF InvBegun, InvHandle, Idle, Begun
  <2> QED
    BY <2>5, <2>6, LogKeepsFollowing
<1>4. ASSUME InvReserve(w) \/ InvRefuse(w) \/ InvReserveError(w) \/ InvRelease(w)
      PROVE  LogFollows' /\ InvBegun(w)'
  <2>1. inv[w].pc # "idle" /\ UNCHANGED log
    BY <1>4 DEF InvReserve, InvRefuse, InvReserveError, InvRelease, busVars
  <2>2. inv'[w].event.orderId = inv[w].event.orderId
    BY <1>2, <1>4 DEF InvReserve, InvRefuse, InvReserveError, InvRelease, Report, MakeEvent
  <2>3. InvBegun(w)'
    BY <2>1, <2>2, BegunStays DEF InvBegun, Begun
  <2> QED
    BY <2>1, <2>3, LogKeepsFollowing
<1>5. ASSUME InvPublish(w)
      PROVE  LogFollows' /\ InvBegun(w)'
  <2>1. PICK e : e = inv[w].event
    OBVIOUS
  <2>2. /\ e \in Event /\ Begun(e.orderId) /\ Publish("inventory.events", e)
        /\ e.type \in {"inventory.reserved", "inventory.failed", "inventory.released"}
    BY <1>5, <2>1, InvFields DEF InvPublish, InvBegun, Outcomes
  <2>3. LogFollows'
    BY <2>2, PublishFollows DEF Home, Topic
  <2>4. InvBegun(w)'
    <3>1. inv'[w] \in {Idle, inv[w]}
      BY <1>2, <1>5 DEF InvPublish
    <3> QED
      BY <3>1, HandsBegun DEF InvBegun, Idle
  <2> QED
    BY <2>3, <2>4
<1>6. ASSUME InvReleaseError(w) \/ InvStop(w)
      PROVE  LogFollows' /\ InvBegun(w)'
  <2>1. inv'[w] = Idle /\ UNCHANGED log
    BY <1>2, <1>6 DEF InvReleaseError, InvStop
  <2> QED
    BY <2>1, LogKeepsFollowing DEF InvBegun, Idle
<1> QED
  BY <1>1, <1>2, <1>3, <1>4, <1>5, <1>6 DEF InvWorkerStep, InvFaultStep

LEMMA PaymentBegun ==
    ASSUME TypeOK, Outcomes, BegunInv, [Next]_vars, NEW w \in PayWorker,
           PayWorkerStep(w) \/ PayInsertError(w) \/ PayStop(w)
    PROVE  LogFollows' /\ \A v \in PayWorker : PayBegun(v)'
<1> USE DEF BegunInv
<1>1. ASSUME \A v \in PayWorker \ {w} : pay'[v] = pay[v], PayBegun(w)'
      PROVE  \A v \in PayWorker : PayBegun(v)'
  BY <1>1, HandsBegun
<1>2. pay \in [PayWorker -> PaymentTask] /\ \A v \in PayWorker : v # w => pay'[v] = pay[v]
  BY DEF PayWorkerStep, PayRead, PayInsert, PayInsertError, PayCharge, PayRecord, PayPublish,
         PayStop, TypeOK, PaymentTypeOK
<1>3. ASSUME NEW p \in Partition, PayRead(w, p)
      PROVE  LogFollows' /\ PayBegun(w)'
  <2>1. PICK i, e : i = payOffset[p] + 1 /\ e = log["inventory.events"][p][i]
    OBVIOUS
  <2>2. i \in DOMAIN log["inventory.events"][p] /\ "inventory.events" \in Topic
    <3>1. "inventory.events" \in Topic /\ payOffset[p] \in Nat
      BY DEF TypeOK, PaymentTypeOK, Topic
    <3>2. /\ DOMAIN log["inventory.events"][p] = 1..Len(log["inventory.events"][p])
          /\ Len(log["inventory.events"][p]) \in Nat
      BY <3>1, LogFacts
    <3> QED
      BY <1>3, <2>1, <3>1, <3>2 DEF PayRead, HasNext
  <2>3. Begun(e.orderId)
    BY <2>1, <2>2, ReadBegun
  <2>4. Begun(e.orderId)'
    BY <2>3, BegunStays DEF Begun
  <2>5. pay'[w] = PayHandle(e) /\ UNCHANGED log
    BY <1>2, <1>3, <2>1 DEF PayRead, NextEvent, busVars
  <2>6. PayBegun(w)'
    BY <2>4, <2>5 DEF PayBegun, PayHandle, Idle, Begun
  <2> QED
    BY <2>5, <2>6, LogKeepsFollowing
<1>4. ASSUME PayInsert(w) \/ PayCharge(w) \/ PayRecord(w)
      PROVE  LogFollows' /\ PayBegun(w)'
  <2>1. pay[w].pc # "idle" /\ UNCHANGED log
    BY <1>4 DEF PayInsert, PayCharge, PayRecord, busVars
  <2>2. pay'[w].event.orderId = pay[w].event.orderId
    <3>0. PayInsert(w) => pay'[w].event = pay[w].event
      BY <1>2 DEF PayInsert
    <3>1. PayCharge(w) => pay'[w].event = pay[w].event
      BY <1>2 DEF PayCharge
    <3>2. PayRecord(w) => pay'[w].event.orderId = pay[w].event.orderId
      BY <1>2 DEF PayRecord, Outcome, MakeEvent
    <3> QED
      BY <1>4, <3>0, <3>1, <3>2
  <2>3. PayBegun(w)'
    BY <2>1, <2>2, BegunStays DEF PayBegun, Begun
  <2> QED
    BY <2>1, <2>3, LogKeepsFollowing
<1>5. ASSUME PayPublish(w)
      PROVE  LogFollows' /\ PayBegun(w)'
  <2>1. PICK e : e = pay[w].event
    OBVIOUS
  <2>2. /\ e \in Event /\ Begun(e.orderId) /\ Publish("payment.events", e)
        /\ e.type \in {"payment.confirmed", "payment.failed"}
    BY <1>5, <2>1, PayFields DEF PayPublish, PayBegun, Outcomes
  <2>3. LogFollows'
    BY <2>2, PublishFollows DEF Home, Topic
  <2>4. PayBegun(w)'
    <3>1. pay'[w] \in {Idle, pay[w]}
      BY <1>2, <1>5 DEF PayPublish
    <3> QED
      BY <3>1, HandsBegun DEF PayBegun, Idle
  <2> QED
    BY <2>3, <2>4
<1>6. ASSUME PayInsertError(w) \/ PayStop(w)
      PROVE  LogFollows' /\ PayBegun(w)'
  <2>1. pay'[w] = Idle /\ UNCHANGED log
    BY <1>2, <1>6 DEF PayInsertError, PayStop
  <2> QED
    BY <2>1, LogKeepsFollowing DEF PayBegun, Idle
<1> QED
  BY <1>1, <1>2, <1>3, <1>4, <1>5, <1>6 DEF PayWorkerStep

LEMMA BegunStep ==
    ASSUME TypeOK, Provenance, Outcomes, BegunInv, [Next]_vars
    PROVE  BegunInv'
<1>0. /\ UNCHANGED task => \A h \in Handler : TaskBegun(h)'
      /\ UNCHANGED inv => \A w \in InvWorker : InvBegun(w)'
      /\ UNCHANGED pay => \A w \in PayWorker : PayBegun(w)'
      /\ UNCHANGED acknowledged => AnswersBegun'
  BY HandsBegun DEF BegunInv
<1>1. CASE OrderNext /\ UNCHANGED <<inventoryVars, paymentVars>>
  BY <1>0, <1>1, OrderBegun DEF BegunInv, inventoryVars, paymentVars
<1>2. CASE InventoryNext /\ UNCHANGED <<orderVars, paymentVars>>
  BY <1>0, <1>2, InventoryBegun DEF BegunInv, InventoryNext, orderVars, paymentVars
<1>3. CASE PaymentNext /\ UNCHANGED <<orderVars, inventoryVars>>
  BY <1>0, <1>3, PaymentBegun DEF BegunInv, PaymentNext, orderVars, inventoryVars
<1>4. CASE UNCHANGED vars
  <2>1. LogFollows'
    BY <1>4, LogKeepsFollowing DEF BegunInv, vars, busVars
  <2> QED
    BY <1>0, <1>4, <2>1 DEF BegunInv, vars, orderVars, inventoryVars, paymentVars
<1> QED
  BY <1>1, <1>2, <1>3, <1>4 DEF Next, Waiting

LEMMA BegunInit == Init => BegunInv
BY DEF Init, BusInit, OrderInit, InventoryInit, PaymentInit, Idle, Topic,
       BegunInv, LogFollows, AnswersBegun, TaskBegun, InvBegun, PayBegun

-----------------------------------------------------------------------------
(* Only the request that created an order begins it.                       *)

(* Only order-service writes to order.events. *)
LEMMA WritesOrderEvents ==
    ASSUME TypeOK, [Next]_vars
    PROVE  log'["order.events"] = log["order.events"] \/ \E h \in Handler : OrderPublish(h)
<1>0. log \in [Topic -> [Partition -> Seq(Event)]]
  BY DEF TypeOK, BusTypeOK
<1>1. CASE OrderNext
  BY <1>1
  DEF OrderNext, SagaWorkerStep, RequestStep, CreateOrder, CancelOrder, SagaRead, SagaConfirm,
      SagaCancel, SagaError, OrderStop, busVars, Handler
<1>2. CASE InventoryNext
  BY <1>0, <1>2
  DEF InventoryNext, InvWorkerStep, InvFaultStep, InvRead, InvReserve, InvRefuse, InvReserveError,
      InvRelease, InvReleaseError, InvPublish, InvStop, busVars, Publish, Topic
<1>3. CASE PaymentNext
  BY <1>0, <1>3
  DEF PaymentNext, PayWorkerStep, PayRead, PayInsert, PayInsertError, PayCharge, PayRecord,
      PayPublish, PayStop, busVars, Publish, Topic
<1> QED
  BY <1>1, <1>2, <1>3 DEF Next, Waiting, vars, busVars

(* An order.created that is new was in the hands of a request. *)
LEMMA CreatedNew ==
    ASSUME TypeOK, [Next]_vars, NEW o \in Order, NEW k \in Nat, CreatedAt(o, k)', ~ CreatedAt(o, k)
    PROVE  /\ \E h \in Handler : Creates(h, o) /\ OrderPublish(h)
           /\ k = Len(log["order.events"][PartitionOf[o]]) + 1
<1>1. PartitionOf[o] \in Partition /\ "order.events" \in Topic
  BY PartitionAssumption DEF Topic
<1>2. PICK h \in Handler : OrderPublish(h)
  BY WritesOrderEvents DEF CreatedAt
<1>3. PICK e : e = task[h].event
  OBVIOUS
<1>4. e \in Event /\ Publish("order.events", e) /\ task[h].pc = "publish"
  BY <1>2, <1>3, TaskFields DEF OrderPublish, TypeOK
<1>5. /\ k = Len(log["order.events"][PartitionOf[o]]) + 1
      /\ log'["order.events"][PartitionOf[o]][k] = e
  BY <1>1, <1>4, PublishAdds DEF CreatedAt
<1> QED
  BY <1>2, <1>3, <1>4, <1>5 DEF CreatedAt, Creates

LEMMA BeginsNew ==
    ASSUME TypeOK, [Next]_vars, NEW o \in Order, NEW h \in Handler, Creates(h, o)', ~ Creates(h, o)
    PROVE  orders[o].status = "none" /\ UNCHANGED log /\ \A g \in Handler \ {h} : task'[g] = task[g]
<1>0. task \in [Handler -> OrderTask]
  BY DEF TypeOK, OrderTypeOK
<1>1. ASSUME NEW g \in Handler, UNCHANGED log, \A f \in Handler \ {g} : task'[f] = task[f],
             task'[g].pc = "publish" => task'[g].event.type # "order.created"
      PROVE  FALSE
  BY <1>1 DEF Creates
<1>2. ASSUME NEW r \in Request, NEW q \in Order, NEW items \in Cart, CreateOrder(r, q, items)
      PROVE  orders[o].status = "none" /\ UNCHANGED log /\ \A g \in Handler \ {h} : task'[g] = task[g]
  BY <1>0, <1>2 DEF CreateOrder, MakeEvent, Creates, busVars, Handler
<1>3. ASSUME NEW r \in Request, NEW q \in Order, CancelOrder(r, q)
      PROVE  FALSE
  BY <1>0, <1>3 DEF CancelOrder, Creates, Handler
<1>4. ASSUME NEW w \in SagaWorker, NEW t \in SagaTopic, NEW p \in Partition, SagaRead(w, t, p)
      PROVE  FALSE
  BY <1>0, <1>4 DEF SagaRead, Handle, Idle, Creates, Handler
<1>5. ASSUME NEW g \in Handler,
             SagaConfirm(g) \/ SagaCancel(g) \/ SagaError(g) \/ OrderStop(g)
      PROVE  FALSE
  BY <1>0, <1>5 DEF SagaConfirm, SagaCancel, SagaError, OrderStop, MakeEvent, Idle, Creates
<1>6. ASSUME NEW g \in Handler, OrderPublish(g)
      PROVE  FALSE
  BY <1>0, <1>6 DEF OrderPublish, Idle, Creates
<1>7. CASE OrderNext
  BY <1>2, <1>3, <1>4, <1>5, <1>6, <1>7 DEF OrderNext, SagaWorkerStep, RequestStep, Handler
<1>8. CASE UNCHANGED task
  BY <1>8 DEF Creates
<1> QED
  BY <1>7, <1>8 DEF Next, Waiting, vars, orderVars

(* What has begun or is to begin is in the orders table. *)
LEMMA BegunIsStored ==
    ASSUME TypeOK, Provenance, NEW o \in Order
    PROVE  /\ Begun(o) => orders[o].status # "none"
           /\ \A h \in Handler : Creates(h, o) => orders[o].status # "none"
<1>1. PartitionOf[o] \in Partition /\ "order.events" \in Topic
  BY PartitionAssumption DEF Topic
<1>2. \A j \in Nat : CreatedAt(o, j) => orders[o].status # "none"
  BY <1>1 DEF Provenance, LogVouched, Vouched, CreatedAt
<1> QED
  BY <1>2 DEF Begun, Underway, Creates, Provenance, TaskVouched, Vouched

LEMMA BeginsOnceStep ==
    ASSUME TypeOK, Provenance, NoRepeat', BeginsOnce, [Next]_vars
    PROVE  BeginsOnce'
<1> SUFFICES ASSUME NEW o \in Order
             PROVE  /\ \A i, j \in Nat : CreatedAt(o, i)' /\ CreatedAt(o, j)' => i = j
                    /\ \A h \in Handler : Creates(h, o)' => ~ Begun(o)'
                    /\ \A g, h \in Handler : Creates(g, o)' /\ Creates(h, o)' => g = h
  BY DEF BeginsOnce
<1>1. CASE \E k \in Nat : CreatedAt(o, k)' /\ ~ CreatedAt(o, k)
  <2>1. PICK k \in Nat : CreatedAt(o, k)' /\ ~ CreatedAt(o, k)
    BY <1>1
  <2>2. PICK h \in Handler : Creates(h, o) /\ OrderPublish(h)
    BY <2>1, CreatedNew
  <2>3. \A j \in Nat : ~ CreatedAt(o, j)
    BY <2>2 DEF BeginsOnce, Begun, Underway
  <2>4. \A j \in Nat : CreatedAt(o, j)' => j = k
    BY <2>1, <2>3, CreatedNew
  <2>5. task'[h] = Idle /\ \A g \in Handler \ {h} : task'[g] = task[g]
    <3>1. faults \in Nat
      BY DEF TypeOK, BusTypeOK
    <3> QED
      BY <2>2, <3>1 DEF OrderPublish, NoRepeat, Fault, TypeOK, OrderTypeOK
  <2>6. \A g \in Handler : ~ Creates(g, o)'
    BY <2>2, <2>5 DEF BeginsOnce, Creates, Idle
  <2> QED
    BY <2>4, <2>6
<1>2. CASE ~ \E k \in Nat : CreatedAt(o, k)' /\ ~ CreatedAt(o, k)
  <2>1. \A i, j \in Nat : CreatedAt(o, i)' /\ CreatedAt(o, j)' => i = j
    BY <1>2 DEF BeginsOnce
  <2>2. Begun(o)' => Begun(o)
    BY <1>2 DEF Begun, Underway
  <2>3. ASSUME NEW h \in Handler, Creates(h, o)'
        PROVE  ~ Begun(o)' /\ \A g \in Handler : Creates(g, o)' => g = h
    <3>1. CASE \A g \in Handler : Creates(g, o)' => Creates(g, o)
      BY <2>2, <2>3, <3>1 DEF BeginsOnce
    <3>2. ASSUME NEW f \in Handler, Creates(f, o)', ~ Creates(f, o)
          PROVE  ~ Begun(o)' /\ \A g \in Handler : Creates(g, o)' => g = h
      <4>1. orders[o].status = "none" /\ \A g \in Handler \ {f} : task'[g] = task[g]
        BY <3>2, BeginsNew
      <4>2. \A g \in Handler \ {f} : ~ Creates(g, o)'
        BY <4>1, BegunIsStored DEF Creates
      <4> QED
        BY <2>2, <2>3, <4>1, <4>2, BegunIsStored
    <3> QED
      BY <3>1, <3>2
  <2> QED
    BY <2>1, <2>3
<1> QED
  BY <1>1, <1>2

-----------------------------------------------------------------------------
(* What a cancelled order held is given back.                              *)

(* inventory-service has read that the order is cancelled. *)
KnownCancelled(o) ==
    LET q == PartitionOf[o] IN
      \E i \in DOMAIN log["order.events"][q] :
          /\ i <= invOffset[q]
          /\ log["order.events"][q][i].type = "order.cancelled"
          /\ log["order.events"][q][i].orderId = o

Releases(w, o) == inv[w].pc = "release" /\ inv[w].event.orderId = o
Reserves(w, o) == inv[w].pc = "reserve" /\ inv[w].event.orderId = o

(* From then on it holds nothing, or its release is next. *)
CancelledGivesBack ==
    \A o \in Order : KnownCancelled(o) =>
        /\ HoldsNothing(o) \/ \E w \in InvWorker : Releases(w, o)
        /\ \A w \in InvWorker : ~ Reserves(w, o)

StockInv ==
    /\ TurnInv
    /\ BegunInv
    /\ NoRepeat => BeginsOnce
    /\ faults = 0 => CancelledGivesBack

(* It learns of a cancellation by reading it. *)
LEMMA KnownNew ==
    ASSUME TurnInv, [Next]_vars, NEW o \in Order, KnownCancelled(o)', ~ KnownCancelled(o)
    PROVE  \E w \in InvWorker : InvRead(w, PartitionOf[o]) /\ Releases(w, o)'
<1>1. PICK q : q = PartitionOf[o]
  OBVIOUS
<1>2. /\ q \in Partition /\ "order.events" \in Topic
      /\ invOffset[q] \in Nat /\ invOffset[q] <= Len(log["order.events"][q])
  BY <1>1, PartitionAssumption DEF Topic, TurnInv, Offsets, TypeOK, InventoryTypeOK
<1>3. /\ DOMAIN log["order.events"][q] = 1..Len(log["order.events"][q])
      /\ Len(log["order.events"][q]) \in Nat
  BY <1>2, LogFacts DEF TurnInv
<1>4. PICK i \in DOMAIN log'["order.events"][q] :
          /\ i <= invOffset'[q]
          /\ log'["order.events"][q][i].type = "order.cancelled"
          /\ log'["order.events"][q][i].orderId = o
  BY <1>1 DEF KnownCancelled
<1>5. i \in Nat /\ i >= 1
  <2>1. TypeOK'
    BY TypeStep DEF TurnInv
  <2>2. log'["order.events"][q] \in Seq(Event)
    BY <1>2, <2>1 DEF TypeOK, BusTypeOK
  <2> QED
    BY <1>4, <2>2, LenProperties
<1>6. ASSUME i <= invOffset[q]
      PROVE  FALSE
  <2>1. i \in DOMAIN log["order.events"][q]
    BY <1>2, <1>3, <1>5, <1>6
  <2>2. log'["order.events"][q][i] = log["order.events"][q][i]
    BY <1>2, <2>1, EventsStay DEF TurnInv
  <2> QED
    BY <1>1, <1>4, <1>6, <2>1, <2>2 DEF KnownCancelled
<1>7. PICK w \in InvWorker, p \in Partition : InvRead(w, p)
  <2>1. invOffset' # invOffset
    BY <1>4, <1>6
  <2> QED
    BY <2>1
    DEF Next, Waiting, vars, inventoryVars, InventoryNext, InvWorkerStep, InvFaultStep,
        InvReserve, InvRefuse, InvReserveError, InvRelease, InvReleaseError, InvPublish, InvStop
<1>8. p = q /\ i = invOffset[q] + 1
  BY <1>2, <1>4, <1>5, <1>6, <1>7 DEF InvRead, TurnInv, TypeOK, InventoryTypeOK
<1>9. inv'[w] = InvHandle(log["order.events"][q][i]) /\ UNCHANGED log
  BY <1>7, <1>8 DEF InvRead, NextEvent, busVars, TurnInv, TypeOK, InventoryTypeOK
<1> QED
  BY <1>1, <1>4, <1>7, <1>8, <1>9 DEF Releases, InvHandle

(* It comes to reserve for an order by reading its order.created. *)
LEMMA ReservesNew ==
    ASSUME TurnInv, BegunInv, [Next]_vars, NEW o \in Order, NEW w \in InvWorker,
           Reserves(w, o)', ~ Reserves(w, o)
    PROVE  /\ InvRead(w, PartitionOf[o])
           /\ CreatedAt(o, invOffset[PartitionOf[o]] + 1)
<1>0. TypeOK /\ inv \in [InvWorker -> InventoryTask]
  BY DEF TurnInv, TypeOK, InventoryTypeOK
<1>1. PICK v \in InvWorker, p \in Partition : InvRead(v, p)
  <2>1. ASSUME NEW v \in InvWorker,
               \/ InvReserve(v) \/ InvRefuse(v) \/ InvRelease(v) \/ InvPublish(v)
               \/ InvReserveError(v) \/ InvReleaseError(v) \/ InvStop(v)
        PROVE  FALSE
    BY <1>0, <2>1
    DEF InvReserve, InvRefuse, InvReserveError, InvRelease, InvReleaseError, InvPublish, InvStop,
        Report, Idle, Reserves
  <2>2. CASE UNCHANGED inv
    BY <2>2 DEF Reserves
  <2> QED
    BY <2>1, <2>2
    DEF Next, Waiting, vars, inventoryVars, InventoryNext, InvWorkerStep, InvFaultStep
<1>2. PICK i, e : i = invOffset[p] + 1 /\ e = log["order.events"][p][i]
  OBVIOUS
<1>3. v = w /\ inv'[w] = InvHandle(e)
  BY <1>0, <1>1, <1>2 DEF InvRead, NextEvent, Reserves
<1>4. e.type = "order.created" /\ e.orderId = o
  BY <1>3 DEF InvHandle, Idle, Reserves
<1>5. i \in DOMAIN log["order.events"][p] /\ "order.events" \in Topic
  <2>1. "order.events" \in Topic /\ invOffset[p] \in Nat
    BY <1>0 DEF TypeOK, InventoryTypeOK, Topic
  <2>2. /\ DOMAIN log["order.events"][p] = 1..Len(log["order.events"][p])
        /\ Len(log["order.events"][p]) \in Nat
    BY <1>0, <2>1, LogFacts
  <2> QED
    BY <1>1, <1>2, <2>1, <2>2 DEF InvRead, HasNext
<1>6. p = PartitionOf[o]
  BY <1>2, <1>4, <1>5 DEF BegunInv, LogFollows, Follows
<1> QED
  BY <1>1, <1>2, <1>3, <1>4, <1>5, <1>6 DEF CreatedAt

(* The units of an order go only with its reservation or its release. *)
LEMMA HoldsOn ==
    ASSUME TurnInv, [Next]_vars, faults' = 0, NEW o \in Order,
           \A w \in InvWorker : ~ Reserves(w, o),
           HoldsNothing(o) \/ \E w \in InvWorker : Releases(w, o)
    PROVE  (HoldsNothing(o) \/ \E w \in InvWorker : Releases(w, o))'
<1>0. /\ TypeOK /\ inv \in [InvWorker -> InventoryTask] /\ faults \in Nat
      /\ reservations \in [Order -> [active : [Product -> Nat], released : [Product -> Nat]]]
  BY DEF TurnInv, TypeOK, BusTypeOK, InventoryTypeOK, LedgerTypeOK
<1>1. ASSUME UNCHANGED reservations, \A w \in InvWorker : Releases(w, o) => inv'[w] = inv[w]
      PROVE  (HoldsNothing(o) \/ \E w \in InvWorker : Releases(w, o))'
  BY <1>1 DEF HoldsNothing, Held, Releases, NoUnits
<1>2. ASSUME NEW w \in InvWorker, InvReserve(w)
      PROVE  (HoldsNothing(o) \/ \E v \in InvWorker : Releases(v, o))'
  <2>1. inv[w].event.orderId \in Order /\ inv[w].event.orderId # o
    BY <1>0, <1>2, InvFields DEF InvReserve, Reserves, Event
  <2>2. reservations'[o] = reservations[o]
    BY <1>0, <1>2, <2>1 DEF InvReserve, ReserveOrder
  <2>3. \A v \in InvWorker : Releases(v, o) => inv'[v] = inv[v]
    BY <1>0, <1>2 DEF InvReserve, Report, Releases
  <2> QED
    BY <2>2, <2>3 DEF HoldsNothing, Held, Releases, NoUnits
<1>3. ASSUME NEW w \in InvWorker, InvRelease(w)
      PROVE  (HoldsNothing(o) \/ \E v \in InvWorker : Releases(v, o))'
  <2>1. inv[w].event.orderId \in Order
    BY <1>0, <1>3, InvFields DEF InvRelease, Event
  <2>2. CASE inv[w].event.orderId = o
    <3>1. reservations'[o].active = NoUnits
      BY <1>0, <1>3, <2>1, <2>2 DEF InvRelease, ReleaseOrder
    <3> QED
      BY <3>1 DEF HoldsNothing, Held, NoUnits
  <2>3. CASE inv[w].event.orderId # o
    <3>1. reservations'[o] = reservations[o]
      BY <1>0, <1>3, <2>1, <2>3 DEF InvRelease, ReleaseOrder
    <3>2. \A v \in InvWorker : Releases(v, o) => inv'[v] = inv[v]
      BY <1>0, <1>3, <2>3 DEF InvRelease, Report, Releases
    <3> QED
      BY <3>1, <3>2 DEF HoldsNothing, Held, Releases, NoUnits
  <2> QED
    BY <2>2, <2>3
<1>4. ASSUME NEW w \in InvWorker, (\E p \in Partition : InvRead(w, p)) \/ InvRefuse(w) \/ InvPublish(w)
      PROVE  (HoldsNothing(o) \/ \E v \in InvWorker : Releases(v, o))'
  <2>1. UNCHANGED reservations
    BY <1>4 DEF InvRead, InvRefuse, InvPublish
  <2>2. \A v \in InvWorker : Releases(v, o) => inv'[v] = inv[v]
    BY <1>0, <1>4 DEF InvRead, InvRefuse, InvPublish, Report, Releases, Idle
  <2> QED
    BY <1>1, <2>1, <2>2
<1>5. ASSUME NEW w \in InvWorker, InvFaultStep(w)
      PROVE  FALSE
  BY <1>0, <1>5 DEF InvFaultStep, InvReserveError, InvReleaseError, InvStop, Fault
<1>6. CASE InventoryNext
  BY <1>2, <1>3, <1>4, <1>5, <1>6 DEF InventoryNext, InvWorkerStep
<1>7. CASE UNCHANGED inventoryVars
  BY <1>1, <1>7 DEF inventoryVars
<1> QED
  BY <1>6, <1>7 DEF Next, Waiting, vars, inventoryVars

LEMMA GivesBackStep ==
    ASSUME TurnInv, BegunInv, BeginsOnce, CancelledGivesBack, [Next]_vars, faults' = 0,
           \A u, v \in InvWorker : u = v
    PROVE  CancelledGivesBack'
<1> SUFFICES ASSUME NEW o \in Order, KnownCancelled(o)'
             PROVE  /\ (HoldsNothing(o) \/ \E w \in InvWorker : Releases(w, o))'
                    /\ \A w \in InvWorker : ~ Reserves(w, o)'
  BY DEF CancelledGivesBack
<1>1. CASE ~ KnownCancelled(o)
  <2>1. PICK w \in InvWorker : Releases(w, o)'
    BY <1>1, KnownNew
  <2>2. \A v \in InvWorker : ~ Reserves(v, o)'
    BY <2>1 DEF Releases, Reserves
  <2> QED
    BY <2>1, <2>2
<1>2. CASE KnownCancelled(o)
  <2>1. /\ HoldsNothing(o) \/ \E w \in InvWorker : Releases(w, o)
        /\ \A w \in InvWorker : ~ Reserves(w, o)
    BY <1>2 DEF CancelledGivesBack
  <2>2. ASSUME NEW w \in InvWorker, Reserves(w, o)'
        PROVE  FALSE
    <3>1. PICK q, k : q = PartitionOf[o] /\ k = invOffset[q] + 1
      OBVIOUS
    <3>2. CreatedAt(o, k)
      BY <2>1, <2>2, <3>1, ReservesNew
    <3>3. PICK i \in DOMAIN log["order.events"][q] :
              /\ i <= invOffset[q]
              /\ log["order.events"][q][i].type = "order.cancelled"
              /\ log["order.events"][q][i].orderId = o
      BY <1>2, <3>1 DEF KnownCancelled
    <3>4. q \in Partition /\ "order.events" \in Topic /\ invOffset[q] \in Nat /\ i \in Nat
      <4>1. q \in Partition /\ "order.events" \in Topic
        BY <3>1, PartitionAssumption DEF Topic
      <4> QED
        BY <3>3, <4>1, LogFacts DEF TurnInv, TypeOK, InventoryTypeOK
    <3>5. PICK j \in Nat : CreatedAt(o, j) /\ j < i
      BY <3>3, <3>4 DEF BegunInv, LogFollows, Follows
    <3>6. j = k
      BY <3>1, <3>2, <3>4, <3>5 DEF BeginsOnce
    <3> QED
      BY <3>1, <3>3, <3>4, <3>5, <3>6
  <2> QED
    BY <2>1, <2>2, HoldsOn
<1> QED
  BY <1>1, <1>2

LEMMA StockInvInit == Init => StockInv
<1> SUFFICES ASSUME Init PROVE StockInv
  OBVIOUS
<1>1. TurnInv /\ BegunInv
  BY TurnInvInit, BegunInit
<1>2. BeginsOnce /\ CancelledGivesBack
  <2>1. \A o \in Order : \A j : PartitionOf[o] \in Partition /\ ~ CreatedAt(o, j)
    BY PartitionAssumption DEF Init, BusInit, Topic, CreatedAt
  <2>2. BeginsOnce
    BY <2>1 DEF Init, OrderInit, Idle, BeginsOnce, Creates
  <2>3. CancelledGivesBack
    BY <2>1 DEF Init, BusInit, Topic, CancelledGivesBack, KnownCancelled
  <2> QED
    BY <2>2, <2>3
<1> QED
  BY <1>1, <1>2 DEF StockInv

LEMMA StockInvStep ==
    ASSUME \A u, v \in InvWorker : u = v
    PROVE  StockInv /\ [Next]_vars => StockInv'
<1> SUFFICES ASSUME StockInv, [Next]_vars PROVE StockInv'
  OBVIOUS
<1>1. TurnInv' /\ BegunInv'
  BY TurnInvStep, BegunStep DEF StockInv, TurnInv
<1>2. faults \in Nat /\ (faults' = faults \/ faults' = faults + 1)
  BY FaultsGrow DEF StockInv, TurnInv, TypeOK, BusTypeOK
<1>3. NoRepeat' => BeginsOnce'
  BY <1>2, BeginsOnceStep DEF StockInv, TurnInv, NoRepeat
<1>4. faults' = 0 => CancelledGivesBack'
  BY <1>2, GivesBackStep DEF StockInv, NoRepeat
<1> QED
  BY <1>1, <1>3, <1>4 DEF StockInv

(* While nothing fails, and one consumer of inventory-service runs, an     *)
(* order whose order.cancelled is out holds no stock once the services     *)
(* have come to rest: whatever the cancel met on its way, the reservation  *)
(* still ahead included (README.md:65-67).                                 *)
THEOREM CancelledIsReleased ==
    ASSUME MaxFaults = 0, \A u, v \in InvWorker : u = v
    PROVE  Spec => []CancelledHoldsNoStock
<1>1. StockInv => CancelledHoldsNoStock
  <2> SUFFICES ASSUME StockInv, Quiescent, NEW o \in Order,
                      HasEvent("order.events", "order.cancelled", o)
               PROVE  HoldsNothing(o)
    BY DEF CancelledHoldsNoStock
  <2>1. PICK p \in Partition : \E i \in DOMAIN log["order.events"][p] :
            /\ log["order.events"][p][i].type = "order.cancelled"
            /\ log["order.events"][p][i].orderId = o
    BY DEF HasEvent, Published
  <2>2. PICK i \in DOMAIN log["order.events"][p] :
            /\ log["order.events"][p][i].type = "order.cancelled"
            /\ log["order.events"][p][i].orderId = o
    BY <2>1
  <2>3. TypeOK /\ "order.events" \in Topic
    BY DEF StockInv, TurnInv, Topic
  <2>4. p = PartitionOf[o]
    BY <2>2, <2>3 DEF StockInv, BegunInv, LogFollows, Follows
  <2>5. i <= invOffset[p]
    <3>1. i \in 1..Len(log["order.events"][p]) /\ Len(log["order.events"][p]) \in Nat
      BY <2>3, LogFacts
    <3>2. invOffset[p] \in Nat /\ ~ (invOffset[p] < Len(log["order.events"][p]))
      BY <2>3 DEF Quiescent, HasNext, TypeOK, InventoryTypeOK
    <3> QED
      BY <3>1, <3>2
  <2>6. KnownCancelled(o)
    BY <2>2, <2>4, <2>5 DEF KnownCancelled
  <2>7. faults = 0
    BY <2>3 DEF TypeOK, BusTypeOK
  <2>8. \A w \in InvWorker : ~ Releases(w, o)
    BY DEF Quiescent, Releases, Idle
  <2> QED
    BY <2>6, <2>7, <2>8 DEF StockInv, CancelledGivesBack
<1> QED
  BY <1>1, StockInvInit, StockInvStep, PTL DEF Spec

-----------------------------------------------------------------------------
(* What payment-service accounts for.                                      *)

(* The handler has inserted its row for the order, and not yet updated it. *)
HasRow(w, o) == pay[w].pc \in {"charge", "record"} /\ pay[w].event.orderId = o

(* S are the rows of the order for which the card was charged. *)
PaidRows(o, S) ==
    /\ S \subseteq DOMAIN payments[o]
    /\ IsFiniteSet(S) /\ Cardinality(S) = Len(charges[o])
    /\ \A i \in DOMAIN payments[o] :
          /\ payments[o][i].status = "completed" => i \in S
          /\ payments[o][i].status = "failed" => i \notin S
    /\ \A w \in PayWorker : HasRow(w, o) =>
          /\ pay[w].row \in DOMAIN payments[o]
          /\ payments[o][pay[w].row].status = "pending"
          /\ pay[w].row \in S <=> pay[w].pc = "record" /\ pay[w].status = "completed"

(* No two handlers work on the same row. *)
RowsApart ==
    \A o \in Order, u, v \in PayWorker :
        HasRow(u, o) /\ HasRow(v, o) /\ pay[u].row = pay[v].row => u = v

RowInv == RowsApart /\ \A o \in Order : \E S : PaidRows(o, S)

(* The inventory.reserved of the order that the group has read. *)
ReadEvents(o) ==
    { pi \in Published("inventory.events", "inventory.reserved", o) : pi[2] <= payOffset[pi[1]] }

(* The handler has read one and not yet charged. *)
ToCharge(w, o) == pay[w].pc \in {"insert", "charge"} /\ pay[w].event.orderId = o

(* S are those that were charged, and each handler has one more: its own. *)
PaidEvents(o, S, of) ==
    /\ S \subseteq ReadEvents(o)
    /\ IsFiniteSet(S) /\ Cardinality(S) = Len(charges[o])
    /\ \A w \in PayWorker : ToCharge(w, o) => of[w] \in ReadEvents(o) \ S
    /\ \A u, v \in PayWorker : ToCharge(u, o) /\ ToCharge(v, o) /\ of[u] = of[v] => u = v

EventInv ==
    \A o \in Order :
        /\ IsFiniteSet(Published("inventory.events", "inventory.reserved", o))
        /\ \E S : \E of : PaidEvents(o, S, of)

-----------------------------------------------------------------------------
(* Each charge has its row.                                                *)

(* What a worker of payment-service has in its hands, field by field. *)
LEMMA PayTask ==
    ASSUME TypeOK, NEW w \in PayWorker, pay[w].pc # "idle"
    PROVE  /\ pay[w].event \in Event
           /\ pay[w].event.orderId \in Order
           /\ pay[w].event.total \in Nat
           /\ pay[w].pc \in {"charge", "record"} => pay[w].row \in Nat
           /\ pay[w].pc = "record" => pay[w].status \in {"completed", "failed"}
<1>1. pay[w] \in PaymentTask
  BY DEF TypeOK, PaymentTypeOK
<1>2. pay[w].event \in Event
  BY PayFields
<1> QED
  BY <1>1, <1>2 DEF PaymentTask, Idle, Event

(* A step that changes neither rows nor charges, and takes nobody up. *)
LEMMA RowsKept ==
    ASSUME TypeOK, RowInv, UNCHANGED <<payments, charges>>,
           \A w \in PayWorker : pay'[w] = pay[w] \/ pay'[w].pc \notin {"charge", "record"}
    PROVE  RowInv'
<1>1. \A w \in PayWorker, o \in Order : HasRow(w, o)' => HasRow(w, o) /\ pay'[w] = pay[w]
  BY DEF HasRow
<1>2. RowsApart'
  BY <1>1 DEF RowInv, RowsApart
<1>3. ASSUME NEW o \in Order, NEW S, PaidRows(o, S)
      PROVE  PaidRows(o, S)'
  BY <1>1, <1>3 DEF PaidRows
<1> QED
  BY <1>2, <1>3 DEF RowInv

LEMMA InsertRow ==
    ASSUME TypeOK, RowInv, NEW w \in PayWorker, PayInsert(w)
    PROVE  RowInv'
<1>1. PICK o, k, row : /\ o = pay[w].event.orderId /\ k = Len(payments[o]) + 1
                       /\ row = [amount |-> pay[w].event.total, status |-> "pending"]
  OBVIOUS
<1>2. o \in Order /\ row \in PaymentRow /\ row.status = "pending"
  BY <1>1, PayTask DEF PayInsert, PaymentRow
<1>3. payments[o] \in Seq(PaymentRow)
  BY <1>2 DEF TypeOK, PaymentTypeOK
<1>4. /\ payments'[o] = Append(payments[o], row)
      /\ \A q \in Order \ {o} : payments'[q] = payments[q]
      /\ UNCHANGED charges
      /\ pay'[w].pc = "charge" /\ pay'[w].row = k /\ pay'[w].event = pay[w].event
      /\ pay[w].pc = "insert"
      /\ \A v \in PayWorker \ {w} : pay'[v] = pay[v]
  BY <1>1, <1>2 DEF PayInsert, TypeOK, PaymentTypeOK
<1>5. /\ DOMAIN payments'[o] = DOMAIN payments[o] \cup {k}
      /\ k \notin DOMAIN payments[o]
      /\ payments'[o][k] = row
      /\ \A i \in DOMAIN payments[o] : payments'[o][i] = payments[o][i]
  <2>1. LET new == Append(payments[o], row) IN
          /\ DOMAIN new = DOMAIN payments[o] \cup {k} /\ k \notin DOMAIN payments[o]
          /\ new[k] = row /\ \A i \in DOMAIN payments[o] : new[i] = payments[o][i]
    BY <1>1, <1>2, <1>3, AppendKeeps
  <2> QED
    BY <1>4, <2>1
<1>6. payments'[o][k].status = "pending"
  BY <1>2, <1>5
<1>7. \A v \in PayWorker, q \in Order : HasRow(v, q)' <=>
          \/ v # w /\ HasRow(v, q)
          \/ v = w /\ q = o
  BY <1>1, <1>4 DEF HasRow
<1>8. \A v \in PayWorker : HasRow(v, o) => pay[v].row \in DOMAIN payments[o]
  BY <1>2 DEF RowInv, PaidRows
<1>9. RowsApart'
  BY <1>4, <1>5, <1>7, <1>8 DEF RowInv, RowsApart
<1>10. ASSUME NEW q \in Order
      PROVE  \E S : PaidRows(q, S)'
  <2>1. PICK S : PaidRows(q, S)
    BY DEF RowInv
  <2>2. CASE q # o
    BY <1>4, <1>7, <2>1, <2>2 DEF PaidRows
  <2>3. CASE q = o
    <3>1. S \subseteq DOMAIN payments[o]
      BY <2>1, <2>3 DEF PaidRows
    <3>2. \A i \in DOMAIN payments'[o] :
             /\ payments'[o][i].status = "completed" => i \in S
             /\ payments'[o][i].status = "failed" => i \notin S
      <4>1. \A i \in DOMAIN payments[o] :
             /\ payments[o][i].status = "completed" => i \in S
             /\ payments[o][i].status = "failed" => i \notin S
        BY <2>1, <2>3 DEF PaidRows
      <4> QED
        BY <1>5, <1>6, <4>1
    <3>3. ASSUME NEW v \in PayWorker, HasRow(v, o)'
          PROVE  /\ pay'[v].row \in DOMAIN payments'[o]
                 /\ payments'[o][pay'[v].row].status = "pending"
                 /\ pay'[v].row \in S <=> pay'[v].pc = "record" /\ pay'[v].status = "completed"
      <4>1. CASE v = w
        BY <1>4, <1>5, <1>6, <3>1, <4>1
      <4>2. CASE v # w
        <5>1. HasRow(v, o) /\ pay'[v] = pay[v]
          BY <1>2, <1>4, <1>7, <3>3, <4>2
        <5> QED
          BY <1>5, <2>1, <2>3, <5>1 DEF PaidRows
      <4> QED
        BY <4>1, <4>2
    <3>4. PaidRows(o, S)'
      BY <1>4, <1>5, <2>1, <2>3, <3>1, <3>2, <3>3 DEF PaidRows
    <3> QED
      BY <2>3, <3>4
  <2> QED
    BY <2>2, <2>3
<1> QED
  BY <1>9, <1>10 DEF RowInv

LEMMA ChargeRow ==
    ASSUME TypeOK, RowInv, NEW w \in PayWorker, PayCharge(w)
    PROVE  RowInv'
<1>1. PICK o, r, accepted, total :
          /\ o = pay[w].event.orderId /\ r = pay[w].row
          /\ total = pay[w].event.total /\ accepted = (total <= DeclineOver)
  OBVIOUS
<1>2. o \in Order /\ total \in Nat /\ accepted \in BOOLEAN
  BY <1>1, PayTask, DeclineAssumption DEF PayCharge
<1>3. /\ UNCHANGED payments
      /\ charges[o] \in Seq(Nat)
      /\ charges'[o] = IF accepted THEN Append(charges[o], total) ELSE charges[o]
      /\ \A q \in Order \ {o} : charges'[q] = charges[q]
      /\ pay[w].pc = "charge"
      /\ pay'[w].pc = "record" /\ pay'[w].row = r /\ pay'[w].event = pay[w].event
      /\ pay'[w].status = IF accepted THEN "completed" ELSE "failed"
      /\ \A v \in PayWorker \ {w} : pay'[v] = pay[v]
  BY <1>1, <1>2 DEF PayCharge, TypeOK, PaymentTypeOK
<1>4. \A v \in PayWorker, q \in Order : HasRow(v, q)' <=> HasRow(v, q)
  BY <1>3 DEF HasRow
<1>5. HasRow(w, o)
  BY <1>1, <1>3 DEF HasRow
<1>6. RowsApart'
  BY <1>1, <1>3, <1>4 DEF RowInv, RowsApart
<1>7. \A v \in PayWorker \ {w} : HasRow(v, o) => pay[v].row # r
  BY <1>1, <1>2, <1>5 DEF RowInv, RowsApart
<1>8. ASSUME NEW q \in Order
      PROVE  \E S : PaidRows(q, S)'
  <2>1. PICK S : PaidRows(q, S)
    BY DEF RowInv
  <2>2. CASE q # o
    <3>1. \A v \in PayWorker : HasRow(v, q)' => HasRow(v, q) /\ pay'[v] = pay[v]
      BY <1>1, <1>3, <1>4, <2>2 DEF HasRow
    <3> QED
      BY <1>3, <2>1, <2>2, <3>1 DEF PaidRows
  <2>3. CASE q = o
    <3> DEFINE T == IF accepted THEN S \cup {r} ELSE S
    <3>1. r \in DOMAIN payments[o] /\ payments[o][r].status = "pending" /\ r \notin S
      <4>1. /\ pay[w].row \in DOMAIN payments[o] /\ payments[o][pay[w].row].status = "pending"
            /\ pay[w].row \in S <=> pay[w].pc = "record" /\ pay[w].status = "completed"
        BY <1>5, <2>1, <2>3 DEF PaidRows
      <4>2. pay[w].row = r /\ pay[w].pc = "charge"
        BY <1>1, <1>3
      <4> QED
        BY <4>1, <4>2
    <3>2. IsFiniteSet(T) /\ Cardinality(T) = Len(charges'[o])
      <4>1. IsFiniteSet(S) /\ Cardinality(S) = Len(charges[o])
        BY <2>1, <2>3 DEF PaidRows
      <4>2. IsFiniteSet(S \cup {r}) /\ Cardinality(S \cup {r}) = Len(charges[o]) + 1
        BY <3>1, <4>1, FS_AddElement
      <4>3. accepted => Len(charges'[o]) = Len(charges[o]) + 1
        BY <1>2, <1>3, AppendProperties
      <4> QED
        BY <1>3, <4>1, <4>2, <4>3
    <3>3. /\ T \subseteq DOMAIN payments[o]
          /\ \A i \in DOMAIN payments[o] :
                /\ payments[o][i].status = "completed" => i \in T
                /\ payments[o][i].status = "failed" => i \notin T
      BY <2>1, <2>3, <3>1 DEF PaidRows
    <3>4. ASSUME NEW v \in PayWorker, HasRow(v, o)'
          PROVE  /\ pay'[v].row \in DOMAIN payments[o]
                 /\ payments[o][pay'[v].row].status = "pending"
                 /\ pay'[v].row \in T <=> pay'[v].pc = "record" /\ pay'[v].status = "completed"
      <4>1. CASE v = w
        BY <1>3, <3>1, <4>1
      <4>2. CASE v # w
        <5>1. HasRow(v, o) /\ pay'[v] = pay[v] /\ pay[v].row # r
          BY <1>2, <1>3, <1>4, <1>7, <3>4, <4>2
        <5>2. pay[v].row \in T <=> pay[v].row \in S
          BY <5>1
        <5> QED
          BY <2>1, <2>3, <5>1, <5>2 DEF PaidRows
      <4> QED
        BY <4>1, <4>2
    <3> HIDE DEF T
    <3>5. PaidRows(o, T)'
      BY <1>3, <3>2, <3>3, <3>4 DEF PaidRows
    <3> QED
      BY <2>3, <3>5
  <2> QED
    BY <2>2, <2>3
<1> QED
  BY <1>6, <1>8 DEF RowInv

LEMMA RecordRow ==
    ASSUME TypeOK, RowInv, NEW w \in PayWorker, PayRecord(w)
    PROVE  RowInv'
<1>0. \A v \in PayWorker \ {w} : pay'[v] = pay[v]
  BY DEF PayRecord, TypeOK, PaymentTypeOK
<1>1. pay'[w].pc = "publish" /\ pay[w].pc = "record"
  BY DEF PayRecord, TypeOK, PaymentTypeOK
<1>2. CASE UNCHANGED payments
  BY <1>0, <1>1, <1>2, RowsKept DEF PayRecord
<1>3. PICK o, r, status :
          o = pay[w].event.orderId /\ r = pay[w].row /\ status = pay[w].status
  OBVIOUS
<1>4. o \in Order /\ status \in {"completed", "failed"} /\ HasRow(w, o)
  BY <1>1, <1>3, PayTask DEF HasRow
<1>5. CASE payments' = [payments EXCEPT ![o][r].status = status]
  <2>1. payments[o] \in Seq(PaymentRow)
    BY <1>4 DEF TypeOK, PaymentTypeOK
  <2>2. /\ payments'[o] = [payments[o] EXCEPT ![r].status = status]
        /\ \A q \in Order \ {o} : payments'[q] = payments[q]
    BY <1>4, <1>5 DEF TypeOK, PaymentTypeOK
  <2>3. r \in DOMAIN payments[o]
    BY <1>3, <1>4 DEF RowInv, PaidRows
  <2>4. payments[o][r] \in PaymentRow
    BY <2>1, <2>3, ElementOfSeq, LenProperties
  <2>5. /\ DOMAIN payments'[o] = DOMAIN payments[o]
        /\ payments'[o][r].status = status
        /\ \A i \in DOMAIN payments[o] \ {r} : payments'[o][i] = payments[o][i]
    BY <2>1, <2>2, <2>3, <2>4 DEF PaymentRow
  <2>6. \A v \in PayWorker, q \in Order : HasRow(v, q)' => v # w /\ HasRow(v, q)
    BY <1>0, <1>1 DEF HasRow
  <2>7. \A v \in PayWorker \ {w} : HasRow(v, o) => pay[v].row # r
    BY <1>3, <1>4 DEF RowInv, RowsApart
  <2>8. RowsApart'
    BY <1>0, <2>6 DEF RowInv, RowsApart
  <2>9. ASSUME NEW q \in Order, NEW S, PaidRows(q, S)
        PROVE  PaidRows(q, S)'
    <3>1. UNCHANGED charges
      BY DEF PayRecord
    <3>2. CASE q # o
      BY <1>0, <2>2, <2>6, <2>9, <3>1, <3>2 DEF PaidRows
    <3>3. CASE q = o
      <4>1. r \in S <=> status = "completed"
        BY <1>1, <1>3, <1>4, <2>9, <3>3 DEF PaidRows
      <4> QED
        BY <1>0, <1>4, <2>5, <2>6, <2>7, <2>9, <3>1, <3>3, <4>1 DEF PaidRows
    <3> QED
      BY <3>2, <3>3
  <2> QED
    BY <2>8, <2>9 DEF RowInv
<1> QED
  BY <1>2, <1>3, <1>5 DEF PayRecord

LEMMA RowStep == TypeOK /\ RowInv /\ [Next]_vars => RowInv'
<1> SUFFICES ASSUME TypeOK, RowInv, [Next]_vars PROVE RowInv'
  OBVIOUS
<1>1. CASE PaymentNext
  <2>1. PICK w \in PayWorker : PayWorkerStep(w) \/ PayInsertError(w) \/ PayStop(w)
    BY <1>1 DEF PaymentNext
  <2>2. CASE \/ \E p \in Partition : PayRead(w, p)
             \/ PayPublish(w) \/ PayInsertError(w) \/ PayStop(w)
    <3>1. UNCHANGED <<payments, charges>>
      BY <2>2 DEF PayRead, PayPublish, PayInsertError, PayStop
    <3>2. \A v \in PayWorker : pay'[v] = pay[v] \/ pay'[v].pc \notin {"charge", "record"}
      BY <2>2 DEF PayRead, PayHandle, PayPublish, PayInsertError, PayStop, Idle, TypeOK, PaymentTypeOK
    <3> QED
      BY <3>1, <3>2, RowsKept
  <2> QED
    BY <2>1, <2>2, InsertRow, ChargeRow, RecordRow DEF PayWorkerStep
<1>2. CASE UNCHANGED paymentVars
  BY <1>2, RowsKept DEF paymentVars
<1> QED
  BY <1>1, <1>2 DEF Next, Waiting, vars

(* A charge is never without its payments row, and a row says completed    *)
(* only if the charge happened, whatever stops or fails and whatever comes *)
(* twice (payment-service handler.go:42-46).                               *)
THEOREM ChargesHaveRows == Spec => []ChargeHasRow
<1>1. Init => RowInv
  <2>1. ASSUME Init, NEW o \in Order
        PROVE  PaidRows(o, {})
    <3>1. Cardinality({}) = 0 /\ IsFiniteSet({}) /\ Len(<<>>) = 0
      BY FS_EmptySet
    <3> QED
      BY <2>1, <3>1 DEF Init, PaymentInit, PaidRows, HasRow, Idle
  <2>2. Init => RowsApart
    BY DEF Init, PaymentInit, RowsApart, HasRow, Idle
  <2> QED
    BY <2>1, <2>2 DEF RowInv
<1>2. TypeOK /\ RowInv => ChargeHasRow
  <2> SUFFICES ASSUME TypeOK, RowInv, NEW o \in Order
               PROVE  LET Rows(s) == { i \in DOMAIN payments[o] : payments[o][i].status = s } IN
                        /\ Len(charges[o]) <= Cardinality(Rows("pending") \cup Rows("completed"))
                        /\ Cardinality(Rows("completed")) <= Len(charges[o])
    BY DEF ChargeHasRow
  <2> DEFINE Rows(s) == { i \in DOMAIN payments[o] : payments[o][i].status = s }
  <2>1. PICK S : PaidRows(o, S)
    BY DEF RowInv
  <2>2. payments[o] \in Seq(PaymentRow)
    BY DEF TypeOK, PaymentTypeOK
  <2>3. DOMAIN payments[o] = 1..Len(payments[o]) /\ Len(payments[o]) \in Nat
    BY <2>2, LenProperties
  <2>4. IsFiniteSet(DOMAIN payments[o])
    BY <2>3, FS_Interval
  <2>5. \A i \in DOMAIN payments[o] : payments[o][i].status \in {"pending", "completed", "failed"}
    <3>1. \A i \in DOMAIN payments[o] : payments[o][i] \in PaymentRow
      BY <2>2, <2>3, ElementOfSeq
    <3> QED
      BY <3>1 DEF PaymentRow
  <2>6. S \subseteq Rows("pending") \cup Rows("completed") /\ Rows("completed") \subseteq S
    BY <2>1, <2>5 DEF PaidRows
  <2>7. IsFiniteSet(Rows("pending") \cup Rows("completed"))
    BY <2>4, FS_Subset
  <2>8. IsFiniteSet(S)
    BY <2>1 DEF PaidRows
  <2>9. Cardinality(S) <= Cardinality(Rows("pending") \cup Rows("completed"))
    BY <2>6, <2>7, FS_Subset
  <2>10. Cardinality(Rows("completed")) <= Cardinality(S)
    BY <2>6, <2>8, FS_Subset
  <2> QED
    BY <2>1, <2>9, <2>10 DEF PaidRows
<1> QED
  BY <1>1, <1>2, RowStep, TypeCorrect, PTL DEF Spec

-----------------------------------------------------------------------------
(* Each charge has its event.                                              *)

(* A step that charges nothing, and takes no new event up. *)
LEMMA EventsKept ==
    ASSUME TypeOK, [Next]_vars, EventInv, UNCHANGED charges,
           \A p \in Partition : payOffset[p] <= payOffset'[p],
           \A w \in PayWorker, o \in Order : ToCharge(w, o)' => ToCharge(w, o)
    PROVE  EventInv'
<1> SUFFICES ASSUME NEW o \in Order
             PROVE  /\ IsFiniteSet(Published("inventory.events", "inventory.reserved", o))'
                    /\ \E S : \E of : PaidEvents(o, S, of)'
  BY DEF EventInv
<1>1. PICK S, of : PaidEvents(o, S, of)
  BY DEF EventInv
<1>2. ReadEvents(o) \subseteq ReadEvents(o)'
  <2>1. \A pi \in Published("inventory.events", "inventory.reserved", o) :
           pi[2] <= payOffset[pi[1]] => pi[2] <= payOffset'[pi[1]]
    <3>1. TypeOK'
      BY TypeStep
    <3>2. \A pi \in Published("inventory.events", "inventory.reserved", o) :
             /\ pi[1] \in Partition
             /\ pi[2] \in Nat
      BY LogFacts DEF Published, Topic
    <3>3. \A p \in Partition : payOffset[p] \in Nat /\ payOffset'[p] \in Nat
      BY <3>1 DEF TypeOK, PaymentTypeOK
    <3> QED
      BY <3>2, <3>3
  <2> QED
    BY <2>1, PublishedGrows DEF ReadEvents, EventInv, Topic
<1>3. PaidEvents(o, S, of)'
  BY <1>1, <1>2 DEF PaidEvents
<1> QED
  BY <1>3, PublishedGrows DEF EventInv, Topic

LEMMA ReadEvent ==
    ASSUME TypeOK, [Next]_vars, EventInv, NEW w \in PayWorker, NEW p \in Partition, PayRead(w, p)
    PROVE  EventInv'
<1>1. PICK k, e : k = payOffset[p] + 1 /\ e = log["inventory.events"][p][k]
  OBVIOUS
<1>2. payOffset[p] \in Nat /\ "inventory.events" \in Topic
  BY DEF TypeOK, PaymentTypeOK, Topic
<1>3. /\ UNCHANGED <<log, charges>>
      /\ payOffset'[p] = k /\ \A q \in Partition \ {p} : payOffset'[q] = payOffset[q]
      /\ pay[w].pc = "idle" /\ pay'[w] = PayHandle(e)
      /\ \A v \in PayWorker \ {w} : pay'[v] = pay[v]
  <2>1. payOffset \in [Partition -> Nat] /\ pay \in [PayWorker -> PaymentTask]
    BY DEF TypeOK, PaymentTypeOK
  <2> QED
    BY <1>1, <2>1 DEF PayRead, NextEvent, busVars, Idle
<1>4. k \in DOMAIN log["inventory.events"][p] /\ k \in Nat /\ ~ (k <= payOffset[p])
  BY <1>1, <1>2, LogFacts DEF PayRead, HasNext
<1>5. CASE e.type # "inventory.reserved"
  <2>1. \A v \in PayWorker, o \in Order : ToCharge(v, o)' => ToCharge(v, o)
    BY <1>3, <1>5 DEF ToCharge, PayHandle, Idle
  <2>2. \A q \in Partition : payOffset[q] <= payOffset'[q]
    BY <1>1, <1>2, <1>3 DEF TypeOK, PaymentTypeOK
  <2> QED
    BY <1>3, <2>1, <2>2, EventsKept
<1>6. ASSUME NEW o \in Order, e.type = "inventory.reserved"
      PROVE  \E S : \E of : PaidEvents(o, S, of)'
  <2>1. PICK S, of : PaidEvents(o, S, of)
    BY DEF EventInv
  <2>2. ReadEvents(o) \subseteq ReadEvents(o)' /\ <<p, k>> \notin ReadEvents(o)
    <3>1. \A pi \in Published("inventory.events", "inventory.reserved", o) :
             pi[2] <= payOffset[pi[1]] => pi[2] <= payOffset'[pi[1]]
      <4>1. \A pi \in Published("inventory.events", "inventory.reserved", o) :
               pi[1] \in Partition /\ pi[2] \in Nat
        BY <1>2, LogFacts DEF Published
      <4> QED
        BY <1>1, <1>2, <1>3, <4>1
    <3> QED
      BY <1>3, <1>4, <3>1 DEF ReadEvents, Published
  <2>3. CASE e.orderId # o
    <3>1. \A v \in PayWorker : ToCharge(v, o)' => ToCharge(v, o)
      BY <1>3, <1>6, <2>3 DEF ToCharge, PayHandle
    <3>2. PaidEvents(o, S, of)'
      BY <1>3, <2>1, <2>2, <3>1 DEF PaidEvents
    <3> QED
      BY <3>2
  <2>4. CASE e.orderId = o
    <3>1. PICK new : new = [v \in PayWorker |-> IF v = w THEN <<p, k>> ELSE of[v]]
      OBVIOUS
    <3>2. <<p, k>> \in ReadEvents(o)'
      <4>1. k <= payOffset'[p]
        BY <1>3, <1>4
      <4> QED
        BY <1>1, <1>3, <1>4, <1>6, <2>4, <4>1 DEF ReadEvents, Published
    <3>3. \A v \in PayWorker \ {w} : ToCharge(v, o)' => ToCharge(v, o)
      BY <1>3 DEF ToCharge
    <3>4. \A v \in PayWorker \ {w} : ToCharge(v, o) => of[v] \in ReadEvents(o) \ S /\ of[v] # <<p, k>>
      BY <2>1, <2>2 DEF PaidEvents
    <3>5. S \subseteq ReadEvents(o)' /\ <<p, k>> \notin S
      BY <2>1, <2>2 DEF PaidEvents
    <3>6. new[w] = <<p, k>> /\ \A v \in PayWorker \ {w} : new[v] = of[v]
      BY <3>1
    <3>7. PaidEvents(o, S, new)'
      BY <1>3, <2>1, <2>2, <3>2, <3>3, <3>4, <3>5, <3>6 DEF PaidEvents
    <3> QED
      BY <3>7
  <2> QED
    BY <2>3, <2>4
<1> QED
  BY <1>5, <1>6, PublishedGrows DEF EventInv, Topic

LEMMA ChargeEvent ==
    ASSUME TypeOK, [Next]_vars, EventInv, NEW w \in PayWorker, PayCharge(w)
    PROVE  EventInv'
<1>1. PICK o, total, accepted : /\ o = pay[w].event.orderId /\ total = pay[w].event.total
                                /\ accepted = (total <= DeclineOver)
  OBVIOUS
<1>2. o \in Order /\ total \in Nat /\ accepted \in BOOLEAN
  BY <1>1, PayTask, DeclineAssumption DEF PayCharge
<1>3. /\ UNCHANGED <<log, payOffset>>
      /\ charges[o] \in Seq(Nat)
      /\ charges'[o] = IF accepted THEN Append(charges[o], total) ELSE charges[o]
      /\ \A q \in Order \ {o} : charges'[q] = charges[q]
      /\ pay[w].pc = "charge" /\ pay'[w].pc = "record"
      /\ \A v \in PayWorker \ {w} : pay'[v] = pay[v]
  BY <1>1, <1>2 DEF PayCharge, busVars, TypeOK, PaymentTypeOK
<1>4. \A v \in PayWorker, q \in Order : ToCharge(v, q)' <=> v # w /\ ToCharge(v, q)
  BY <1>3 DEF ToCharge
<1>5. ToCharge(w, o)
  BY <1>1, <1>3 DEF ToCharge
<1>6. \A q : ReadEvents(q)' = ReadEvents(q)
  BY <1>3 DEF ReadEvents, Published
<1>7. ASSUME NEW q \in Order
      PROVE  \E S : \E of : PaidEvents(q, S, of)'
  <2>1. PICK S, of : PaidEvents(q, S, of)
    BY DEF EventInv
  <2>2. CASE charges'[q] = charges[q]
    <3>1. PaidEvents(q, S, of)'
      BY <1>3, <1>4, <1>6, <2>1, <2>2 DEF PaidEvents
    <3> QED
      BY <3>1
  <2>3. CASE q = o /\ accepted
    <3>1. PICK x : x = of[w]
      OBVIOUS
    <3>2. /\ IsFiniteSet(S) /\ Cardinality(S) = Len(charges[o]) /\ S \subseteq ReadEvents(o)
          /\ x \in ReadEvents(o) /\ x \notin S
          /\ \A v \in PayWorker \ {w} : ToCharge(v, o) => of[v] \in ReadEvents(o) \ S /\ of[v] # x
      BY <1>5, <2>1, <2>3, <3>1 DEF PaidEvents
    <3>3. IsFiniteSet(S \cup {x}) /\ Cardinality(S \cup {x}) = Len(charges[o]) + 1
      BY <3>2, FS_AddElement
    <3>4. Len(charges'[o]) = Len(charges[o]) + 1
      BY <1>2, <1>3, <2>3, AppendProperties
    <3>5. PaidEvents(o, S \cup {x}, of)'
      BY <1>3, <1>4, <1>6, <2>1, <2>3, <3>2, <3>3, <3>4 DEF PaidEvents
    <3> QED
      BY <2>3, <3>5
  <2> QED
    BY <1>2, <1>3, <2>2, <2>3
<1> QED
  BY <1>7, PublishedGrows DEF EventInv, Topic

LEMMA EventStep == TypeOK /\ EventInv /\ [Next]_vars => EventInv'
<1> SUFFICES ASSUME TypeOK, EventInv, [Next]_vars PROVE EventInv'
  OBVIOUS
<1>0. \A p \in Partition : payOffset[p] \in Nat
  BY DEF TypeOK, PaymentTypeOK
<1>1. ASSUME UNCHANGED <<charges, payOffset>>,
             \A w \in PayWorker, o \in Order : ToCharge(w, o)' => ToCharge(w, o)
      PROVE  EventInv'
  BY <1>0, <1>1, EventsKept
<1>2. CASE PaymentNext
  <2>1. PICK w \in PayWorker : PayWorkerStep(w) \/ PayInsertError(w) \/ PayStop(w)
    BY <1>2 DEF PaymentNext
  <2>2. CASE PayInsert(w) \/ PayRecord(w) \/ PayPublish(w) \/ PayInsertError(w) \/ PayStop(w)
    <3>1. UNCHANGED <<charges, payOffset>>
      BY <2>2 DEF PayInsert, PayRecord, PayPublish, PayInsertError, PayStop
    <3>2. \A v \in PayWorker, o \in Order : ToCharge(v, o)' => ToCharge(v, o)
      <4>1. pay \in [PayWorker -> PaymentTask]
        BY DEF TypeOK, PaymentTypeOK
      <4>2. PayInsert(w) => pay[w].pc = "insert" /\ pay'[w].event = pay[w].event
        BY <4>1 DEF PayInsert
      <4>3. PayRecord(w) => pay'[w].pc = "publish"
        BY <4>1 DEF PayRecord
      <4>4. PayPublish(w) => pay'[w].pc \in {"idle", "publish"}
        BY <4>1 DEF PayPublish, Idle
      <4>5. PayInsertError(w) \/ PayStop(w) => pay'[w].pc = "idle"
        BY <4>1 DEF PayInsertError, PayStop, Idle
      <4>6. \A v \in PayWorker \ {w} : pay'[v] = pay[v]
        BY <2>2, <4>1 DEF PayInsert, PayRecord, PayPublish, PayInsertError, PayStop
      <4> QED
        BY <2>2, <4>2, <4>3, <4>4, <4>5, <4>6 DEF ToCharge
    <3> QED
      BY <1>1, <3>1, <3>2
  <2> QED
    BY <2>1, <2>2, ReadEvent, ChargeEvent DEF PayWorkerStep
<1>3. CASE UNCHANGED paymentVars
  BY <1>1, <1>3 DEF paymentVars, ToCharge
<1> QED
  BY <1>2, <1>3 DEF Next, Waiting, vars

(* An order is charged at most once per inventory.reserved that was        *)
(* published, however the handlers of these fail and however often the     *)
(* Writer repeats itself (payment-service handler.go:21-31).               *)
THEOREM ChargesHaveEvents == Spec => []ChargedOncePerEvent
<1>1. Init => EventInv
  <2> SUFFICES ASSUME Init, NEW o \in Order
               PROVE  /\ IsFiniteSet(Published("inventory.events", "inventory.reserved", o))
                      /\ \E S : \E of : PaidEvents(o, S, of)
    BY DEF EventInv
  <2>1. Published("inventory.events", "inventory.reserved", o) = {}
    BY DEF Init, BusInit, Topic, Published
  <2>2. IsFiniteSet({}) /\ Cardinality({}) = 0 /\ Len(<<>>) = 0
    BY FS_EmptySet
  <2>3. PaidEvents(o, {}, <<>>)
    BY <2>2 DEF Init, PaymentInit, PaidEvents, ToCharge, Idle
  <2> QED
    BY <2>1, <2>2, <2>3
<1>2. TypeOK /\ EventInv => ChargedOncePerEvent
  <2> SUFFICES ASSUME TypeOK, EventInv, NEW o \in Order
               PROVE  Len(charges[o]) <=
                        Cardinality(Published("inventory.events", "inventory.reserved", o))
    BY DEF ChargedOncePerEvent
  <2>1. PICK S, of : PaidEvents(o, S, of)
    BY DEF EventInv
  <2>2. S \in SUBSET Published("inventory.events", "inventory.reserved", o)
    BY <2>1 DEF PaidEvents, ReadEvents
  <2>3. Cardinality(S) <= Cardinality(Published("inventory.events", "inventory.reserved", o))
    BY <2>2, FS_Subset DEF EventInv
  <2> QED
    BY <2>1, <2>3 DEF PaidEvents
<1> QED
  BY <1>1, <1>2, EventStep, TypeCorrect, PTL DEF Spec
=============================================================================
