------------------------------ MODULE TurnProofs ------------------------------
(***************************************************************************)
(* That an order goes through the saga once, for every instance of Pulse:  *)
(* it is charged at most once, and the consumer of order-service never     *)
(* cancels an order that is confirmed.                                     *)
(*                                                                         *)
(* None of the handlers looks whether its work on an order was done        *)
(* before.  The argument is about who is to act on an order next: a        *)
(* handler that runs, or an event its group has not read.  As long as no   *)
(* write is repeated by the Writer there is at most one of these for an    *)
(* order at a time, because a handler reads one event, the group never     *)
(* reads it again, and the handler publishes at most one.                  *)
(***************************************************************************)
EXTENDS PulseProofs, FiniteSetTheorems

(* What an event makes its reader do for the order, if anything. *)
Calls(e) == CASE e.type = "order.created"      -> "reserve"
              [] e.type = "inventory.reserved" -> "charge"
              [] e.type = "payment.confirmed"  -> "confirm"
              [] e.type \in {"inventory.failed", "payment.failed"} -> "cancel"
              [] OTHER                         -> "nothing"

Duty == {"reserve", "charge", "confirm", "cancel"}

(* The group that has this duty has yet to read event i of the partition. *)
Ahead(t, p, i, duty) ==
    \/ duty = "reserve" /\ t = "order.events" /\ invOffset[p] < i
    \/ duty = "charge" /\ t = "inventory.events" /\ payOffset[p] < i
    \/ duty \in {"confirm", "cancel"} /\ t \in SagaTopic /\ ordOffset[t][p] < i

(* Who is to act on an order next: a handler that is to publish or to do   *)
(* its duty, or an event that is to be read.  A customer's cancel is not   *)
(* part of it.                                                             *)
OrderTurn(h, o, duty) ==
    \/ /\ task[h].pc = "publish"
       /\ task[h].event.orderId = o
       /\ duty = Calls(task[h].event)
    \/ /\ h \in SagaWorker
       /\ task[h].pc \in {"confirm", "cancel"}
       /\ task[h].orderId = o
       /\ duty = task[h].pc

InvTurn(w, o, duty) ==
    /\ inv[w].pc \in {"reserve", "publish"}
    /\ inv[w].event.orderId = o
    /\ duty = Calls(inv[w].event)

PayTurn(w, o, duty) ==
    /\ pay[w].pc # "idle"
    /\ pay[w].event.orderId = o
    /\ duty = IF pay[w].pc = "record"
              THEN IF pay[w].status = "completed" THEN "confirm" ELSE "cancel"
              ELSE Calls(pay[w].event)

EventTurn(t, p, i, o, duty) ==
    /\ i \in DOMAIN log[t][p]
    /\ log[t][p][i].orderId = o
    /\ duty = Calls(log[t][p][i])
    /\ Ahead(t, p, i, duty)

Site == {"order-service", "inventory-service", "payment-service"} \cup Topic
Actor == Handler \cup InvWorker \cup PayWorker \cup Partition

Turn(at, who, i, o, duty) ==
    /\ duty \in Duty
    /\ \/ at = "order-service" /\ i = 0 /\ who \in Handler /\ OrderTurn(who, o, duty)
       \/ at = "inventory-service" /\ i = 0 /\ who \in InvWorker /\ InvTurn(who, o, duty)
       \/ at = "payment-service" /\ i = 0 /\ who \in PayWorker /\ PayTurn(who, o, duty)
       \/ at \in Topic /\ who \in Partition /\ EventTurn(at, who, i, o, duty)

-----------------------------------------------------------------------------
(* What handlers publish: each its own kind of outcome. *)
Outcomes ==
    /\ \A w \in InvWorker : inv[w].pc = "publish" =>
          inv[w].event.type \in {"inventory.reserved", "inventory.failed", "inventory.released"}
    /\ \A w \in PayWorker : pay[w].pc = "publish" =>
          pay[w].event.type \in {"payment.confirmed", "payment.failed"}

(* No group has read further than its topic goes. *)
Offsets ==
    \A p \in Partition :
        /\ invOffset[p] <= Len(log["order.events"][p])
        /\ payOffset[p] <= Len(log["inventory.events"][p])
        /\ \A t \in SagaTopic : ordOffset[t][p] <= Len(log[t][p])

(* No order is up to two of them. *)
OneTurn ==
    \A o \in Order, at, bt \in Site, u, v \in Actor, i, j \in Nat, duty, other \in Duty :
        Turn(at, u, i, o, duty) /\ Turn(bt, v, j, o, other)
            => at = bt /\ u = v /\ i = j /\ duty = other

(* What is next for an order fits what has been done for it. *)
TurnFits ==
    \A o \in Order, at \in Site, who \in Actor, i \in Nat, duty \in Duty :
        Turn(at, who, i, o, duty) =>
            /\ duty = "confirm" <=> charges[o] # <<>>
            /\ orders[o].status # "confirmed"

(* No write has been repeated so far. *)
NoRepeat == faults = 0 \/ "duplicate" \notin FaultKind

OneSaga == NoRepeat => OneTurn /\ TurnFits /\ NoDoubleCharge

TurnInv == TypeOK /\ Provenance /\ Outcomes /\ Offsets /\ OneSaga

-----------------------------------------------------------------------------
(* What is in a partition, and what a turn is of. *)

LEMMA LogFacts ==
    ASSUME TypeOK, NEW t \in Topic, NEW p \in Partition
    PROVE  /\ log[t][p] \in Seq(Event)
           /\ Len(log[t][p]) \in Nat
           /\ DOMAIN log[t][p] = 1..Len(log[t][p])
           /\ \A i \in DOMAIN log[t][p] : log[t][p][i] \in Event
<1>1. log[t][p] \in Seq(Event)
  BY DEF TypeOK, BusTypeOK
<1>2. Len(log[t][p]) \in Nat /\ DOMAIN log[t][p] = 1..Len(log[t][p])
  BY <1>1, LenProperties
<1>3. \A i \in DOMAIN log[t][p] : log[t][p][i] \in Event
  BY <1>1, <1>2, ElementOfSeq
<1> QED
  BY <1>1, <1>2, <1>3

(* What Append keeps, and what it adds. *)
LEMMA AppendKeeps ==
    ASSUME NEW S, NEW s \in Seq(S), NEW e \in S
    PROVE  /\ DOMAIN Append(s, e) = DOMAIN s \cup {Len(s) + 1}
           /\ DOMAIN s = 1..Len(s) /\ Len(s) \in Nat
           /\ Len(s) + 1 \notin DOMAIN s
           /\ Append(s, e)[Len(s) + 1] = e
           /\ \A k \in DOMAIN s : Append(s, e)[k] = s[k]
<1>1. Len(s) \in Nat /\ DOMAIN s = 1..Len(s)
  BY LenProperties
<1>2. Append(s, e) \in Seq(S) /\ Len(Append(s, e)) = Len(s) + 1
  BY AppendProperties
<1>3. DOMAIN Append(s, e) = 1..(Len(s) + 1)
  BY <1>2, LenProperties
<1>4. Append(s, e)[Len(s) + 1] = e /\ \A k \in 1..Len(s) : Append(s, e)[k] = s[k]
  BY AppendProperties
<1> QED
  BY <1>1, <1>3, <1>4

(* Publishing adds one event at the end of its partition. *)
LEMMA PublishAdds ==
    ASSUME TypeOK, NEW t \in Topic, NEW e \in Event, Publish(t, e), NEW s \in Topic, NEW p \in Partition
    PROVE  LET k == Len(log[s][p]) + 1
               new == s = t /\ p = PartitionOf[e.orderId]
           IN  /\ DOMAIN log'[s][p] = DOMAIN log[s][p] \cup (IF new THEN {k} ELSE {})
               /\ k \notin DOMAIN log[s][p]
               /\ new => log'[s][p][k] = e
               /\ \A i \in DOMAIN log[s][p] : log'[s][p][i] = log[s][p][i]
<1> DEFINE q == PartitionOf[e.orderId]
<1>1. q \in Partition
  BY PartitionAssumption DEF Event
<1>2. log[s][p] \in Seq(Event)
  BY LogFacts
<1>3. CASE s = t /\ p = q
  <2>1. log'[s][p] = Append(log[s][p], e)
    BY <1>1, <1>3 DEF Publish, TypeOK, BusTypeOK
  <2> QED
    BY <1>2, <1>3, <2>1, AppendKeeps
<1>4. CASE ~ (s = t /\ p = q)
  <2>1. log'[s][p] = log[s][p]
    BY <1>1, <1>4 DEF Publish, TypeOK, BusTypeOK
  <2> QED
    BY <1>2, <1>4, <2>1, AppendKeeps
<1> QED
  BY <1>3, <1>4

LEMMA InvFields ==
    ASSUME TypeOK, NEW w \in InvWorker, inv[w].pc # "idle"
    PROVE  inv[w].event \in Event /\ inv[w].pc \in {"reserve", "release", "publish"}
BY DEF TypeOK, InventoryTypeOK, InventoryTask, Idle

LEMMA PayFields ==
    ASSUME TypeOK, NEW w \in PayWorker, pay[w].pc # "idle"
    PROVE  /\ pay[w].event \in Event
           /\ pay[w].pc \in {"insert", "charge", "record", "publish"}
           /\ pay[w].pc = "record" => pay[w].status \in {"completed", "failed"}
BY DEF TypeOK, PaymentTypeOK, PaymentTask, Idle

LEMMA TurnIsOf ==
    ASSUME TypeOK, NEW at, NEW who, NEW i, NEW o, NEW duty, Turn(at, who, i, o, duty)
    PROVE  o \in Order /\ at \in Site /\ who \in Actor /\ i \in Nat /\ duty \in Duty
<1>0. duty \in Duty
  BY DEF Turn
<1>1. CASE at = "order-service" /\ i = 0 /\ who \in Handler /\ OrderTurn(who, o, duty)
  <2>1. o \in Order
    BY <1>1, TaskFields DEF OrderTurn, TypeOK, Event
  <2> QED
    BY <1>0, <1>1, <2>1 DEF Site, Actor
<1>2. CASE at = "inventory-service" /\ i = 0 /\ who \in InvWorker /\ InvTurn(who, o, duty)
  BY <1>0, <1>2, InvFields DEF InvTurn, Site, Actor, Event
<1>3. CASE at = "payment-service" /\ i = 0 /\ who \in PayWorker /\ PayTurn(who, o, duty)
  BY <1>0, <1>3, PayFields DEF PayTurn, Site, Actor, Event
<1>4. CASE at \in Topic /\ who \in Partition /\ EventTurn(at, who, i, o, duty)
  BY <1>0, <1>4, LogFacts DEF EventTurn, Site, Actor, Event
<1> QED
  BY <1>1, <1>2, <1>3, <1>4 DEF Turn

LEMMA OnlyTurn ==
    ASSUME TypeOK, OneTurn, NEW o, NEW at, NEW u, NEW i, NEW duty, NEW bt, NEW v, NEW j, NEW other,
           Turn(at, u, i, o, duty), Turn(bt, v, j, o, other)
    PROVE  at = bt /\ u = v /\ i = j /\ duty = other
BY TurnIsOf DEF OneTurn

-----------------------------------------------------------------------------
(* What a step may do to the turns: nothing, take the one at a place away, *)
(* add one, or pass it on.                                                 *)
Keeps ==
    \A at, who, i, o, duty : Turn(at, who, i, o, duty)' <=> Turn(at, who, i, o, duty)

Drops(bt, v, j) ==
    \A at, who, i, o, duty : Turn(at, who, i, o, duty)' <=>
        Turn(at, who, i, o, duty) /\ ~ (at = bt /\ who = v /\ i = j)

Begins(bt, v, j, q, d) ==
    \A at, who, i, o, duty : Turn(at, who, i, o, duty)' <=>
        \/ Turn(at, who, i, o, duty)
        \/ at = bt /\ who = v /\ i = j /\ o = q /\ duty = d

Passes(ct, u, k, bt, v, j, q, d) ==
    \A at, who, i, o, duty : Turn(at, who, i, o, duty)' <=>
        \/ Turn(at, who, i, o, duty) /\ ~ (at = ct /\ who = u /\ i = k)
        \/ at = bt /\ who = v /\ i = j /\ o = q /\ duty = d

(* A step that passes on a turn as it is. *)
HandsOn(ct, u, k, bt, v, j, q, d) ==
    Turn(ct, u, k, q, d) /\ Passes(ct, u, k, bt, v, j, q, d)

(* A step of one handler leaves the turns of all the others alone. *)
LEMMA OrderOnly ==
    ASSUME UNCHANGED <<log, ordOffset, invOffset, payOffset, inv, pay>>,
           NEW h \in Handler, \A g \in Handler \ {h} : task'[g] = task[g],
           NEW at, NEW who, NEW i, NEW o, NEW duty, ~ (at = "order-service" /\ who = h /\ i = 0)
    PROVE  Turn(at, who, i, o, duty)' <=> Turn(at, who, i, o, duty)
BY DEF Turn, OrderTurn, InvTurn, PayTurn, EventTurn, Ahead, Site, Topic

LEMMA InvOnly ==
    ASSUME UNCHANGED <<log, ordOffset, invOffset, payOffset, task, pay>>,
           NEW w \in InvWorker, \A v \in InvWorker \ {w} : inv'[v] = inv[v],
           NEW at, NEW who, NEW i, NEW o, NEW duty, ~ (at = "inventory-service" /\ who = w /\ i = 0)
    PROVE  Turn(at, who, i, o, duty)' <=> Turn(at, who, i, o, duty)
BY DEF Turn, OrderTurn, InvTurn, PayTurn, EventTurn, Ahead, Site, Topic

LEMMA PayOnly ==
    ASSUME UNCHANGED <<log, ordOffset, invOffset, payOffset, task, inv>>,
           NEW w \in PayWorker, \A v \in PayWorker \ {w} : pay'[v] = pay[v],
           NEW at, NEW who, NEW i, NEW o, NEW duty, ~ (at = "payment-service" /\ who = w /\ i = 0)
    PROVE  Turn(at, who, i, o, duty)' <=> Turn(at, who, i, o, duty)
BY DEF Turn, OrderTurn, InvTurn, PayTurn, EventTurn, Ahead, Site, Topic

(* A published event adds its own turn, if some group has a duty about it. *)
LEMMA PublishTurns ==
    ASSUME TypeOK, Offsets, NEW t \in Topic, NEW e \in Event, Publish(t, e),
           UNCHANGED <<ordOffset, invOffset, payOffset>>,
           NEW s \in Topic, NEW p \in Partition, NEW i, NEW o, NEW duty
    PROVE  EventTurn(s, p, i, o, duty)' <=>
              \/ EventTurn(s, p, i, o, duty)
              \/ /\ s = t /\ p = PartitionOf[e.orderId] /\ i = Len(log[t][p]) + 1
                 /\ o = e.orderId /\ duty = Calls(e)
                 /\ Ahead(t, p, i, duty)
<1>1. Ahead(s, p, i, duty)' <=> Ahead(s, p, i, duty)
  BY DEF Ahead
<1> QED
  BY <1>1, PublishAdds DEF EventTurn

(* A turn that goes from a handler to a topic, given what becomes of the    *)
(* handlers and of the events. *)
LEMMA TopicTakes ==
    ASSUME NEW ct, ct \notin Topic, NEW u, NEW t \in Topic, NEW p \in Partition, NEW k,
           NEW o, NEW duty \in Duty,
           \A g \in Handler : \A q, d : OrderTurn(g, q, d)' <=>
              OrderTurn(g, q, d) /\ ~ (ct = "order-service" /\ g = u),
           \A v \in InvWorker : \A q, d : InvTurn(v, q, d)' <=>
              InvTurn(v, q, d) /\ ~ (ct = "inventory-service" /\ v = u),
           \A v \in PayWorker : \A q, d : PayTurn(v, q, d)' <=>
              PayTurn(v, q, d) /\ ~ (ct = "payment-service" /\ v = u),
           \A s \in Topic, r \in Partition : \A i, q, d :
              EventTurn(s, r, i, q, d)' <=>
                  \/ EventTurn(s, r, i, q, d)
                  \/ s = t /\ r = p /\ i = k /\ q = o /\ d = duty
    PROVE  Passes(ct, u, 0, t, p, k, o, duty)
<1>1. \A s \in Topic : \A who, i, q, d :
          Turn(s, who, i, q, d) <=> d \in Duty /\ who \in Partition /\ EventTurn(s, who, i, q, d)
  BY DEF Turn, Topic
<1>2. \A s \in Topic : \A who, i, q, d :
          Turn(s, who, i, q, d)' <=> d \in Duty /\ who \in Partition /\ EventTurn(s, who, i, q, d)'
  BY DEF Turn, Topic
<1>3. \A at, who, i, q, d : at \notin Topic =>
          (Turn(at, who, i, q, d) <=>
              /\ d \in Duty /\ i = 0
              /\ \/ at = "order-service" /\ who \in Handler /\ OrderTurn(who, q, d)
                 \/ at = "inventory-service" /\ who \in InvWorker /\ InvTurn(who, q, d)
                 \/ at = "payment-service" /\ who \in PayWorker /\ PayTurn(who, q, d))
  BY DEF Turn
<1>4. \A at, who, i, q, d : at \notin Topic =>
          (Turn(at, who, i, q, d)' <=>
              /\ d \in Duty /\ i = 0
              /\ \/ at = "order-service" /\ who \in Handler /\ OrderTurn(who, q, d)'
                 \/ at = "inventory-service" /\ who \in InvWorker /\ InvTurn(who, q, d)'
                 \/ at = "payment-service" /\ who \in PayWorker /\ PayTurn(who, q, d)')
  BY DEF Turn, Topic
<1>5. ASSUME NEW at, NEW who, NEW i, NEW q, NEW d, at \notin Topic
      PROVE  Turn(at, who, i, q, d)' <=>
                Turn(at, who, i, q, d) /\ ~ (at = ct /\ who = u /\ i = 0)
  BY <1>3, <1>4, <1>5
<1> QED
  BY <1>1, <1>2, <1>5 DEF Passes

(* A group that reads an event takes its own duties from it, no other's. *)
LEMMA SagaReadsTurns ==
    ASSUME TypeOK, NEW t \in SagaTopic, NEW p \in Partition,
           ordOffset' = [ordOffset EXCEPT ![t][p] = @ + 1],
           UNCHANGED <<log, invOffset, payOffset>>,
           NEW s \in Topic, NEW q \in Partition, NEW i, NEW o, NEW duty
    PROVE  EventTurn(s, q, i, o, duty)' <=>
              /\ EventTurn(s, q, i, o, duty)
              /\ ~ (s = t /\ q = p /\ i = ordOffset[t][p] + 1 /\ duty \in {"confirm", "cancel"})
<1>1. i \in DOMAIN log[s][q] => i \in Nat
  BY LogFacts
<1>2. /\ ordOffset \in [SagaTopic -> [Partition -> Nat]]
      /\ ordOffset[t][p] \in Nat /\ ordOffset'[t][p] = ordOffset[t][p] + 1
      /\ \A r \in SagaTopic, x \in Partition : ~ (r = t /\ x = p) => ordOffset'[r][x] = ordOffset[r][x]
  BY DEF TypeOK, OrderTypeOK
<1>3. i \in Nat => (Ahead(s, q, i, duty)' <=>
              /\ Ahead(s, q, i, duty)
              /\ ~ (s = t /\ q = p /\ i = ordOffset[t][p] + 1 /\ duty \in {"confirm", "cancel"}))
  <2>1. CASE s = t /\ q = p
    BY <1>2, <2>1 DEF Ahead
  <2>2. CASE ~ (s = t /\ q = p)
    BY <1>2, <2>2 DEF Ahead
  <2> QED
    BY <2>1, <2>2
<1> QED
  BY <1>1, <1>3 DEF EventTurn

LEMMA InvReadsTurns ==
    ASSUME TypeOK, NEW p \in Partition, invOffset' = [invOffset EXCEPT ![p] = @ + 1],
           UNCHANGED <<log, ordOffset, payOffset>>,
           NEW s \in Topic, NEW q \in Partition, NEW i, NEW o, NEW duty
    PROVE  EventTurn(s, q, i, o, duty)' <=>
              /\ EventTurn(s, q, i, o, duty)
              /\ ~ (s = "order.events" /\ q = p /\ i = invOffset[p] + 1 /\ duty = "reserve")
<1>1. i \in DOMAIN log[s][q] => i \in Nat
  BY LogFacts
<1>2. /\ invOffset[p] \in Nat /\ invOffset'[p] = invOffset[p] + 1
      /\ \A x \in Partition \ {p} : invOffset'[x] = invOffset[x]
  BY DEF TypeOK, InventoryTypeOK
<1>3. i \in Nat => (Ahead(s, q, i, duty)' <=>
              /\ Ahead(s, q, i, duty)
              /\ ~ (s = "order.events" /\ q = p /\ i = invOffset[p] + 1 /\ duty = "reserve"))
  BY <1>2 DEF Ahead
<1> QED
  BY <1>1, <1>3 DEF EventTurn

LEMMA PayReadsTurns ==
    ASSUME TypeOK, NEW p \in Partition, payOffset' = [payOffset EXCEPT ![p] = @ + 1],
           UNCHANGED <<log, ordOffset, invOffset>>,
           NEW s \in Topic, NEW q \in Partition, NEW i, NEW o, NEW duty
    PROVE  EventTurn(s, q, i, o, duty)' <=>
              /\ EventTurn(s, q, i, o, duty)
              /\ ~ (s = "inventory.events" /\ q = p /\ i = payOffset[p] + 1 /\ duty = "charge")
<1>1. i \in DOMAIN log[s][q] => i \in Nat
  BY LogFacts
<1>2. /\ payOffset[p] \in Nat /\ payOffset'[p] = payOffset[p] + 1
      /\ \A x \in Partition \ {p} : payOffset'[x] = payOffset[x]
  BY DEF TypeOK, PaymentTypeOK
<1>3. i \in Nat => (Ahead(s, q, i, duty)' <=>
              /\ Ahead(s, q, i, duty)
              /\ ~ (s = "inventory.events" /\ q = p /\ i = payOffset[p] + 1 /\ duty = "charge"))
  BY <1>2 DEF Ahead
<1> QED
  BY <1>1, <1>3 DEF EventTurn

-----------------------------------------------------------------------------
(* What each step of order-service does to the turns. *)

LEMMA CreateOrderTurns ==
    ASSUME TypeOK, NEW r \in Request, NEW o \in Order, NEW items \in Cart,
           CreateOrder(r, o, items), UNCHANGED <<inventoryVars, paymentVars>>
    PROVE  Begins("order-service", r, 0, o, "reserve")
<1>1. /\ r \in Handler /\ \A g \in Handler \ {r} : task'[g] = task[g]
      /\ task[r].pc = "idle"
      /\ task'[r].pc = "publish" /\ task'[r].event.orderId = o
      /\ task'[r].event.type = "order.created"
  BY DEF CreateOrder, TypeOK, OrderTypeOK, Idle, MakeEvent, Handler
<1>2. UNCHANGED <<log, ordOffset, invOffset, payOffset, inv, pay>>
  BY DEF CreateOrder, busVars, inventoryVars, paymentVars
<1>3. \A i, q, duty : ~ Turn("order-service", r, i, q, duty)
  BY <1>1 DEF Turn, OrderTurn, Topic
<1>4. \A i, q, duty : Turn("order-service", r, i, q, duty)' <=> i = 0 /\ q = o /\ duty = "reserve"
  BY <1>1 DEF Turn, OrderTurn, Topic, Calls, Duty
<1> QED
  BY <1>1, <1>2, <1>3, <1>4, OrderOnly DEF Begins

LEMMA CancelOrderTurns ==
    ASSUME TypeOK, NEW r \in Request, NEW o \in Order,
           CancelOrder(r, o), UNCHANGED <<inventoryVars, paymentVars>>
    PROVE  Keeps
<1>1. /\ r \in Handler \ SagaWorker /\ \A g \in Handler \ {r} : task'[g] = task[g]
      /\ task[r].pc = "idle"
      /\ task'[r].pc = "cancel"
  BY HandlerAssumption DEF CancelOrder, TypeOK, OrderTypeOK, Idle, Handler
<1>2. UNCHANGED <<log, ordOffset, invOffset, payOffset, inv, pay>>
  BY DEF CancelOrder, busVars, inventoryVars, paymentVars
<1>3. \A i, q, duty : ~ Turn("order-service", r, i, q, duty) /\ ~ Turn("order-service", r, i, q, duty)'
  BY <1>1 DEF Turn, OrderTurn, Topic
<1> QED
  BY <1>1, <1>2, <1>3, OrderOnly DEF Keeps

LEMMA SagaReadTurns ==
    ASSUME TypeOK, NEW w \in SagaWorker, NEW t \in SagaTopic, NEW p \in Partition,
           SagaRead(w, t, p), UNCHANGED <<inventoryVars, paymentVars>>
    PROVE  \/ Keeps
           \/ \E k, o, d : HandsOn(t, p, k, "order-service", w, 0, o, d)
<1> DEFINE k == ordOffset[t][p] + 1
           e == log[t][p][k]
<1>1. /\ w \in Handler /\ \A g \in Handler \ {w} : task'[g] = task[g]
      /\ task[w].pc = "idle" /\ task'[w] = Handle(e)
      /\ t \in Topic /\ t \notin {"order-service", "inventory-service", "payment-service"}
  BY DEF SagaRead, NextEvent, TypeOK, OrderTypeOK, Idle, Handler, SagaTopic, Topic
<1>2. UNCHANGED <<log, invOffset, payOffset, inv, pay>>
  BY DEF SagaRead, busVars, inventoryVars, paymentVars
<1>3. k \in DOMAIN log[t][p] /\ e \in Event
  <2>1. ordOffset[t][p] \in Nat
    BY DEF TypeOK, OrderTypeOK
  <2> QED
    BY <1>1, <2>1, LogFacts DEF SagaRead, HasNext
<1>4. \A s \in Topic, q \in Partition : \A i, o, duty : EventTurn(s, q, i, o, duty)' <=>
          /\ EventTurn(s, q, i, o, duty)
          /\ ~ (s = t /\ q = p /\ i = k /\ duty \in {"confirm", "cancel"})
  BY <1>2, SagaReadsTurns DEF SagaRead
<1>5. \A i, o, duty : ~ Turn("order-service", w, i, o, duty)
  BY <1>1 DEF Turn, OrderTurn, Topic
<1>6. \A at, who, i, o, duty : ~ (at = "order-service" /\ who = w /\ i = 0) =>
          (Turn(at, who, i, o, duty)' <=>
              /\ Turn(at, who, i, o, duty)
              /\ ~ (at = t /\ who = p /\ i = k /\ duty \in {"confirm", "cancel"}))
  <2>1. /\ \A h \in Handler \ {w} : \A o, duty : OrderTurn(h, o, duty)' <=> OrderTurn(h, o, duty)
        /\ \A v \in InvWorker : \A o, duty : InvTurn(v, o, duty)' <=> InvTurn(v, o, duty)
        /\ \A v \in PayWorker : \A o, duty : PayTurn(v, o, duty)' <=> PayTurn(v, o, duty)
    BY <1>1, <1>2 DEF OrderTurn, InvTurn, PayTurn
  <2> QED
    BY <1>1, <1>4, <2>1 DEF Turn, Topic
<1>7. CASE Calls(e) \in {"confirm", "cancel"}
  <2>1. task'[w] = [pc |-> Calls(e), orderId |-> e.orderId]
    BY <1>1, <1>7 DEF Handle, Calls
  <2>2. \A o, duty : Turn("order-service", w, 0, o, duty)' <=> o = e.orderId /\ duty = Calls(e)
    BY <1>1, <1>7, <2>1 DEF Turn, OrderTurn, Topic, Duty
  <2>3. Turn(t, p, k, e.orderId, Calls(e))
    <3>1. ordOffset[t][p] < k
      BY DEF TypeOK, OrderTypeOK
    <3> QED
      BY <1>1, <1>3, <1>7, <3>1 DEF Turn, EventTurn, Ahead, Duty
  <2>4. \A o, duty : Turn(t, p, k, o, duty) => duty \in {"confirm", "cancel"}
    BY <1>1, <1>7 DEF Turn, EventTurn, Topic
  <2>5. Passes(t, p, k, "order-service", w, 0, e.orderId, Calls(e))
    BY <1>1, <1>5, <1>6, <2>2, <2>4 DEF Passes
  <2> QED
    BY <2>3, <2>5 DEF HandsOn
<1>8. CASE Calls(e) \notin {"confirm", "cancel"}
  <2>1. task'[w] = Idle
    BY <1>1, <1>8 DEF Handle, Calls
  <2>2. \A i, o, duty : ~ Turn("order-service", w, i, o, duty)'
    BY <1>1, <2>1 DEF Turn, OrderTurn, Topic, Idle
  <2>3. \A o, duty : Turn(t, p, k, o, duty) => duty \notin {"confirm", "cancel"}
    BY <1>1, <1>8 DEF Turn, EventTurn, Topic
  <2> QED
    BY <1>1, <1>5, <1>6, <2>2, <2>3 DEF Keeps
<1> QED
  BY <1>7, <1>8

(* The consumer's duty done: nobody is to act on the order any more. *)
LEMMA SagaEndTurns ==
    ASSUME TypeOK, NEW h \in Handler, SagaConfirm(h) \/ SagaCancel(h),
           UNCHANGED <<inventoryVars, paymentVars>>
    PROVE  /\ Drops("order-service", h, 0)
           /\ h \in SagaWorker => Turn("order-service", h, 0, task[h].orderId, task[h].pc)
<1>1. /\ \A g \in Handler \ {h} : task'[g] = task[g]
      /\ task[h].pc \in {"confirm", "cancel"}
      /\ task'[h].pc = "publish"
      /\ task'[h].event.type \in {"order.confirmed", "order.cancelled"}
  BY DEF SagaConfirm, SagaCancel, TypeOK, OrderTypeOK, MakeEvent
<1>2. UNCHANGED <<log, ordOffset, invOffset, payOffset, inv, pay>>
  BY DEF SagaConfirm, SagaCancel, busVars, inventoryVars, paymentVars
<1>3. \A i, q, duty : ~ Turn("order-service", h, i, q, duty)'
  BY <1>1 DEF Turn, OrderTurn, Topic, Calls, Duty
<1>4. Drops("order-service", h, 0)
  BY <1>1, <1>2, <1>3, OrderOnly DEF Drops
<1> QED
  BY <1>1, <1>4 DEF Turn, OrderTurn, Duty

LEMMA OrderFaultTurns ==
    ASSUME TypeOK, NEW h \in Handler, SagaError(h) \/ OrderStop(h),
           UNCHANGED <<inventoryVars, paymentVars>>
    PROVE  Drops("order-service", h, 0)
<1>1. /\ \A g \in Handler \ {h} : task'[g] = task[g]
      /\ task'[h] = Idle
  BY DEF SagaError, OrderStop, TypeOK, OrderTypeOK
<1>2. UNCHANGED <<log, ordOffset, invOffset, payOffset, inv, pay>>
  BY DEF SagaError, OrderStop, inventoryVars, paymentVars
<1>3. \A i, q, duty : ~ Turn("order-service", h, i, q, duty)'
  BY <1>1 DEF Turn, OrderTurn, Topic, Idle
<1> QED
  BY <1>1, <1>2, <1>3, OrderOnly DEF Drops

(* A handler that has published and is done: the event has the turn now,   *)
(* if the handler had it.  A repeated write is excluded.                   *)
LEMMA OrderPublishTurns ==
    ASSUME TypeOK, Provenance, Offsets, NEW h \in Handler, OrderPublish(h), NoRepeat',
           UNCHANGED <<inventoryVars, paymentVars>>
    PROVE  \/ Keeps
           \/ \E p, k, o, d : HandsOn("order-service", h, 0, "order.events", p, k, o, d)
<1> DEFINE e == task[h].event
           p == PartitionOf[e.orderId]
           k == Len(log["order.events"][p]) + 1
<1>1. /\ e \in Event /\ task[h].pc = "publish"
      /\ e.type \in {"order.created", "order.confirmed", "order.cancelled"}
  BY TaskFields DEF OrderPublish, TypeOK, Provenance, TaskVouched
<1>2. task'[h] = Idle /\ \A g \in Handler \ {h} : task'[g] = task[g]
  BY DEF OrderPublish, NoRepeat, Fault, TypeOK, OrderTypeOK, BusTypeOK
<1>3. UNCHANGED <<ordOffset, invOffset, payOffset, inv, pay>>
  BY DEF OrderPublish, inventoryVars, paymentVars
<1>4. \A s \in Topic, q \in Partition : \A i, o, duty : EventTurn(s, q, i, o, duty)' <=>
          \/ EventTurn(s, q, i, o, duty)
          \/ /\ s = "order.events" /\ q = p /\ i = k
             /\ o = e.orderId /\ duty = Calls(e)
             /\ Ahead("order.events", p, i, duty)
  BY <1>1, <1>3, PublishTurns DEF OrderPublish, Topic
<1>5. /\ \A o, duty : ~ OrderTurn(h, o, duty)'
      /\ \A g \in Handler \ {h} : \A o, duty : OrderTurn(g, o, duty)' <=> OrderTurn(g, o, duty)
      /\ \A v \in InvWorker : \A o, duty : InvTurn(v, o, duty)' <=> InvTurn(v, o, duty)
      /\ \A v \in PayWorker : \A o, duty : PayTurn(v, o, duty)' <=> PayTurn(v, o, duty)
  BY <1>2, <1>3 DEF OrderTurn, InvTurn, PayTurn, Idle
<1>6. \A o, duty : OrderTurn(h, o, duty) <=> o = e.orderId /\ duty = Calls(e)
  BY <1>1 DEF OrderTurn
<1>7. p \in Partition /\ "order.events" \in Topic
  BY <1>1, PartitionAssumption DEF Event, Topic
<1>8. CASE e.type = "order.created"
  <2>1. Calls(e) = "reserve" /\ Calls(e) \in Duty
    BY <1>8 DEF Calls, Duty
  <2>2. Ahead("order.events", p, k, Calls(e))
    <3>1. invOffset[p] \in Nat /\ invOffset[p] <= Len(log["order.events"][p])
      BY <1>7 DEF Offsets, TypeOK, InventoryTypeOK
    <3>2. Len(log["order.events"][p]) \in Nat
      BY <1>7, LogFacts
    <3>3. invOffset[p] < k
      <4>1. \A m, n \in Nat : m <= n => m < n + 1
        OBVIOUS
      <4> QED
        BY <3>1, <3>2, <4>1
    <3> QED
      BY <2>1, <3>3 DEF Ahead
  <2>3. Turn("order-service", h, 0, e.orderId, Calls(e))
    BY <1>6, <2>1 DEF Turn
  <2>4. Passes("order-service", h, 0, "order.events", p, k, e.orderId, Calls(e))
    <3>1. "order-service" \notin Topic
      BY DEF Topic
    <3> HIDE DEF e, p, k
    <3> QED
      BY <1>4, <1>5, <1>7, <2>1, <2>2, <3>1, TopicTakes
  <2> QED
    BY <2>3, <2>4 DEF HandsOn
<1>9. CASE e.type # "order.created"
  <2>1. Calls(e) \notin Duty
    BY <1>1, <1>9 DEF Calls, Duty
  <2> QED
    BY <1>4, <1>5, <1>6, <2>1 DEF Keeps, Turn, Topic
<1> QED
  BY <1>8, <1>9

-----------------------------------------------------------------------------
(* What each step of inventory-service does to the turns. *)

LEMMA InvReadTurns ==
    ASSUME TypeOK, NEW w \in InvWorker, NEW p \in Partition, InvRead(w, p),
           UNCHANGED <<orderVars, paymentVars>>
    PROVE  \/ Keeps
           \/ \E k, o, d : HandsOn("order.events", p, k, "inventory-service", w, 0, o, d)
<1> DEFINE k == invOffset[p] + 1
           e == log["order.events"][p][k]
<1>1. /\ \A v \in InvWorker \ {w} : inv'[v] = inv[v]
      /\ inv[w].pc = "idle" /\ inv'[w] = InvHandle(e)
      /\ "order.events" \in Topic
  BY DEF InvRead, NextEvent, TypeOK, InventoryTypeOK, Idle, Topic
<1>2. UNCHANGED <<log, ordOffset, payOffset, task, pay>>
  BY DEF InvRead, busVars, orderVars, paymentVars
<1>3. k \in DOMAIN log["order.events"][p] /\ e \in Event /\ invOffset[p] < k
  <2>1. invOffset[p] \in Nat
    BY DEF TypeOK, InventoryTypeOK
  <2> QED
    BY <1>1, <2>1, LogFacts DEF InvRead, HasNext
<1>4. \A s \in Topic, q \in Partition : \A i, o, duty : EventTurn(s, q, i, o, duty)' <=>
          /\ EventTurn(s, q, i, o, duty)
          /\ ~ (s = "order.events" /\ q = p /\ i = k /\ duty = "reserve")
  BY <1>2, InvReadsTurns DEF InvRead
<1>5. \A i, o, duty : ~ Turn("inventory-service", w, i, o, duty)
  BY <1>1 DEF Turn, InvTurn, Topic
<1>6. \A at, who, i, o, duty : ~ (at = "inventory-service" /\ who = w /\ i = 0) =>
          (Turn(at, who, i, o, duty)' <=>
              /\ Turn(at, who, i, o, duty)
              /\ ~ (at = "order.events" /\ who = p /\ i = k /\ duty = "reserve"))
  <2>1. /\ \A h \in Handler : \A o, duty : OrderTurn(h, o, duty)' <=> OrderTurn(h, o, duty)
        /\ \A v \in InvWorker \ {w} : \A o, duty : InvTurn(v, o, duty)' <=> InvTurn(v, o, duty)
        /\ \A v \in PayWorker : \A o, duty : PayTurn(v, o, duty)' <=> PayTurn(v, o, duty)
    BY <1>1, <1>2 DEF OrderTurn, InvTurn, PayTurn
  <2> QED
    BY <1>1, <1>4, <2>1 DEF Turn, Topic
<1>7. CASE e.type = "order.created"
  <2>0. Calls(e) = "reserve"
    BY <1>7 DEF Calls
  <2>1. inv'[w] = [pc |-> "reserve", event |-> e]
    BY <1>1, <1>7 DEF InvHandle
  <2>2. \A o, duty : Turn("inventory-service", w, 0, o, duty)' <=> o = e.orderId /\ duty = "reserve"
    BY <1>1, <2>0, <2>1 DEF Turn, InvTurn, Topic, Duty
  <2>3. Turn("order.events", p, k, e.orderId, "reserve")
    BY <1>1, <1>3, <2>0 DEF Turn, EventTurn, Ahead, Duty
  <2>4. \A o, duty : Turn("order.events", p, k, o, duty) => duty = "reserve"
    BY <2>0 DEF Turn, EventTurn, Topic
  <2>5. Passes("order.events", p, k, "inventory-service", w, 0, e.orderId, "reserve")
    BY <1>1, <1>5, <1>6, <2>2, <2>4 DEF Passes
  <2> QED
    BY <2>3, <2>5 DEF HandsOn
<1>8. CASE e.type # "order.created"
  <2>1. inv'[w].pc \in {"release", "idle"}
    BY <1>1, <1>8 DEF InvHandle, Idle
  <2>2. \A i, o, duty : ~ Turn("inventory-service", w, i, o, duty)'
    BY <1>1, <2>1 DEF Turn, InvTurn, Topic
  <2>3. \A o, duty : Turn("order.events", p, k, o, duty) => duty # "reserve"
    BY <1>1, <1>8 DEF Turn, EventTurn, Topic, Calls, Duty
  <2> QED
    BY <1>1, <1>5, <1>6, <2>2, <2>3 DEF Keeps
<1> QED
  BY <1>7, <1>8

(* The reservation tried: it is up to payment-service, or the order is to  *)
(* be cancelled.                                                           *)
LEMMA InvReserveTurns ==
    ASSUME TypeOK, Provenance, NEW w \in InvWorker,
           InvReserve(w) \/ InvRefuse(w) \/ InvReserveError(w),
           UNCHANGED <<orderVars, paymentVars>>
    PROVE  LET o == inv[w].event.orderId
               duty == IF InvReserve(w) THEN "charge" ELSE "cancel"
           IN  /\ Turn("inventory-service", w, 0, o, "reserve")
               /\ Passes("inventory-service", w, 0, "inventory-service", w, 0, o, duty)
<1> DEFINE o == inv[w].event.orderId
           duty == IF InvReserve(w) THEN "charge" ELSE "cancel"
<1>1. /\ inv[w].pc = "reserve" /\ inv[w].event.type = "order.created"
      /\ \A v \in InvWorker \ {w} : inv'[v] = inv[v]
      /\ inv'[w].pc = "publish" /\ inv'[w].event.orderId = o
      /\ inv'[w].event.type = IF InvReserve(w) THEN "inventory.reserved" ELSE "inventory.failed"
  BY DEF InvReserve, InvRefuse, InvReserveError, Report, MakeEvent, TypeOK, InventoryTypeOK,
         Provenance, InvVouched
<1>2. UNCHANGED <<log, ordOffset, invOffset, payOffset, task, pay>>
  BY DEF InvReserve, InvRefuse, InvReserveError, busVars, orderVars, paymentVars
<1>3. \A q, d : Turn("inventory-service", w, 0, q, d) <=> q = o /\ d = "reserve"
  BY <1>1 DEF Turn, InvTurn, Topic, Calls, Duty
<1>4. \A q, d : Turn("inventory-service", w, 0, q, d)' <=> q = o /\ d = duty
  BY <1>1 DEF Turn, InvTurn, Topic, Calls, Duty
<1> QED
  BY <1>1, <1>2, <1>3, <1>4, InvOnly DEF Passes

LEMMA InvReleaseTurns ==
    ASSUME TypeOK, NEW w \in InvWorker, InvRelease(w), UNCHANGED <<orderVars, paymentVars>>
    PROVE  Keeps
<1>1. /\ inv[w].pc = "release"
      /\ \A v \in InvWorker \ {w} : inv'[v] = inv[v]
      /\ inv'[w].event.type = "inventory.released"
  BY DEF InvRelease, Report, MakeEvent, TypeOK, InventoryTypeOK
<1>2. UNCHANGED <<log, ordOffset, invOffset, payOffset, task, pay>>
  BY DEF InvRelease, busVars, orderVars, paymentVars
<1>3. \A i, q, d : /\ ~ Turn("inventory-service", w, i, q, d)
                   /\ ~ Turn("inventory-service", w, i, q, d)'
  BY <1>1 DEF Turn, InvTurn, Topic, Calls, Duty
<1> QED
  BY <1>1, <1>2, <1>3, InvOnly DEF Keeps

LEMMA InvFaultTurns ==
    ASSUME TypeOK, NEW w \in InvWorker, InvReleaseError(w) \/ InvStop(w),
           UNCHANGED <<orderVars, paymentVars>>
    PROVE  Drops("inventory-service", w, 0)
<1>1. inv'[w] = Idle /\ \A v \in InvWorker \ {w} : inv'[v] = inv[v]
  BY DEF InvReleaseError, InvStop, TypeOK, InventoryTypeOK
<1>2. UNCHANGED <<log, ordOffset, invOffset, payOffset, task, pay>>
  BY DEF InvReleaseError, InvStop, orderVars, paymentVars
<1>3. \A i, q, d : ~ Turn("inventory-service", w, i, q, d)'
  BY <1>1 DEF Turn, InvTurn, Topic, Idle
<1> QED
  BY <1>1, <1>2, <1>3, InvOnly DEF Drops

LEMMA InvPublishTurns ==
    ASSUME TypeOK, Outcomes, Offsets, NEW w \in InvWorker, InvPublish(w), NoRepeat',
           UNCHANGED <<orderVars, paymentVars>>
    PROVE  \/ Keeps
           \/ \E p, k, o, d : HandsOn("inventory-service", w, 0, "inventory.events", p, k, o, d)
<1> DEFINE e == inv[w].event
           p == PartitionOf[e.orderId]
           k == Len(log["inventory.events"][p]) + 1
<1>1. /\ e \in Event /\ inv[w].pc = "publish"
      /\ e.type \in {"inventory.reserved", "inventory.failed", "inventory.released"}
  BY InvFields DEF InvPublish, Outcomes
<1>2. inv'[w] = Idle /\ \A v \in InvWorker \ {w} : inv'[v] = inv[v]
  BY DEF InvPublish, NoRepeat, Fault, TypeOK, InventoryTypeOK, BusTypeOK
<1>3. UNCHANGED <<ordOffset, invOffset, payOffset, task, pay>>
  BY DEF InvPublish, orderVars, paymentVars
<1>4. \A s \in Topic, q \in Partition : \A i, o, duty : EventTurn(s, q, i, o, duty)' <=>
          \/ EventTurn(s, q, i, o, duty)
          \/ /\ s = "inventory.events" /\ q = p /\ i = k
             /\ o = e.orderId /\ duty = Calls(e)
             /\ Ahead("inventory.events", p, i, duty)
  BY <1>1, <1>3, PublishTurns DEF InvPublish, Topic
<1>5. /\ \A h \in Handler : \A o, duty : OrderTurn(h, o, duty)' <=> OrderTurn(h, o, duty)
      /\ \A o, duty : ~ InvTurn(w, o, duty)'
      /\ \A v \in InvWorker \ {w} : \A o, duty : InvTurn(v, o, duty)' <=> InvTurn(v, o, duty)
      /\ \A v \in PayWorker : \A o, duty : PayTurn(v, o, duty)' <=> PayTurn(v, o, duty)
  BY <1>2, <1>3 DEF OrderTurn, InvTurn, PayTurn, Idle
<1>6. \A o, duty : InvTurn(w, o, duty) <=> o = e.orderId /\ duty = Calls(e)
  BY <1>1 DEF InvTurn
<1>7. p \in Partition /\ "inventory.events" \in Topic
  BY <1>1, PartitionAssumption DEF Event, Topic
<1>8. CASE e.type \in {"inventory.reserved", "inventory.failed"}
  <2>1. Calls(e) \in {"charge", "cancel"} /\ Calls(e) \in Duty
    BY <1>8 DEF Calls, Duty
  <2>2. Ahead("inventory.events", p, k, Calls(e))
    <3>1. /\ payOffset[p] \in Nat /\ payOffset[p] <= Len(log["inventory.events"][p])
          /\ ordOffset["inventory.events"][p] \in Nat
          /\ ordOffset["inventory.events"][p] <= Len(log["inventory.events"][p])
      <4>1. payOffset[p] \in Nat /\ payOffset[p] <= Len(log["inventory.events"][p])
        BY <1>7 DEF Offsets, TypeOK, PaymentTypeOK
      <4>2. "inventory.events" \in SagaTopic
        BY DEF SagaTopic
      <4>3. ordOffset \in [SagaTopic -> [Partition -> Nat]]
        BY DEF TypeOK, OrderTypeOK
      <4> QED
        BY <1>7, <4>1, <4>2, <4>3 DEF Offsets
    <3>2. Len(log["inventory.events"][p]) \in Nat
      BY <1>7, LogFacts
    <3>3. payOffset[p] < k
      BY <3>1, <3>2
    <3>4. ordOffset["inventory.events"][p] < k
      <4>1. \A m, n \in Nat : m <= n => m < n + 1
        OBVIOUS
      <4> QED
        BY <3>1, <3>2, <4>1
    <3> QED
      BY <2>1, <3>3, <3>4 DEF Ahead, SagaTopic
  <2>3. Turn("inventory-service", w, 0, e.orderId, Calls(e))
    BY <1>6, <2>1 DEF Turn
  <2>4. Passes("inventory-service", w, 0, "inventory.events", p, k, e.orderId, Calls(e))
    <3>1. "inventory-service" \notin Topic
      BY DEF Topic
    <3> HIDE DEF e, p, k
    <3> QED
      BY <1>4, <1>5, <1>7, <2>1, <2>2, <3>1, TopicTakes
  <2> QED
    BY <2>3, <2>4 DEF HandsOn
<1>9. CASE e.type = "inventory.released"
  <2>1. Calls(e) \notin Duty
    BY <1>9 DEF Calls, Duty
  <2> QED
    BY <1>4, <1>5, <1>6, <2>1 DEF Keeps, Turn, Topic
<1> QED
  BY <1>1, <1>8, <1>9

-----------------------------------------------------------------------------
(* What each step of payment-service does to the turns. *)

LEMMA PayReadTurns ==
    ASSUME TypeOK, NEW w \in PayWorker, NEW p \in Partition, PayRead(w, p),
           UNCHANGED <<orderVars, inventoryVars>>
    PROVE  \/ Keeps
           \/ \E k, o, d : HandsOn("inventory.events", p, k, "payment-service", w, 0, o, d)
<1> DEFINE k == payOffset[p] + 1
           e == log["inventory.events"][p][k]
<1>1. /\ \A v \in PayWorker \ {w} : pay'[v] = pay[v]
      /\ pay[w].pc = "idle" /\ pay'[w] = PayHandle(e)
      /\ "inventory.events" \in Topic
  BY DEF PayRead, NextEvent, TypeOK, PaymentTypeOK, Idle, Topic
<1>2. UNCHANGED <<log, ordOffset, invOffset, task, inv>>
  BY DEF PayRead, busVars, orderVars, inventoryVars
<1>3. k \in DOMAIN log["inventory.events"][p] /\ e \in Event /\ payOffset[p] < k
  <2>1. payOffset[p] \in Nat
    BY DEF TypeOK, PaymentTypeOK
  <2> QED
    BY <1>1, <2>1, LogFacts DEF PayRead, HasNext
<1>4. \A s \in Topic, q \in Partition : \A i, o, duty : EventTurn(s, q, i, o, duty)' <=>
          /\ EventTurn(s, q, i, o, duty)
          /\ ~ (s = "inventory.events" /\ q = p /\ i = k /\ duty = "charge")
  BY <1>2, PayReadsTurns DEF PayRead
<1>5. \A i, o, duty : ~ Turn("payment-service", w, i, o, duty)
  BY <1>1 DEF Turn, PayTurn, Topic
<1>6. \A at, who, i, o, duty : ~ (at = "payment-service" /\ who = w /\ i = 0) =>
          (Turn(at, who, i, o, duty)' <=>
              /\ Turn(at, who, i, o, duty)
              /\ ~ (at = "inventory.events" /\ who = p /\ i = k /\ duty = "charge"))
  <2>1. /\ \A h \in Handler : \A o, duty : OrderTurn(h, o, duty)' <=> OrderTurn(h, o, duty)
        /\ \A v \in InvWorker : \A o, duty : InvTurn(v, o, duty)' <=> InvTurn(v, o, duty)
        /\ \A v \in PayWorker \ {w} : \A o, duty : PayTurn(v, o, duty)' <=> PayTurn(v, o, duty)
    BY <1>1, <1>2 DEF OrderTurn, InvTurn, PayTurn
  <2> QED
    BY <1>1, <1>4, <2>1 DEF Turn, Topic
<1>7. CASE e.type = "inventory.reserved"
  <2>0. Calls(e) = "charge"
    BY <1>7 DEF Calls
  <2>1. pay'[w] = [pc |-> "insert", event |-> e]
    BY <1>1, <1>7 DEF PayHandle
  <2>2. \A o, duty : Turn("payment-service", w, 0, o, duty)' <=> o = e.orderId /\ duty = "charge"
    BY <1>1, <2>0, <2>1 DEF Turn, PayTurn, Topic, Duty
  <2>3. Turn("inventory.events", p, k, e.orderId, "charge")
    BY <1>1, <1>3, <2>0 DEF Turn, EventTurn, Ahead, Duty
  <2>4. \A o, duty : Turn("inventory.events", p, k, o, duty) => duty = "charge"
    BY <2>0 DEF Turn, EventTurn, Topic
  <2>5. Passes("inventory.events", p, k, "payment-service", w, 0, e.orderId, "charge")
    BY <1>1, <1>5, <1>6, <2>2, <2>4 DEF Passes
  <2> QED
    BY <2>3, <2>5 DEF HandsOn
<1>8. CASE e.type # "inventory.reserved"
  <2>1. pay'[w] = Idle
    BY <1>1, <1>8 DEF PayHandle
  <2>2. \A i, o, duty : ~ Turn("payment-service", w, i, o, duty)'
    BY <1>1, <2>1 DEF Turn, PayTurn, Topic, Idle
  <2>3. \A o, duty : Turn("inventory.events", p, k, o, duty) => duty # "charge"
    BY <1>1, <1>8 DEF Turn, EventTurn, Topic, Calls, Duty
  <2> QED
    BY <1>1, <1>5, <1>6, <2>2, <2>3 DEF Keeps
<1> QED
  BY <1>7, <1>8

(* The row inserted, or updated: the handler has the duty it had. *)
LEMMA PayRowTurns ==
    ASSUME TypeOK, Provenance, NEW w \in PayWorker, PayInsert(w) \/ PayRecord(w),
           UNCHANGED <<orderVars, inventoryVars>>
    PROVE  Keeps
<1>1. \A v \in PayWorker \ {w} : pay'[v] = pay[v]
  BY DEF PayInsert, PayRecord, TypeOK, PaymentTypeOK
<1>2. UNCHANGED <<log, ordOffset, invOffset, payOffset, task, inv>>
  BY DEF PayInsert, PayRecord, busVars, orderVars, inventoryVars
<1>3. CASE PayInsert(w)
  <2>1. /\ pay[w].pc = "insert" /\ pay'[w].pc = "charge" /\ pay'[w].event = pay[w].event
    BY <1>3 DEF PayInsert, TypeOK, PaymentTypeOK
  <2>2. \A i, q, d : Turn("payment-service", w, i, q, d)' <=> Turn("payment-service", w, i, q, d)
    BY <2>1 DEF Turn, PayTurn, Topic, Calls
  <2> QED
    BY <1>1, <1>2, <2>2, PayOnly DEF Keeps
<1>4. CASE PayRecord(w)
  <2>1. /\ pay[w].pc = "record" /\ pay[w].status \in {"completed", "failed"}
        /\ pay'[w].pc = "publish" /\ pay'[w].event.orderId = pay[w].event.orderId
        /\ pay'[w].event.type = IF pay[w].status = "completed" THEN "payment.confirmed"
                                                               ELSE "payment.failed"
    BY <1>4, PayFields DEF PayRecord, Outcome, MakeEvent, TypeOK, PaymentTypeOK
  <2>2. \A i, q, d : Turn("payment-service", w, i, q, d)' <=> Turn("payment-service", w, i, q, d)
    BY <2>1 DEF Turn, PayTurn, Topic, Calls
  <2> QED
    BY <1>1, <1>2, <2>2, PayOnly DEF Keeps
<1> QED
  BY <1>3, <1>4

(* The card charged or declined. *)
LEMMA PayChargeTurns ==
    ASSUME TypeOK, Provenance, NEW w \in PayWorker, PayCharge(w),
           UNCHANGED <<orderVars, inventoryVars>>
    PROVE  LET e == pay[w].event
               duty == IF e.total <= DeclineOver THEN "confirm" ELSE "cancel"
           IN  /\ Turn("payment-service", w, 0, e.orderId, "charge")
               /\ Passes("payment-service", w, 0, "payment-service", w, 0, e.orderId, duty)
<1> DEFINE e == pay[w].event
           duty == IF e.total <= DeclineOver THEN "confirm" ELSE "cancel"
<1>1. /\ pay[w].pc = "charge" /\ e.type = "inventory.reserved"
      /\ \A v \in PayWorker \ {w} : pay'[v] = pay[v]
      /\ pay'[w].pc = "record" /\ pay'[w].event = e
      /\ pay'[w].status = IF e.total <= DeclineOver THEN "completed" ELSE "failed"
  BY DEF PayCharge, TypeOK, PaymentTypeOK, Provenance, PayVouched
<1>2. UNCHANGED <<log, ordOffset, invOffset, payOffset, task, inv>>
  BY DEF PayCharge, busVars, orderVars, inventoryVars
<1>3. \A q, d : Turn("payment-service", w, 0, q, d) <=> q = e.orderId /\ d = "charge"
  BY <1>1 DEF Turn, PayTurn, Topic, Calls, Duty
<1>4. \A q, d : Turn("payment-service", w, 0, q, d)' <=> q = e.orderId /\ d = duty
  BY <1>1 DEF Turn, PayTurn, Topic, Calls, Duty
<1> QED
  BY <1>1, <1>2, <1>3, <1>4, PayOnly DEF Passes

LEMMA PayFaultTurns ==
    ASSUME TypeOK, NEW w \in PayWorker, PayInsertError(w) \/ PayStop(w),
           UNCHANGED <<orderVars, inventoryVars>>
    PROVE  Drops("payment-service", w, 0)
<1>1. pay'[w] = Idle /\ \A v \in PayWorker \ {w} : pay'[v] = pay[v]
  BY DEF PayInsertError, PayStop, TypeOK, PaymentTypeOK
<1>2. UNCHANGED <<log, ordOffset, invOffset, payOffset, task, inv>>
  BY DEF PayInsertError, PayStop, orderVars, inventoryVars
<1>3. \A i, q, d : ~ Turn("payment-service", w, i, q, d)'
  BY <1>1 DEF Turn, PayTurn, Topic, Idle
<1> QED
  BY <1>1, <1>2, <1>3, PayOnly DEF Drops

LEMMA PayPublishTurns ==
    ASSUME TypeOK, Outcomes, Offsets, NEW w \in PayWorker, PayPublish(w), NoRepeat',
           UNCHANGED <<orderVars, inventoryVars>>
    PROVE  \E p, k, o, d : HandsOn("payment-service", w, 0, "payment.events", p, k, o, d)
<1> DEFINE e == pay[w].event
           p == PartitionOf[e.orderId]
           k == Len(log["payment.events"][p]) + 1
<1>1. /\ e \in Event /\ pay[w].pc = "publish"
      /\ e.type \in {"payment.confirmed", "payment.failed"}
  BY PayFields DEF PayPublish, Outcomes
<1>2. pay'[w] = Idle /\ \A v \in PayWorker \ {w} : pay'[v] = pay[v]
  BY DEF PayPublish, NoRepeat, Fault, TypeOK, PaymentTypeOK, BusTypeOK
<1>3. UNCHANGED <<ordOffset, invOffset, payOffset, task, inv>>
  BY DEF PayPublish, orderVars, inventoryVars
<1>4. \A s \in Topic, q \in Partition : \A i, o, duty : EventTurn(s, q, i, o, duty)' <=>
          \/ EventTurn(s, q, i, o, duty)
          \/ /\ s = "payment.events" /\ q = p /\ i = k
             /\ o = e.orderId /\ duty = Calls(e)
             /\ Ahead("payment.events", p, i, duty)
  BY <1>1, <1>3, PublishTurns DEF PayPublish, Topic
<1>5. /\ \A h \in Handler : \A o, duty : OrderTurn(h, o, duty)' <=> OrderTurn(h, o, duty)
      /\ \A v \in InvWorker : \A o, duty : InvTurn(v, o, duty)' <=> InvTurn(v, o, duty)
      /\ \A o, duty : ~ PayTurn(w, o, duty)'
      /\ \A v \in PayWorker \ {w} : \A o, duty : PayTurn(v, o, duty)' <=> PayTurn(v, o, duty)
  BY <1>2, <1>3 DEF OrderTurn, InvTurn, PayTurn, Idle
<1>6. \A o, duty : PayTurn(w, o, duty) <=> o = e.orderId /\ duty = Calls(e)
  BY <1>1 DEF PayTurn
<1>7. p \in Partition /\ "payment.events" \in Topic
  BY <1>1, PartitionAssumption DEF Event, Topic
<1>8. Calls(e) \in {"confirm", "cancel"} /\ Calls(e) \in Duty
  BY <1>1 DEF Calls, Duty
<1>9. Ahead("payment.events", p, k, Calls(e))
  <2>1. /\ ordOffset["payment.events"][p] \in Nat
        /\ ordOffset["payment.events"][p] <= Len(log["payment.events"][p])
    BY <1>7 DEF Offsets, TypeOK, OrderTypeOK, SagaTopic
  <2>2. Len(log["payment.events"][p]) \in Nat
    BY <1>7, LogFacts
  <2>3. ordOffset["payment.events"][p] < k
    BY <2>1, <2>2
  <2> QED
    BY <1>8, <2>3 DEF Ahead, SagaTopic
<1>10. Turn("payment-service", w, 0, e.orderId, Calls(e))
  BY <1>6, <1>8 DEF Turn
<1>11. Passes("payment-service", w, 0, "payment.events", p, k, e.orderId, Calls(e))
  <2>1. "payment-service" \notin Topic
    BY DEF Topic
  <2> HIDE DEF e, p, k
  <2> QED
    BY <1>4, <1>5, <1>7, <1>8, <1>9, <2>1, TopicTakes
<1> QED
  BY <1>10, <1>11 DEF HandsOn

-----------------------------------------------------------------------------
(* The events of a topic stay, and offsets follow them. *)

LEMMA StepsOfTheLog ==
    ASSUME TypeOK, [Next]_vars
    PROVE  UNCHANGED log \/ \E t \in Topic, e \in Event : Publish(t, e)
<1>1. ASSUME NEW h \in Handler, OrderPublish(h)
      PROVE  \E t \in Topic, e \in Event : Publish(t, e)
  BY <1>1, TaskFields DEF OrderPublish, Topic, TypeOK
<1>2. ASSUME NEW w \in InvWorker, InvPublish(w)
      PROVE  \E t \in Topic, e \in Event : Publish(t, e)
  BY <1>2, InvFields DEF InvPublish, Topic
<1>3. ASSUME NEW w \in PayWorker, PayPublish(w)
      PROVE  \E t \in Topic, e \in Event : Publish(t, e)
  BY <1>3, PayFields DEF PayPublish, Topic
<1>4. CASE OrderNext
  BY <1>1, <1>4
  DEF OrderNext, SagaWorkerStep, RequestStep, CreateOrder, CancelOrder, SagaRead, SagaConfirm,
      SagaCancel, SagaError, OrderStop, busVars, Handler
<1>5. CASE InventoryNext
  BY <1>2, <1>5
  DEF InventoryNext, InvWorkerStep, InvFaultStep, InvRead, InvReserve, InvRefuse, InvReserveError,
      InvRelease, InvReleaseError, InvStop, busVars
<1>6. CASE PaymentNext
  BY <1>3, <1>6
  DEF PaymentNext, PayWorkerStep, PayRead, PayInsert, PayInsertError, PayCharge, PayRecord,
      PayStop, busVars
<1>7. CASE UNCHANGED vars
  BY <1>7 DEF vars, busVars
<1> QED
  BY <1>4, <1>5, <1>6, <1>7 DEF Next, Waiting

LEMMA LogGrows ==
    ASSUME TypeOK, [Next]_vars, NEW t \in Topic, NEW p \in Partition
    PROVE  Len(log[t][p]) <= Len(log'[t][p])
<1>0. log[t][p] \in Seq(Event) /\ Len(log[t][p]) \in Nat
  BY LogFacts
<1>1. ASSUME NEW s \in Topic, NEW e \in Event, Publish(s, e)
      PROVE  Len(log[t][p]) <= Len(log'[t][p])
  <2>1. log'[t][p] \in {log[t][p], Append(log[t][p], e)}
    BY <1>1 DEF Publish, TypeOK, BusTypeOK
  <2> QED
    BY <1>0, <2>1, AppendProperties
<1>2. CASE UNCHANGED log
  BY <1>0, <1>2
<1> QED
  BY <1>1, <1>2, StepsOfTheLog

(* No step takes an event out of a topic, or moves it. *)
LEMMA EventsStay ==
    ASSUME TypeOK, [Next]_vars, NEW t \in Topic, NEW p \in Partition, NEW i \in DOMAIN log[t][p]
    PROVE  i \in DOMAIN log'[t][p] /\ log'[t][p][i] = log[t][p][i]
<1>1. ASSUME NEW s \in Topic, NEW e \in Event, Publish(s, e)
      PROVE  i \in DOMAIN log'[t][p] /\ log'[t][p][i] = log[t][p][i]
  BY <1>1, PublishAdds
<1> QED
  BY <1>1, StepsOfTheLog

(* What a topic has about an order, now and after a step. *)
LEMMA IsPublished ==
    ASSUME NEW t, NEW type, NEW o, NEW pi
    PROVE  /\ pi \in Published(t, type, o) <=>
                 \E p \in Partition : \E i \in DOMAIN log[t][p] :
                    pi = <<p, i>> /\ log[t][p][i].type = type /\ log[t][p][i].orderId = o
           /\ pi \in Published(t, type, o)' <=>
                 \E p \in Partition : \E i \in DOMAIN log'[t][p] :
                    pi = <<p, i>> /\ log'[t][p][i].type = type /\ log'[t][p][i].orderId = o
BY DEF Published

(* It stays, and is finite. *)
LEMMA PublishedGrows ==
    ASSUME TypeOK, [Next]_vars, NEW t \in Topic, NEW type, NEW o,
           IsFiniteSet(Published(t, type, o))
    PROVE  /\ IsFiniteSet(Published(t, type, o))'
           /\ Published(t, type, o) \subseteq Published(t, type, o)'
<1> DEFINE Now == Published(t, type, o)
<1>1. CASE UNCHANGED log
  BY <1>1 DEF Published
<1>2. ASSUME NEW s \in Topic, NEW e \in Event, Publish(s, e)
      PROVE  \E x : Now \subseteq Now' /\ Now' \subseteq Now \cup {x}
  <2>1. PICK q, k : q = PartitionOf[e.orderId] /\ k = Len(log[t][q]) + 1
    OBVIOUS
  <2>2. \A p \in Partition :
           /\ DOMAIN log[t][p] \subseteq DOMAIN log'[t][p]
           /\ \A i \in DOMAIN log'[t][p] : i \in DOMAIN log[t][p] \/ (p = q /\ i = k)
           /\ \A i \in DOMAIN log[t][p] : log'[t][p][i] = log[t][p][i]
    BY <1>2, <2>1, PublishAdds
  <2>3. Now \subseteq Now'
    <3> SUFFICES ASSUME NEW pi \in Published(t, type, o) PROVE pi \in Published(t, type, o)'
      OBVIOUS
    <3>1. PICK p \in Partition : \E i \in DOMAIN log[t][p] :
             pi = <<p, i>> /\ log[t][p][i].type = type /\ log[t][p][i].orderId = o
      BY IsPublished
    <3> QED
      BY <2>2, <3>1, IsPublished
  <2>4. Now' \subseteq Now \cup {<<q, k>>}
    <3> SUFFICES ASSUME NEW pi \in Published(t, type, o)', pi # <<q, k>>
                 PROVE  pi \in Published(t, type, o)
      OBVIOUS
    <3>1. PICK p, i : /\ pi = <<p, i>> /\ p \in Partition /\ i \in DOMAIN log'[t][p]
                      /\ log'[t][p][i].type = type
                      /\ log'[t][p][i].orderId = o
      BY IsPublished
    <3>2. i \in DOMAIN log[t][p] /\ log[t][p][i] = log'[t][p][i]
      BY <2>2, <3>1
    <3> QED
      BY <3>1, <3>2, IsPublished
  <2> QED
    BY <2>3, <2>4
<1>3. ASSUME NEW x, Now' \subseteq Now \cup {x}
      PROVE  IsFiniteSet(Now')
  <2>1. IsFiniteSet(Now \cup {x})
    BY FS_AddElement
  <2> HIDE DEF Now
  <2> QED
    BY <1>3, <2>1, FS_Subset
<1> QED
  BY <1>1, <1>2, <1>3, StepsOfTheLog

LEMMA OffsetsStep ==
    ASSUME TypeOK, TypeOK', Offsets, [Next]_vars
    PROVE  Offsets'
<1> DEFINE Follows(off, s) == off \in Nat /\ off <= Len(s)
<1>1. ASSUME NEW t \in Topic, NEW p \in Partition
      PROVE  Len(log[t][p]) \in Nat /\ Len(log'[t][p]) \in Nat /\ Len(log[t][p]) <= Len(log'[t][p])
  <2>1. log[t][p] \in Seq(Event) /\ log'[t][p] \in Seq(Event)
    BY DEF TypeOK, BusTypeOK
  <2> QED
    BY <2>1, LenProperties, LogGrows
<1>2. ASSUME NEW p \in Partition
      PROVE  invOffset'[p] <= Len(log'["order.events"][p])
  <2>1. /\ invOffset[p] \in Nat /\ "order.events" \in Topic
        /\ invOffset[p] <= Len(log["order.events"][p])
    BY DEF Offsets, TypeOK, InventoryTypeOK, Topic
  <2>2. \/ invOffset'[p] = invOffset[p]
        \/ /\ invOffset'[p] = invOffset[p] + 1
           /\ invOffset[p] < Len(log["order.events"][p])
    <3>1. ASSUME NEW w \in InvWorker, NEW q \in Partition, InvRead(w, q)
          PROVE  <2>2
      BY <3>1 DEF InvRead, HasNext, TypeOK, InventoryTypeOK
    <3>2. CASE UNCHANGED invOffset
      BY <3>2
    <3> QED
      BY <3>1, <3>2
      DEF Next, Waiting, vars, inventoryVars, InventoryNext, InvWorkerStep, InvFaultStep,
          InvReserve, InvRefuse, InvReserveError, InvRelease, InvReleaseError, InvPublish, InvStop
  <2>3. /\ Len(log["order.events"][p]) \in Nat /\ Len(log'["order.events"][p]) \in Nat
        /\ Len(log["order.events"][p]) <= Len(log'["order.events"][p])
    BY <1>1, <2>1
  <2> QED
    BY <2>1, <2>2, <2>3
<1>3. ASSUME NEW p \in Partition
      PROVE  payOffset'[p] <= Len(log'["inventory.events"][p])
  <2>1. /\ payOffset[p] \in Nat /\ "inventory.events" \in Topic
        /\ payOffset[p] <= Len(log["inventory.events"][p])
    BY DEF Offsets, TypeOK, PaymentTypeOK, Topic
  <2>2. \/ payOffset'[p] = payOffset[p]
        \/ /\ payOffset'[p] = payOffset[p] + 1
           /\ payOffset[p] < Len(log["inventory.events"][p])
    <3>1. ASSUME NEW w \in PayWorker, NEW q \in Partition, PayRead(w, q)
          PROVE  <2>2
      BY <3>1 DEF PayRead, HasNext, TypeOK, PaymentTypeOK
    <3>2. CASE UNCHANGED payOffset
      BY <3>2
    <3> QED
      BY <3>1, <3>2
      DEF Next, Waiting, vars, paymentVars, PaymentNext, PayWorkerStep, PayInsert, PayInsertError,
          PayCharge, PayRecord, PayPublish, PayStop
  <2>3. /\ Len(log["inventory.events"][p]) \in Nat /\ Len(log'["inventory.events"][p]) \in Nat
        /\ Len(log["inventory.events"][p]) <= Len(log'["inventory.events"][p])
    BY <1>1, <2>1
  <2> QED
    BY <2>1, <2>2, <2>3
<1>4. ASSUME NEW p \in Partition, NEW t \in SagaTopic
      PROVE  ordOffset'[t][p] <= Len(log'[t][p])
  <2>1. /\ ordOffset[t][p] \in Nat /\ t \in Topic
        /\ ordOffset[t][p] <= Len(log[t][p])
    BY DEF Offsets, TypeOK, OrderTypeOK, SagaTopic, Topic
  <2>2. \/ ordOffset'[t][p] = ordOffset[t][p]
        \/ /\ ordOffset'[t][p] = ordOffset[t][p] + 1
           /\ ordOffset[t][p] < Len(log[t][p])
    <3>1. ASSUME NEW w \in SagaWorker, NEW s \in SagaTopic, NEW q \in Partition, SagaRead(w, s, q)
          PROVE  <2>2
      BY <3>1 DEF SagaRead, HasNext, TypeOK, OrderTypeOK
    <3>2. CASE UNCHANGED ordOffset
      BY <3>2
    <3> QED
      BY <3>1, <3>2
      DEF Next, Waiting, vars, orderVars, OrderNext, SagaWorkerStep, RequestStep, CreateOrder,
          CancelOrder, SagaConfirm, SagaCancel, OrderPublish, SagaError, OrderStop
  <2> QED
    BY <1>1, <2>1, <2>2
<1> QED
  BY <1>2, <1>3, <1>4 DEF Offsets

(* A handler publishes its own kind of outcome. *)
LEMMA OutcomesStep ==
    ASSUME TypeOK, Outcomes, [Next]_vars
    PROVE  Outcomes'
<1>1. ASSUME NEW w \in InvWorker, InvWorkerStep(w) \/ InvFaultStep(w), UNCHANGED pay
      PROVE  Outcomes'
  <2>1. \A v \in InvWorker \ {w} : inv'[v] = inv[v]
    BY <1>1 DEF InvWorkerStep, InvFaultStep, InvRead, InvReserve, InvRefuse, InvReserveError,
                InvRelease, InvReleaseError, InvPublish, InvStop, Report, TypeOK, InventoryTypeOK
  <2>2. inv'[w].pc = "publish" =>
          inv'[w].event.type \in {"inventory.reserved", "inventory.failed", "inventory.released"}
    <3>0. inv \in [InvWorker -> InventoryTask]
      BY DEF TypeOK, InventoryTypeOK
    <3>1. ASSUME NEW p \in Partition, InvRead(w, p) PROVE inv'[w].pc # "publish"
      BY <3>0, <3>1 DEF InvRead, InvHandle, Idle
    <3>2. CASE InvReserve(w) \/ InvRefuse(w) \/ InvReserveError(w) \/ InvRelease(w)
      BY <3>0, <3>2 DEF InvReserve, InvRefuse, InvReserveError, InvRelease, Report, MakeEvent
    <3>3. CASE InvReleaseError(w) \/ InvStop(w)
      BY <3>0, <3>3 DEF InvReleaseError, InvStop, Idle
    <3>4. CASE InvPublish(w)
      BY <3>0, <3>4 DEF InvPublish, Idle, Outcomes
    <3> QED
      BY <1>1, <3>1, <3>2, <3>3, <3>4 DEF InvWorkerStep, InvFaultStep
  <2> QED
    BY <1>1, <2>1, <2>2 DEF Outcomes
<1>2. ASSUME NEW w \in PayWorker, PayWorkerStep(w) \/ PayInsertError(w) \/ PayStop(w), UNCHANGED inv
      PROVE  Outcomes'
  <2>1. \A v \in PayWorker \ {w} : pay'[v] = pay[v]
    BY <1>2 DEF PayWorkerStep, PayRead, PayInsert, PayInsertError, PayCharge, PayRecord,
                PayPublish, PayStop, TypeOK, PaymentTypeOK
  <2>2. pay'[w].pc = "publish" =>
          pay'[w].event.type \in {"payment.confirmed", "payment.failed"}
    <3>0. pay \in [PayWorker -> PaymentTask]
      BY DEF TypeOK, PaymentTypeOK
    <3>1. ASSUME NEW p \in Partition, PayRead(w, p) PROVE pay'[w].pc # "publish"
      BY <3>0, <3>1 DEF PayRead, PayHandle, Idle
    <3>2. CASE PayInsert(w) \/ PayInsertError(w) \/ PayCharge(w) \/ PayStop(w)
      <4>1. PayInsert(w) => pay'[w].pc = "charge"
        BY <3>0 DEF PayInsert
      <4>2. PayCharge(w) => pay'[w].pc = "record"
        BY <3>0 DEF PayCharge
      <4>3. PayInsertError(w) \/ PayStop(w) => pay'[w].pc = "idle"
        BY <3>0 DEF PayInsertError, PayStop, Idle
      <4> QED
        BY <3>2, <4>1, <4>2, <4>3
    <3>3. CASE PayRecord(w)
      BY <3>0, <3>3 DEF PayRecord, Outcome, MakeEvent
    <3>4. CASE PayPublish(w)
      BY <3>0, <3>4 DEF PayPublish, Idle, Outcomes
    <3> QED
      BY <1>2, <3>1, <3>2, <3>3, <3>4 DEF PayWorkerStep
  <2> QED
    BY <1>2, <2>1, <2>2 DEF Outcomes
<1>3. CASE UNCHANGED <<inv, pay>>
  BY <1>3 DEF Outcomes
<1> QED
  BY <1>1, <1>2, <1>3
  DEF Next, Waiting, vars, InventoryNext, PaymentNext, orderVars, inventoryVars, paymentVars

-----------------------------------------------------------------------------
(* One turn at a time, and it fits what has been done. *)

LEMMA TurnHasOrder ==
    ASSUME TypeOK, Provenance, NEW at, NEW who, NEW i, NEW o, NEW duty,
           Turn(at, who, i, o, duty)
    PROVE  orders[o].status # "none"
<1>1. CASE at = "order-service" /\ who \in Handler /\ OrderTurn(who, o, duty)
  BY <1>1 DEF OrderTurn, Provenance, TaskVouched, Vouched
<1>2. CASE at = "inventory-service" /\ who \in InvWorker /\ InvTurn(who, o, duty)
  BY <1>2 DEF InvTurn, Provenance, InvVouched, Vouched
<1>3. CASE at = "payment-service" /\ who \in PayWorker /\ PayTurn(who, o, duty)
  BY <1>3 DEF PayTurn, Provenance, PayVouched, Vouched
<1>4. CASE at \in Topic /\ who \in Partition /\ EventTurn(at, who, i, o, duty)
  BY <1>4 DEF EventTurn, Provenance, LogVouched, Vouched
<1> QED
  BY <1>1, <1>2, <1>3, <1>4 DEF Turn

(* A turn that goes, or is handed on as it is, while no order changes. *)
GoesOn ==
    \/ Keeps
    \/ \E ct, u, k : Drops(ct, u, k)
    \/ \E ct, u, k, bt, v, j, q, d : HandsOn(ct, u, k, bt, v, j, q, d)

LEMMA OneGoesOn ==
    ASSUME TypeOK, OneTurn, TurnFits, GoesOn, UNCHANGED <<orders, charges>>
    PROVE  OneTurn' /\ TurnFits'
<1>1. CASE Keeps \/ \E ct, u, k : Drops(ct, u, k)
  <2>1. \A at, who, i, o, duty : Turn(at, who, i, o, duty)' => Turn(at, who, i, o, duty)
    BY <1>1 DEF Keeps, Drops
  <2>2. OneTurn'
    BY <2>1, OnlyTurn DEF OneTurn
  <2>3. TurnFits'
    BY <2>1, TurnIsOf DEF TurnFits
  <2> QED
    BY <2>2, <2>3
<1>2. ASSUME NEW ct, NEW u, NEW k, NEW bt, NEW v, NEW j, NEW q, NEW d,
             HandsOn(ct, u, k, bt, v, j, q, d)
      PROVE  OneTurn' /\ TurnFits'
  <2>1. Turn(ct, u, k, q, d)
    BY <1>2 DEF HandsOn
  <2>2. \A at, who, i, o, duty : Turn(at, who, i, o, duty)' =>
            \/ o # q /\ Turn(at, who, i, o, duty)
            \/ at = bt /\ who = v /\ i = j /\ o = q /\ duty = d
    BY <1>2, <2>1, OnlyTurn DEF HandsOn, Passes
  <2>3. OneTurn'
    BY <2>2, OnlyTurn DEF OneTurn
  <2>4. \A at, who, i, o, duty : Turn(at, who, i, o, duty)' =>
            \E bt2, v2, j2 : Turn(bt2, v2, j2, o, duty)
    BY <2>1, <2>2
  <2>5. TurnFits'
    BY <2>4, TurnIsOf DEF TurnFits
  <2> QED
    BY <2>3, <2>5
<1> QED
  BY <1>1, <1>2 DEF GoesOn

(* A turn that changes hands with a new duty, the charge made or not. *)
LEMMA OnePasses ==
    ASSUME TypeOK, OneTurn, TurnFits, NEW ct, NEW u, NEW k, NEW bt, NEW v, NEW j,
           NEW q \in Order, NEW d, NEW e,
           Turn(ct, u, k, q, e), Passes(ct, u, k, bt, v, j, q, d),
           UNCHANGED orders, \A o \in Order \ {q} : charges'[o] = charges[o],
           d = "confirm" <=> charges'[q] # <<>>
    PROVE  OneTurn' /\ TurnFits'
<1>1. \A at, who, i, o, duty : Turn(at, who, i, o, duty)' =>
          \/ o # q /\ Turn(at, who, i, o, duty)
          \/ at = bt /\ who = v /\ i = j /\ o = q /\ duty = d
  BY OnlyTurn DEF Passes
<1>2. OneTurn'
  BY <1>1, OnlyTurn DEF OneTurn
<1>3. orders[q].status # "confirmed"
  BY TurnIsOf DEF TurnFits
<1>4. TurnFits'
  BY <1>1, <1>3, TurnIsOf DEF TurnFits
<1> QED
  BY <1>2, <1>4

LEMMA OrderOneSaga ==
    ASSUME TurnInv, NoRepeat, NoRepeat', OrderNext, UNCHANGED <<inventoryVars, paymentVars>>
    PROVE  OneTurn' /\ TurnFits'
<1> USE DEF TurnInv
<1>0. OneTurn /\ TurnFits /\ UNCHANGED charges
  BY DEF OneSaga, paymentVars
<1>1. ASSUME NEW r \in Request, NEW o \in Order, NEW items \in Cart, CreateOrder(r, o, items)
      PROVE  OneTurn' /\ TurnFits'
  <2>1. Begins("order-service", r, 0, o, "reserve")
    BY <1>1, CreateOrderTurns
  <2>2. /\ orders[o].status = "none" /\ orders'[o].status = "pending"
        /\ \A q \in Order \ {o} : orders'[q] = orders[q]
    BY <1>1 DEF CreateOrder, NewOrder, TypeOK, OrderTypeOK
  <2>3. \A at, who, i, duty : ~ Turn(at, who, i, o, duty)
    BY <2>2, TurnHasOrder
  <2>4. \A at, who, i, q, duty : Turn(at, who, i, q, duty)' =>
            \/ q # o /\ Turn(at, who, i, q, duty)
            \/ at = "order-service" /\ who = r /\ i = 0 /\ q = o /\ duty = "reserve"
    BY <2>1, <2>3 DEF Begins
  <2>5. OneTurn'
    BY <1>0, <2>4, OnlyTurn DEF OneTurn
  <2>6. charges[o] = <<>>
    BY <2>2 DEF Provenance, ChargesVouched
  <2>7. TurnFits'
    BY <1>0, <2>2, <2>4, <2>6, TurnIsOf DEF TurnFits
  <2> QED
    BY <2>5, <2>7
<1>2. ASSUME NEW r \in Request, NEW o \in Order, CancelOrder(r, o)
      PROVE  OneTurn' /\ TurnFits'
  BY <1>0, <1>2, CancelOrderTurns, OneGoesOn DEF GoesOn, CancelOrder
<1>3. ASSUME NEW w \in SagaWorker, NEW t \in SagaTopic, NEW p \in Partition, SagaRead(w, t, p)
      PROVE  OneTurn' /\ TurnFits'
  <2>1. GoesOn
    BY <1>3, SagaReadTurns DEF GoesOn
  <2> QED
    BY <1>0, <1>3, <2>1, OneGoesOn DEF SagaRead
<1>4. ASSUME NEW h \in Handler, SagaConfirm(h) \/ SagaCancel(h), SagaConfirm(h) => h \in SagaWorker
      PROVE  OneTurn' /\ TurnFits'
  <2> DEFINE o == task[h].orderId
  <2>1. /\ Drops("order-service", h, 0)
        /\ h \in SagaWorker => Turn("order-service", h, 0, o, task[h].pc)
    BY <1>4, SagaEndTurns
  <2>2. /\ orders' = [orders EXCEPT ![o].status = IF SagaConfirm(h) THEN "confirmed" ELSE "cancelled"]
        /\ o \in Order
    BY <1>4, TaskFields DEF SagaConfirm, SagaCancel, TypeOK
  <2>3. /\ \A q \in Order \ {o} : orders'[q] = orders[q]
        /\ orders'[o].status = "confirmed" => h \in SagaWorker
    BY <1>4, <2>2 DEF TypeOK, OrderTypeOK
  <2>4. \A at, who, i, q, duty : Turn(at, who, i, q, duty)' =>
            Turn(at, who, i, q, duty) /\ (q = o => h \notin SagaWorker)
    BY <1>0, <2>1, OnlyTurn DEF Drops
  <2>5. OneTurn'
    BY <1>0, <2>4, OnlyTurn DEF OneTurn
  <2>6. TurnFits'
    BY <1>0, <2>3, <2>4, TurnIsOf DEF TurnFits
  <2> QED
    BY <2>5, <2>6
<1>5. ASSUME NEW h \in Handler, OrderPublish(h)
      PROVE  OneTurn' /\ TurnFits'
  <2>1. GoesOn
    BY <1>5, OrderPublishTurns DEF GoesOn
  <2> QED
    BY <1>0, <1>5, <2>1, OneGoesOn DEF OrderPublish
<1>6. ASSUME NEW h \in Handler, SagaError(h) \/ OrderStop(h)
      PROVE  OneTurn' /\ TurnFits'
  <2>1. GoesOn
    BY <1>6, OrderFaultTurns DEF GoesOn
  <2> QED
    BY <1>0, <1>6, <2>1, OneGoesOn DEF SagaError, OrderStop
<1>7. ASSUME NEW h \in Handler, SagaConfirm(h), h \in SagaWorker
      PROVE  OneTurn' /\ TurnFits'
  BY <1>4, <1>7
<1>8. ASSUME NEW h \in Handler, SagaCancel(h)
      PROVE  OneTurn' /\ TurnFits'
  BY <1>4, <1>8 DEF SagaConfirm, SagaCancel
<1> QED
  BY <1>1, <1>2, <1>3, <1>5, <1>6, <1>7, <1>8
  DEF OrderNext, SagaWorkerStep, RequestStep, Handler

LEMMA InventoryOneSaga ==
    ASSUME TurnInv, NoRepeat, NoRepeat', InventoryNext, UNCHANGED <<orderVars, paymentVars>>
    PROVE  OneTurn' /\ TurnFits'
<1> USE DEF TurnInv
<1>0. OneTurn /\ TurnFits /\ UNCHANGED <<orders, charges>>
  BY DEF OneSaga, orderVars, paymentVars
<1>1. PICK w \in InvWorker : InvWorkerStep(w) \/ InvFaultStep(w)
  BY DEF InventoryNext
<1>2. CASE InvReserve(w) \/ InvRefuse(w) \/ InvReserveError(w)
  <2> DEFINE o == inv[w].event.orderId
             duty == IF InvReserve(w) THEN "charge" ELSE "cancel"
  <2>1. /\ Turn("inventory-service", w, 0, o, "reserve")
        /\ Passes("inventory-service", w, 0, "inventory-service", w, 0, o, duty)
    BY <1>2, InvReserveTurns
  <2>2. o \in Order /\ charges[o] = <<>>
    BY <1>0, <2>1, TurnIsOf DEF TurnFits
  <2>3. duty # "confirm"
    OBVIOUS
  <2> HIDE DEF o, duty
  <2> QED
    BY <1>0, <2>1, <2>2, <2>3, OnePasses
<1>3. CASE \/ \E p \in Partition : InvRead(w, p)
           \/ InvRelease(w) \/ InvPublish(w) \/ InvReleaseError(w) \/ InvStop(w)
  <2>1. GoesOn
    BY <1>3, InvReadTurns, InvReleaseTurns, InvPublishTurns, InvFaultTurns DEF GoesOn
  <2> QED
    BY <1>0, <2>1, OneGoesOn
<1> QED
  BY <1>1, <1>2, <1>3 DEF InvWorkerStep, InvFaultStep

LEMMA PaymentOneSaga ==
    ASSUME TurnInv, NoRepeat, NoRepeat', PaymentNext, UNCHANGED <<orderVars, inventoryVars>>
    PROVE  OneTurn' /\ TurnFits' /\ NoDoubleCharge'
<1> USE DEF TurnInv
<1>0. OneTurn /\ TurnFits /\ NoDoubleCharge /\ UNCHANGED orders
  BY DEF OneSaga, orderVars
<1>1. PICK w \in PayWorker : PayWorkerStep(w) \/ PayInsertError(w) \/ PayStop(w)
  BY DEF PaymentNext
<1>2. CASE PayCharge(w)
  <2> DEFINE e == pay[w].event
             o == e.orderId
             duty == IF e.total <= DeclineOver THEN "confirm" ELSE "cancel"
  <2>1. /\ Turn("payment-service", w, 0, o, "charge")
        /\ Passes("payment-service", w, 0, "payment-service", w, 0, o, duty)
    BY <1>2, PayChargeTurns
  <2>2. o \in Order /\ charges[o] = <<>>
    BY <1>0, <2>1, TurnIsOf DEF TurnFits
  <2>3. /\ \A q \in Order \ {o} : charges'[q] = charges[q]
        /\ charges'[o] = IF e.total <= DeclineOver THEN Append(<<>>, e.total) ELSE <<>>
    BY <1>2, <2>2 DEF PayCharge, TypeOK, PaymentTypeOK
  <2>4. e.total \in Nat
    BY <1>2, PayFields DEF PayCharge, Event
  <2>5. Append(<<>>, e.total) # <<>> /\ Len(Append(<<>>, e.total)) = 1 /\ Len(<<>>) = 0
    BY <2>4
  <2>6. duty = "confirm" <=> charges'[o] # <<>>
    BY <2>3, <2>5
  <2>7. NoDoubleCharge'
    <3>1. Len(charges'[o]) <= 1
      BY <2>3, <2>5
    <3>2. \A q \in Order \ {o} : Len(charges'[q]) <= 1
      BY <1>0, <2>3 DEF NoDoubleCharge
    <3> HIDE DEF o
    <3> QED
      BY <3>1, <3>2 DEF NoDoubleCharge
  <2> HIDE DEF e, o, duty
  <2> QED
    BY <1>0, <2>1, <2>2, <2>3, <2>6, <2>7, OnePasses
<1>3. CASE \/ \E p \in Partition : PayRead(w, p)
           \/ PayInsert(w) \/ PayRecord(w) \/ PayPublish(w) \/ PayInsertError(w) \/ PayStop(w)
  <2>1. GoesOn
    BY <1>3, PayReadTurns, PayRowTurns, PayPublishTurns, PayFaultTurns DEF GoesOn
  <2>2. UNCHANGED charges
    BY <1>3 DEF PayRead, PayInsert, PayRecord, PayPublish, PayInsertError, PayStop
  <2> QED
    BY <1>0, <2>1, <2>2, OneGoesOn DEF NoDoubleCharge
<1> QED
  BY <1>1, <1>2, <1>3 DEF PayWorkerStep

(* What has not happened after a step had not happened before it. *)
LEMMA FaultsGrow ==
    ASSUME TypeOK, [Next]_vars
    PROVE  faults' = faults \/ faults' = faults + 1
<1> USE DEF busVars, Fault
<1>1. CASE OrderNext
  BY <1>1
  DEF OrderNext, SagaWorkerStep, RequestStep, CreateOrder, CancelOrder, SagaRead, SagaConfirm,
      SagaCancel, OrderPublish, SagaError, OrderStop
<1>2. CASE InventoryNext
  BY <1>2
  DEF InventoryNext, InvWorkerStep, InvFaultStep, InvRead, InvReserve, InvRefuse, InvReserveError,
      InvRelease, InvReleaseError, InvPublish, InvStop
<1>3. CASE PaymentNext
  BY <1>3
  DEF PaymentNext, PayWorkerStep, PayRead, PayInsert, PayInsertError, PayCharge, PayRecord,
      PayPublish, PayStop
<1> QED
  BY <1>1, <1>2, <1>3 DEF Next, Waiting, vars

LEMMA TurnInvInit == Init => TurnInv
<1> SUFFICES ASSUME Init PROVE TurnInv
  OBVIOUS
<1>1. TypeOK /\ Provenance
  BY TypeInit, ProvenanceInit
<1>2. Outcomes
  BY DEF Init, InventoryInit, PaymentInit, Outcomes, Idle
<1>3. Offsets
  BY DEF Init, BusInit, OrderInit, InventoryInit, PaymentInit, Offsets, SagaTopic, Topic
<1>4. \A at, who, i, o, duty : ~ Turn(at, who, i, o, duty)
  BY DEF Init, BusInit, OrderInit, InventoryInit, PaymentInit, Idle,
         Turn, OrderTurn, InvTurn, PayTurn, EventTurn
<1>5. NoDoubleCharge
  BY DEF Init, PaymentInit, NoDoubleCharge
<1> QED
  BY <1>1, <1>2, <1>3, <1>4, <1>5 DEF TurnInv, OneSaga, OneTurn, TurnFits

LEMMA TurnInvStep == TurnInv /\ [Next]_vars => TurnInv'
<1> SUFFICES ASSUME TurnInv, [Next]_vars PROVE TurnInv'
  OBVIOUS
<1>1. TypeOK' /\ Provenance'
  BY TypeStep, ProvenanceStep DEF TurnInv
<1>2. Outcomes' /\ Offsets'
  BY <1>1, OutcomesStep, OffsetsStep DEF TurnInv
<1>3. ASSUME NoRepeat'
      PROVE  OneTurn' /\ TurnFits' /\ NoDoubleCharge'
  <2>1. NoRepeat
    BY <1>3, FaultsGrow DEF NoRepeat, TurnInv, TypeOK, BusTypeOK
  <2>2. OneTurn /\ TurnFits /\ NoDoubleCharge
    BY <2>1 DEF TurnInv, OneSaga
  <2>3. CASE OrderNext /\ UNCHANGED <<inventoryVars, paymentVars>>
    BY <1>3, <2>1, <2>2, <2>3, OrderOneSaga DEF paymentVars, NoDoubleCharge
  <2>4. CASE InventoryNext /\ UNCHANGED <<orderVars, paymentVars>>
    BY <1>3, <2>1, <2>2, <2>4, InventoryOneSaga DEF paymentVars, NoDoubleCharge
  <2>5. CASE PaymentNext /\ UNCHANGED <<orderVars, inventoryVars>>
    BY <1>3, <2>1, <2>5, PaymentOneSaga
  <2>6. CASE UNCHANGED vars
    <3>1. Keeps
      BY <2>6 DEF Keeps, Turn, OrderTurn, InvTurn, PayTurn, EventTurn, Ahead,
                  vars, busVars, orderVars, inventoryVars, paymentVars
    <3> QED
      BY <2>2, <2>6, <3>1, OneGoesOn
      DEF GoesOn, TurnInv, NoDoubleCharge, vars, orderVars, paymentVars
  <2> QED
    BY <2>3, <2>4, <2>5, <2>6 DEF Next, Waiting
<1> QED
  BY <1>1, <1>2, <1>3 DEF TurnInv, OneSaga

LEMMA AlwaysTurnInv == Spec => []TurnInv
BY TurnInvInit, TurnInvStep, PTL DEF Spec

-----------------------------------------------------------------------------
(* If no write is ever repeated no order is charged twice, although        *)
(* neither the insert nor the gateway call looks for an earlier charge,    *)
(* and whatever stops or fails (payment-service handler.go:31-69).         *)
THEOREM NobodyChargedTwice ==
    ASSUME "duplicate" \notin FaultKind
    PROVE  Spec => []NoDoubleCharge
<1>1. TurnInv => NoDoubleCharge
  BY DEF TurnInv, OneSaga, NoRepeat
<1> QED
  BY <1>1, AlwaysTurnInv, PTL

(* Nor does a consumer of order-service ever cancel a confirmed order: the *)
(* unconditional UpdateStatus of Saga.Cancel (saga.go:55-63) meets one     *)
(* only in a customer's request.                                           *)
THEOREM ConsumersKeepConfirmed ==
    ASSUME "duplicate" \notin FaultKind
    PROVE  Spec => ConfirmedUndoneOnlyByCustomer
<1>1. ASSUME TurnInv, [Next]_vars, NEW o \in Order,
             orders[o].status = "confirmed", orders'[o].status = "cancelled"
      PROVE  \E r \in Request : task[r] = [pc |-> "cancel", orderId |-> o] /\ task'[r].pc = "publish"
  <2>0. TypeOK /\ TurnFits
    BY <1>1 DEF TurnInv, OneSaga, NoRepeat
  <2>1. PICK h \in Handler : SagaConfirm(h) \/ SagaCancel(h)
    BY <1>1, <2>0
    DEF Next, Waiting, vars, orderVars, OrderNext, SagaWorkerStep, RequestStep, CreateOrder,
        CancelOrder, SagaRead, OrderPublish, SagaError, OrderStop, NewOrder,
        Handler, TypeOK, OrderTypeOK
  <2>2. task[h].orderId = o /\ task[h].pc = "cancel"
    BY <1>1, <2>0, <2>1 DEF SagaConfirm, SagaCancel, TypeOK, OrderTypeOK
  <2>3. task[h] = [pc |-> "cancel", orderId |-> o]
    BY <2>0, <2>2 DEF TypeOK, OrderTypeOK, OrderTask, Idle
  <2>4. h \notin SagaWorker
    BY <1>1, <2>0, <2>2, TurnIsOf DEF Turn, OrderTurn, Duty, TurnFits
  <2>5. task'[h].pc = "publish"
    <3>1. SagaCancel(h)
      BY <2>1, <2>2 DEF SagaConfirm
    <3> QED
      BY <2>0, <3>1 DEF SagaCancel, TypeOK, OrderTypeOK
  <2> QED
    BY <2>3, <2>4, <2>5 DEF Handler
<1>2. TurnInv /\ [Next]_vars =>
        [\A o \in Order :
          (orders[o].status = "confirmed" /\ orders'[o].status = "cancelled")
             => \E r \in Request : /\ task[r] = [pc |-> "cancel", orderId |-> o]
                                  /\ task'[r].pc = "publish"]_vars
  BY <1>1
<1> QED
  BY <1>2, AlwaysTurnInv, PTL DEF Spec, ConfirmedUndoneOnlyByCustomer
=============================================================================
