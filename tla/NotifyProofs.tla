----------------------------- MODULE NotifyProofs -----------------------------
(***************************************************************************)
(* That notification-service tells the truth, for every instance of        *)
(* PulseNotify and whatever fails: what it says of an order is so, it says *)
(* it at most once for each event, and, if nothing failed, in order and    *)
(* in full.                                                                *)
(*                                                                         *)
(* notification-service never looks at the other services' tables.  What   *)
(* it says is right because what it reads is: an event is true when it is  *)
(* written and stays true while the reader lags behind.                    *)
(***************************************************************************)
EXTENDS TablesProofs, LifecycleProofs, PulseNotify, FunctionTheorems

-----------------------------------------------------------------------------
(* What is so for the saga goes on being so.                               *)

SagaInv == TypeOK /\ Provenance /\ Outcomes /\ BegunInv

(* A step of notification-service may count a fault, and nothing else. *)
LEMMA NoteStepsAside ==
    ASSUME TypeOK, NotificationNext
    PROVE  UNCHANGED log /\ BusTypeOK' /\ (faults' = faults \/ faults' = faults + 1)
<1>1. PICK n \in Notifier : NotifierStep(n) \/ NoteStop(n)
  BY DEF NotificationNext
<1>2. CASE NotifierStep(n)
  BY <1>2
  DEF NotifierStep, NoteRead, NoteEmail, NoteSMS, NoteRecord, busVars, TypeOK, BusTypeOK
<1>3. CASE NoteStop(n)
  <2>1. \E k \in {"stop", "dberror"} : Fault(k)
    BY <1>3 DEF NoteStop
  <2>2. faults' \in 0..MaxFaults
    BY <2>1, FaultIsTyped DEF TypeOK
  <2> QED
    BY <1>3, <2>1, <2>2 DEF NoteStop, Fault, TypeOK, BusTypeOK
<1> QED
  BY <1>1, <1>2, <1>3

LEMMA SagaInvAside ==
    ASSUME SagaInv, NotificationNext, UNCHANGED <<orderVars, inventoryVars, paymentVars>>
    PROVE  SagaInv'
<1> USE DEF SagaInv
<1>1. /\ UNCHANGED <<log, orders, acknowledged, task, ordOffset>>
      /\ UNCHANGED <<reserved, reservations, inv, invOffset>>
      /\ UNCHANGED <<payments, charges, pay, payOffset>>
  BY NoteStepsAside DEF orderVars, inventoryVars, paymentVars
<1>2. TypeOK'
  BY <1>1, NoteStepsAside
  DEF TypeOK, OrderTypeOK, InventoryTypeOK, LedgerTypeOK, PaymentTypeOK
<1>3. Provenance' /\ Outcomes'
  BY <1>1, <1>2, ProvenanceKept DEF Outcomes
<1>4. LogFollows'
  BY <1>1, LogKeepsFollowing DEF BegunInv
<1>5. Underway' = Underway
  BY <1>1 DEF Underway, CreatedAt
<1>6. BegunInv'
  BY <1>1, <1>4, <1>5 DEF BegunInv, AnswersBegun, TaskBegun, InvBegun, PayBegun, Begun
<1> QED
  BY <1>2, <1>3, <1>6

LEMMA SagaInvStep == SagaInv /\ [NotifyNext]_allVars => SagaInv'
<1>1. SagaInv /\ [Next]_vars => SagaInv'
  BY TypeStep, ProvenanceStep, OutcomesStep, BegunStep DEF SagaInv
<1> QED
  BY <1>1, SagaInvAside DEF NotifyNext, allVars

LEMMA SagaInvInit == Init => SagaInv
BY TurnInvInit, BegunInit DEF SagaInv, TurnInv

-----------------------------------------------------------------------------
(* Type correctness. *)

LEMMA NoteTask ==
    ASSUME NotificationTypeOK, NEW n \in Notifier, notify[n].pc # "idle"
    PROVE  /\ notify[n].event \in Event
           /\ notify[n].event.orderId \in Order
           /\ notify[n].event.type \in EventType
           /\ notify[n].pc \in {"email", "sms", "record"}
           /\ notify[n] = [pc |-> notify[n].pc, event |-> notify[n].event]
<1>1. notify[n] \in NotifyTask
  BY DEF NotificationTypeOK
<1> QED
  BY <1>1 DEF NotifyTask, Idle, Event

LEMMA NoteTypeStep ==
    ASSUME TypeOK, NotificationTypeOK, NotificationNext
    PROVE  NotificationTypeOK'
<1>1. PICK n \in Notifier : NotifierStep(n) \/ NoteStop(n)
  BY DEF NotificationNext
<1>2. ASSUME NEW t \in Topic, NEW p \in Partition, NoteRead(n, t, p)
      PROVE  NotificationTypeOK'
  <2>1. noteOffset[t][p] \in Nat
    BY DEF NotificationTypeOK
  <2>2. NextEvent(noteOffset[t][p], t, p) \in Event
    BY <1>2, <2>1, NextEventIsTyped DEF NoteRead, TypeOK
  <2>3. NoteHandle(NextEvent(noteOffset[t][p], t, p)) \in NotifyTask
    BY <2>2 DEF NoteHandle, NotifyTask
  <2>4. noteOffset' \in [Topic -> [Partition -> Nat]]
    BY <1>2, <2>1 DEF NoteRead, NotificationTypeOK
  <2> QED
    BY <1>2, <2>3, <2>4 DEF NoteRead, NotificationTypeOK
<1>3. ASSUME NEW channel \in {"email", "sms"}, notify[n].pc # "idle",
             Send(notify[n].event, channel)
      PROVE  told' \in [Order -> Seq(Notice)]
  <2>1. PICK o, notice : o = notify[n].event.orderId /\ notice = NewNotice(notify[n].event, channel)
    OBVIOUS
  <2>2. o \in Order /\ notice \in Notice
    BY <1>3, <2>1, NoteTask DEF NewNotice, Notice, Event
  <2>3. Append(told[o], notice) \in Seq(Notice)
    BY <2>2, AppendProperties DEF NotificationTypeOK
  <2> QED
    BY <1>3, <2>1, <2>2, <2>3 DEF Send, NotificationTypeOK
<1>4. ASSUME notify[n].pc # "idle", NEW pc \in {"email", "sms", "record"},
             notify' = [notify EXCEPT ![n].pc = pc]
      PROVE  notify' \in [Notifier -> NotifyTask]
  <2>1. [notify[n] EXCEPT !.pc = pc] = [pc |-> pc, event |-> notify[n].event]
    <3>1. PICK old, e : notify[n] = [pc |-> old, event |-> e]
      BY <1>4, NoteTask
    <3> QED
      BY <3>1
  <2>2. [notify[n] EXCEPT !.pc = pc] \in NotifyTask
    BY <1>4, <2>1, NoteTask DEF NotifyTask
  <2> QED
    BY <1>4, <2>2 DEF NotificationTypeOK
<1>5. CASE NoteEmail(n)
  BY <1>3, <1>4, <1>5 DEF NoteEmail, NotificationTypeOK
<1>6. CASE NoteSMS(n)
  BY <1>3, <1>4, <1>6 DEF NoteSMS, NotificationTypeOK
<1>7. CASE NoteRecord(n)
  <2>1. PICK o, notice : /\ o = notify[n].event.orderId
                         /\ notice = NewNotice(notify[n].event, "email")
    OBVIOUS
  <2>2. o \in Order /\ notice \in Notice
    BY <1>7, <2>1, NoteTask DEF NoteRecord, NewNotice, Notice, Event
  <2>3. Append(notices[o], notice) \in Seq(Notice)
    BY <2>2, AppendProperties DEF NotificationTypeOK
  <2> QED
    BY <1>7, <2>1, <2>2, <2>3 DEF NoteRecord, NotificationTypeOK, NotifyTask
<1>8. CASE NoteStop(n)
  BY <1>8 DEF NoteStop, NotificationTypeOK, NotifyTask
<1> QED
  BY <1>1, <1>2, <1>5, <1>6, <1>7, <1>8 DEF NotifierStep

(* A worker goes on with the event it has. *)
LEMMA NoteMovesOn ==
    ASSUME NotificationTypeOK, NEW n \in Notifier, notify[n].pc # "idle",
           NEW pc, notify' = [notify EXCEPT ![n].pc = pc]
    PROVE  /\ notify'[n].pc = pc
           /\ notify'[n].event = notify[n].event
           /\ \A m \in Notifier \ {n} : notify'[m] = notify[m]
<1>1. notify \in [Notifier -> NotifyTask]
  BY DEF NotificationTypeOK
<1>2. PICK old, e : notify[n] = [pc |-> old, event |-> e]
  BY NoteTask
<1>3. notify'[n] = [pc |-> pc, event |-> e]
  BY <1>1, <1>2
<1> QED
  BY <1>1, <1>2, <1>3

(* Telling adds one message, and changes none. *)
LEMMA SendAdds ==
    ASSUME NotificationTypeOK, NEW n \in Notifier, notify[n].pc # "idle",
           NEW channel \in {"email", "sms"}, Send(notify[n].event, channel), NEW o \in Order
    PROVE  LET k == Len(told[o]) + 1
               new == o = notify[n].event.orderId
           IN  /\ DOMAIN told'[o] = DOMAIN told[o] \cup (IF new THEN {k} ELSE {})
               /\ DOMAIN told[o] = 1..(k - 1) /\ k \in Nat \ {0}
               /\ new => told'[o][k] = NewNotice(notify[n].event, channel)
               /\ \A i \in DOMAIN told[o] : told'[o][i] = told[o][i]
<1>1. PICK e, notice : e = notify[n].event /\ notice = NewNotice(e, channel)
  OBVIOUS
<1>2. e.orderId \in Order /\ notice \in Notice
  BY <1>1, NoteTask DEF NewNotice, Notice, Event
<1>3. told[o] \in Seq(Notice)
  BY DEF NotificationTypeOK
<1>4. told' = [told EXCEPT ![e.orderId] = Append(told[e.orderId], notice)]
  BY <1>1, <1>2 DEF Send, NotificationTypeOK
<1>5. told'[o] = IF o = e.orderId THEN Append(told[o], notice) ELSE told[o]
  BY <1>2, <1>4 DEF NotificationTypeOK
<1> QED
  BY <1>1, <1>2, <1>3, <1>5, AppendProperties, LenProperties

NoteTyped == SagaInv /\ NotificationTypeOK

LEMMA NoteTypedInit == NotifyInit => NoteTyped
<1> SUFFICES ASSUME NotifyInit PROVE NoteTyped
  OBVIOUS
<1>1. NotificationTypeOK
  BY DEF NotifyInit, NotificationInit, NotificationTypeOK, NotifyTask
<1> QED
  BY <1>1, SagaInvInit DEF NotifyInit, NoteTyped

LEMMA NoteTypedStep == NoteTyped /\ [NotifyNext]_allVars => NoteTyped'
<1>1. NotificationTypeOK /\ UNCHANGED noteVars => NotificationTypeOK'
  BY DEF noteVars, NotificationTypeOK
<1> QED
  BY <1>1, SagaInvStep, NoteTypeStep DEF NoteTyped, SagaInv, NotifyNext, allVars

LEMMA AlwaysNoteTyped == NotifySpec => []NoteTyped
BY NoteTypedInit, NoteTypedStep, PTL DEF NotifySpec

(* Every variable of notification-service keeps its type, and so do those  *)
(* of the saga it reads along with.                                        *)
THEOREM NotificationTypeCorrect == NotifySpec => []NotificationTypeOK
<1>1. NoteTyped => NotificationTypeOK
  BY DEF NoteTyped
<1> QED
  BY <1>1, AlwaysNoteTyped, PTL

-----------------------------------------------------------------------------
(* What it says is so.                                                     *)

(* What the outcomes that customers hear of assert, beyond Vouched. *)
Sound(e) ==
    /\ e.type = "order.confirmed" => charges[e.orderId] # <<>>
    /\ e.type \in {"payment.confirmed", "order.confirmed"} => e.total = orders[e.orderId].total

SoundInv ==
    /\ \A t \in Topic, p \in Partition : \A i \in DOMAIN log[t][p] : Sound(log[t][p][i])
    /\ \A h \in Handler : task[h].pc = "publish" => Sound(task[h].event)
    /\ \A w \in PayWorker : pay[w].pc = "publish" => Sound(pay[w].event)

(* An event that was true stays so. *)
LEMMA SoundStays ==
    ASSUME Grows, NEW e \in Event, Vouched(e), Sound(e)
    PROVE  Sound(e)'
<1>1. e.orderId \in Order /\ orders[e.orderId].status # "none"
  BY DEF Event, Vouched
<1> QED
  BY <1>1 DEF Grows, Sound

LEMMA SoundPublish ==
    ASSUME TypeOK, Provenance, SoundInv, Grows, NEW t \in Topic, NEW e \in Event,
           Publish(t, e), Vouched(e), Sound(e)
    PROVE  \A s \in Topic, p \in Partition : \A i \in DOMAIN log'[s][p] : Sound(log[s][p][i])'
<1> SUFFICES ASSUME NEW s \in Topic, NEW p \in Partition, NEW i \in DOMAIN log'[s][p]
             PROVE  Sound(log[s][p][i])'
  OBVIOUS
<1>1. PICK f : f = log'[s][p][i]
  OBVIOUS
<1>2. f = e \/ (i \in DOMAIN log[s][p] /\ f = log[s][p][i])
  BY <1>1, PublishAdds
<1>3. f \in Event /\ Vouched(f) /\ Sound(f)
  BY <1>2, LogFacts DEF Provenance, LogVouched, SoundInv
<1>4. Sound(f)'
  BY <1>3, SoundStays
<1> QED
  BY <1>1, <1>4 DEF Sound

LEMMA SoundLogStays ==
    ASSUME TypeOK, Provenance, SoundInv, Grows, UNCHANGED log
    PROVE  \A s \in Topic, p \in Partition : \A i \in DOMAIN log'[s][p] : Sound(log[s][p][i])'
<1> SUFFICES ASSUME NEW s \in Topic, NEW p \in Partition, NEW i \in DOMAIN log[s][p]
             PROVE  Sound(log[s][p][i])'
  OBVIOUS
<1>1. PICK f : f = log[s][p][i]
  OBVIOUS
<1>2. Sound(f)'
  BY <1>1, LogFacts, SoundStays DEF Provenance, LogVouched, SoundInv
<1> QED
  BY <1>1, <1>2 DEF Sound

(* What handlers are still to publish stays true as well. *)
LEMMA SoundHands ==
    ASSUME TypeOK, Provenance, Outcomes, SoundInv, Grows
    PROVE  /\ \A h \in Handler : task[h].pc = "publish" /\ task'[h] = task[h] => Sound(task[h].event)'
           /\ \A w \in PayWorker : pay[w].pc = "publish" /\ pay'[w] = pay[w] => Sound(pay[w].event)'
<1>1. ASSUME NEW h \in Handler, task[h].pc = "publish", task'[h] = task[h]
      PROVE  Sound(task[h].event)'
  <2>1. PICK e : e = task[h].event
    OBVIOUS
  <2>2. Sound(e)'
    BY <1>1, <2>1, TaskFields, SoundStays DEF Provenance, TaskVouched, SoundInv, TypeOK
  <2> QED
    BY <1>1, <2>1, <2>2 DEF Sound
<1>2. ASSUME NEW w \in PayWorker, pay[w].pc = "publish", pay'[w] = pay[w]
      PROVE  Sound(pay[w].event)'
  <2>1. PICK e : e = pay[w].event
    OBVIOUS
  <2>2. Sound(e)'
    BY <1>2, <2>1, PayFields, SoundStays DEF Provenance, PayVouched, SoundInv
  <2> QED
    BY <1>2, <2>1, <2>2 DEF Sound
<1> QED
  BY <1>1, <1>2

LEMMA OrderSound ==
    ASSUME SagaInv, SoundInv, Grows, OrderNext, UNCHANGED <<inventoryVars, paymentVars>>
    PROVE  SoundInv'
<1> USE DEF SagaInv
<1>0. task \in [Handler -> OrderTask] /\ UNCHANGED <<pay, charges>>
  BY DEF TypeOK, OrderTypeOK, paymentVars
<1>1. ASSUME NEW h \in Handler, \A g \in Handler \ {h} : task'[g] = task[g],
             task'[h].pc = "publish" => Sound(task[h].event)'
      PROVE  /\ \A g \in Handler : task'[g].pc = "publish" => Sound(task[g].event)'
             /\ \A w \in PayWorker : pay'[w].pc = "publish" => Sound(pay[w].event)'
  BY <1>0, <1>1, SoundHands
<1>2. ASSUME NEW r \in Request, NEW o \in Order, NEW items \in Cart, CreateOrder(r, o, items)
      PROVE  SoundInv'
  <2>1. r \in Handler /\ UNCHANGED log /\ \A g \in Handler \ {r} : task'[g] = task[g]
    BY <1>0, <1>2 DEF CreateOrder, busVars, Handler
  <2>2. task'[r].event.type = "order.created"
    BY <1>0, <1>2, <2>1 DEF CreateOrder, MakeEvent
  <2> QED
    BY <1>1, <2>1, <2>2, SoundLogStays DEF SoundInv, Sound
<1>3. ASSUME NEW r \in Request, NEW o \in Order, CancelOrder(r, o)
      PROVE  SoundInv'
  <2>1. r \in Handler /\ UNCHANGED log /\ \A g \in Handler \ {r} : task'[g] = task[g]
    BY <1>0, <1>3 DEF CancelOrder, busVars, Handler
  <2>2. task'[r].pc = "cancel"
    BY <1>0, <1>3, <2>1 DEF CancelOrder
  <2> QED
    BY <1>1, <2>1, <2>2, SoundLogStays DEF SoundInv
<1>4. ASSUME NEW w \in SagaWorker, NEW t \in SagaTopic, NEW p \in Partition, SagaRead(w, t, p)
      PROVE  SoundInv'
  <2>1. w \in Handler /\ UNCHANGED log /\ \A g \in Handler \ {w} : task'[g] = task[g]
    BY <1>0, <1>4 DEF SagaRead, busVars, Handler
  <2>2. task'[w].pc # "publish"
    BY <1>0, <1>4, <2>1 DEF SagaRead, Handle, Idle
  <2> QED
    BY <1>1, <2>1, <2>2, SoundLogStays DEF SoundInv
<1>5. ASSUME NEW h \in Handler, SagaConfirm(h) \/ SagaCancel(h)
      PROVE  SoundInv'
  <2>1. PICK o : o = task[h].orderId
    OBVIOUS
  <2>2. /\ o \in Order
        /\ task[h].pc = "confirm" => charges[o] # <<>>
        /\ orders[o].status # "none"
    BY <1>5, <2>1, TaskFields DEF SagaConfirm, SagaCancel, Provenance, TaskVouched, TypeOK
  <2>3. UNCHANGED log /\ \A g \in Handler \ {h} : task'[g] = task[g]
    BY <1>0, <1>5 DEF SagaConfirm, SagaCancel, busVars
  <2>4. orders'[o].total = orders[o].total
    BY <2>2 DEF Grows
  <2>5. Sound(task[h].event)'
    <3>1. CASE SagaConfirm(h)
      <4>1. task'[h].event = MakeEvent("order.confirmed", o, <<>>, orders[o].total)
        BY <1>0, <2>1, <3>1 DEF SagaConfirm
      <4>2. task[h].pc = "confirm"
        BY <3>1 DEF SagaConfirm
      <4> QED
        BY <1>0, <2>2, <2>4, <4>1, <4>2 DEF Sound, MakeEvent
    <3>2. CASE SagaCancel(h)
      <4>1. task'[h].event = MakeEvent("order.cancelled", o, <<>>, 0)
        BY <1>0, <2>1, <3>2 DEF SagaCancel
      <4> QED
        BY <4>1 DEF Sound, MakeEvent
    <3> QED
      BY <1>5, <3>1, <3>2
  <2> QED
    BY <1>1, <2>3, <2>5, SoundLogStays DEF SoundInv
<1>6. ASSUME NEW h \in Handler, OrderPublish(h)
      PROVE  SoundInv'
  <2>1. PICK e : e = task[h].event
    OBVIOUS
  <2>2. e \in Event /\ Vouched(e) /\ Sound(e) /\ Publish("order.events", e)
    BY <1>6, <2>1, TaskFields DEF OrderPublish, Provenance, TaskVouched, SoundInv, TypeOK
  <2>3. task'[h] \in {Idle, task[h]} /\ \A g \in Handler \ {h} : task'[g] = task[g]
    BY <1>0, <1>6 DEF OrderPublish
  <2>4. task'[h].pc = "publish" => Sound(task[h].event)'
    <3>1. CASE task'[h] = Idle
      BY <3>1 DEF Idle
    <3> QED
      BY <1>6, <2>3, <3>1, SoundHands DEF OrderPublish
  <2>5. \A s \in Topic, p \in Partition : \A i \in DOMAIN log'[s][p] : Sound(log[s][p][i])'
    BY <2>2, SoundPublish DEF Topic
  <2> QED
    BY <1>1, <2>3, <2>4, <2>5 DEF SoundInv
<1>7. ASSUME NEW h \in Handler, SagaError(h) \/ OrderStop(h)
      PROVE  SoundInv'
  <2>1. task'[h] = Idle /\ UNCHANGED log /\ \A g \in Handler \ {h} : task'[g] = task[g]
    BY <1>0, <1>7 DEF SagaError, OrderStop
  <2>2. task'[h].pc # "publish"
    BY <2>1 DEF Idle
  <2> QED
    BY <1>1, <2>1, <2>2, SoundLogStays DEF SoundInv
<1> QED
  BY <1>2, <1>3, <1>4, <1>5, <1>6, <1>7 DEF OrderNext, SagaWorkerStep, RequestStep, Handler

LEMMA InventorySound ==
    ASSUME SagaInv, SoundInv, Grows, InventoryNext, UNCHANGED <<orderVars, paymentVars>>
    PROVE  SoundInv'
<1> USE DEF SagaInv
<1>1. UNCHANGED <<task, pay>>
  BY DEF orderVars, paymentVars
<1>2. ASSUME NEW w \in InvWorker, InvPublish(w)
      PROVE  \A s \in Topic, p \in Partition : \A i \in DOMAIN log'[s][p] : Sound(log[s][p][i])'
  <2>1. PICK e : e = inv[w].event
    OBVIOUS
  <2>2. /\ e \in Event /\ Vouched(e) /\ Publish("inventory.events", e)
        /\ e.type \in {"inventory.reserved", "inventory.failed", "inventory.released"}
    BY <1>2, <2>1, InvFields DEF InvPublish, Provenance, InvVouched, Outcomes
  <2>3. Sound(e)
    BY <2>2 DEF Sound
  <2> QED
    BY <2>2, <2>3, SoundPublish DEF Topic
<1>3. \A s \in Topic, p \in Partition : \A i \in DOMAIN log'[s][p] : Sound(log[s][p][i])'
  <2>1. UNCHANGED log \/ \E w \in InvWorker : InvPublish(w)
    BY DEF InventoryNext, InvWorkerStep, InvFaultStep, InvRead, InvReserve, InvRefuse,
           InvReserveError, InvRelease, InvReleaseError, InvStop, busVars
  <2> QED
    BY <1>2, <2>1, SoundLogStays
<1> QED
  BY <1>1, <1>3, SoundHands DEF SoundInv

LEMMA PaymentSound ==
    ASSUME SagaInv, SoundInv, Grows, PaymentNext, UNCHANGED <<orderVars, inventoryVars>>
    PROVE  SoundInv'
<1> USE DEF SagaInv
<1>0. pay \in [PayWorker -> PaymentTask] /\ UNCHANGED <<task, orders>>
  BY DEF TypeOK, PaymentTypeOK, orderVars
<1>1. ASSUME NEW w \in PayWorker, \A v \in PayWorker \ {w} : pay'[v] = pay[v],
             pay'[w].pc = "publish" => Sound(pay[w].event)'
      PROVE  /\ \A h \in Handler : task'[h].pc = "publish" => Sound(task[h].event)'
             /\ \A v \in PayWorker : pay'[v].pc = "publish" => Sound(pay[v].event)'
  BY <1>0, <1>1, SoundHands
<1>2. PICK w \in PayWorker : PayWorkerStep(w) \/ PayInsertError(w) \/ PayStop(w)
  BY DEF PaymentNext
<1>3. \A v \in PayWorker \ {w} : pay'[v] = pay[v]
  BY <1>0, <1>2 DEF PayWorkerStep, PayRead, PayInsert, PayInsertError, PayCharge, PayRecord,
                    PayPublish, PayStop
<1>4. CASE (\E p \in Partition : PayRead(w, p)) \/ PayInsert(w) \/ PayCharge(w)
           \/ PayInsertError(w) \/ PayStop(w)
  <2>1. UNCHANGED log /\ pay'[w].pc # "publish"
    <3>1. ASSUME NEW p \in Partition, PayRead(w, p)
          PROVE  UNCHANGED log /\ pay'[w].pc # "publish"
      BY <1>0, <3>1 DEF PayRead, PayHandle, Idle, busVars
    <3>2. CASE PayInsert(w)
      BY <1>0, <3>2 DEF PayInsert, busVars
    <3>3. CASE PayCharge(w)
      BY <1>0, <3>3 DEF PayCharge, busVars
    <3>4. CASE PayInsertError(w) \/ PayStop(w)
      BY <1>0, <3>4 DEF PayInsertError, PayStop, Idle
    <3> QED
      BY <1>4, <3>1, <3>2, <3>3, <3>4
  <2> QED
    BY <1>1, <1>3, <2>1, SoundLogStays DEF SoundInv
<1>5. CASE PayRecord(w)
  <2>1. PICK e, status : e = pay[w].event /\ status = pay[w].status
    OBVIOUS
  <2>2. /\ e.orderId \in Order /\ e.total = orders[e.orderId].total
    BY <1>5, <2>1, PayFields DEF PayRecord, Provenance, PayVouched, Vouched, Event
  <2>3. UNCHANGED log /\ pay'[w].event = Outcome(e, status)
    BY <1>0, <1>5, <2>1 DEF PayRecord
  <2>4. Sound(pay[w].event)'
    BY <1>0, <2>2, <2>3 DEF Sound, Outcome, MakeEvent
  <2> QED
    BY <1>1, <1>3, <2>3, <2>4, SoundLogStays DEF SoundInv
<1>6. CASE PayPublish(w)
  <2>1. PICK e : e = pay[w].event
    OBVIOUS
  <2>2. e \in Event /\ Vouched(e) /\ Sound(e) /\ Publish("payment.events", e)
    BY <1>6, <2>1, PayFields DEF PayPublish, Provenance, PayVouched, SoundInv
  <2>3. pay'[w].pc = "publish" => Sound(pay[w].event)'
    <3>1. pay'[w] \in {Idle, pay[w]}
      BY <1>0, <1>6 DEF PayPublish
    <3>2. CASE pay'[w] = Idle
      BY <3>2 DEF Idle
    <3> QED
      BY <1>6, <3>1, <3>2, SoundHands DEF PayPublish
  <2>4. \A s \in Topic, p \in Partition : \A i \in DOMAIN log'[s][p] : Sound(log[s][p][i])'
    BY <2>2, SoundPublish DEF Topic
  <2> QED
    BY <1>1, <1>3, <2>3, <2>4 DEF SoundInv
<1> QED
  BY <1>2, <1>4, <1>5, <1>6 DEF PayWorkerStep

LEMMA SoundStep == SagaInv /\ SoundInv /\ [Next]_vars => SoundInv'
<1> SUFFICES ASSUME SagaInv, SoundInv, [Next]_vars PROVE SoundInv'
  OBVIOUS
<1>1. Grows
  BY TypeStep, StepsGrow DEF SagaInv
<1>2. CASE UNCHANGED vars
  BY <1>2 DEF SoundInv, Sound, vars, busVars, orderVars, paymentVars
<1> QED
  BY <1>1, <1>2, OrderSound, InventorySound, PaymentSound DEF Next, Waiting

LEMMA SoundAside == SoundInv /\ UNCHANGED <<log, task, pay, orders, charges>> => SoundInv'
BY DEF SoundInv, Sound

(* What a customer was told, and is about to be told. *)
Telling == \A n \in Notifier : notify[n].pc # "idle" => Vouched(notify[n].event) /\ Sound(notify[n].event)
TellInv == Telling /\ ToldIsSo

LEMMA TellStays ==
    ASSUME NoteTyped, SoundInv, TellInv, [Next]_vars, UNCHANGED noteVars
    PROVE  TellInv'
<1>0. TypeOK /\ TypeOK' /\ Grows /\ UNCHANGED <<notify, told>>
  BY TypeStep, StepsGrow DEF NoteTyped, SagaInv, noteVars
<1>1. ASSUME NEW n \in Notifier, notify[n].pc # "idle"
      PROVE  Vouched(notify[n].event)' /\ Sound(notify[n].event)'
  <2>1. PICK e : e = notify[n].event
    OBVIOUS
  <2>2. e \in Event /\ Vouched(e) /\ Sound(e)
    BY <1>1, <2>1, NoteTask DEF NoteTyped, TellInv, Telling
  <2>3. Vouched(e)' /\ Sound(e)'
    BY <1>0, <2>2, SoundStays, VouchedStays
  <2> QED
    BY <1>0, <2>1, <2>3 DEF Vouched, Sound
<1>2. ToldIsSo'
  BY <1>0 DEF TellInv, ToldIsSo, Grows
<1> QED
  BY <1>0, <1>1, <1>2 DEF TellInv, Telling

(* A message says no more than its event. *)
LEMMA NoticeIsSo ==
    ASSUME NEW e \in Event, Vouched(e), Sound(e), NEW channel, NEW notice,
           notice = NewNotice(e, channel)
    PROVE  /\ orders[e.orderId].status # "none"
           /\ notice.type \in {"payment.confirmed", "order.confirmed"} => charges[e.orderId] # <<>>
           /\ notice.type \in {"order.created", "payment.confirmed", "order.confirmed"} =>
                 notice.total = orders[e.orderId].total
BY DEF Vouched, Sound, NewNotice

LEMMA TellSend ==
    ASSUME NotificationTypeOK, TellInv, NEW n \in Notifier, notify[n].pc # "idle",
           NEW channel \in {"email", "sms"}, Send(notify[n].event, channel),
           UNCHANGED <<orders, charges>>
    PROVE  ToldIsSo'
<1>1. PICK e, notice : e = notify[n].event /\ notice = NewNotice(e, channel)
  OBVIOUS
<1>2. e \in Event /\ Vouched(e) /\ Sound(e)
  BY <1>1, NoteTask DEF TellInv, Telling
<1> SUFFICES ASSUME NEW o \in Order, NEW i \in DOMAIN told'[o]
             PROVE  LET new == told'[o][i] IN
                      /\ orders[o].status # "none"
                      /\ new.type \in {"payment.confirmed", "order.confirmed"} => charges[o] # <<>>
                      /\ new.type \in {"order.created", "payment.confirmed", "order.confirmed"} =>
                            new.total = orders[o].total
  BY DEF ToldIsSo
<1>3. CASE i \in DOMAIN told[o] /\ told'[o][i] = told[o][i]
  BY <1>3 DEF TellInv, ToldIsSo
<1>4. CASE o = e.orderId /\ told'[o][i] = notice
  BY <1>1, <1>2, <1>4, NoticeIsSo
<1>5. \/ i \in DOMAIN told[o] /\ told'[o][i] = told[o][i]
      \/ o = e.orderId /\ told'[o][i] = notice
  BY <1>1, SendAdds
<1> QED
  BY <1>3, <1>4, <1>5

LEMMA TellGoesOn ==
    ASSUME NoteTyped, SoundInv, TellInv, NotificationNext,
           UNCHANGED <<orderVars, inventoryVars, paymentVars>>
    PROVE  TellInv'
<1>0. /\ NotificationTypeOK /\ TypeOK /\ Provenance /\ notify \in [Notifier -> NotifyTask]
      /\ UNCHANGED <<log, orders, charges, reservations>>
  BY NoteStepsAside DEF NoteTyped, SagaInv, NotificationTypeOK, orderVars, inventoryVars, paymentVars
<1>1. PICK n \in Notifier : NotifierStep(n) \/ NoteStop(n)
  BY DEF NotificationNext
<1>2. ASSUME \A m \in Notifier \ {n} : notify'[m] = notify[m],
             notify'[n].pc # "idle" => notify'[n].event \in Event /\ Vouched(notify'[n].event) /\ Sound(notify'[n].event)
      PROVE  Telling'
  <2>1. \A e : (Vouched(e) => Vouched(e)') /\ (Sound(e) => Sound(e)')
    BY <1>0 DEF Vouched, Sound, WasReserved
  <2> SUFFICES ASSUME NEW m \in Notifier, notify'[m].pc # "idle"
               PROVE  Vouched(notify'[m].event) /\ Sound(notify'[m].event)
    BY <1>0 DEF Telling, Vouched, Sound, WasReserved
  <2> QED
    BY <1>2 DEF TellInv, Telling
<1>3. ASSUME notify[n].pc # "idle", NEW pc \in {"email", "sms", "record"},
             notify' = [notify EXCEPT ![n].pc = pc]
      PROVE  Telling'
  BY <1>0, <1>2, <1>3, NoteMovesOn, NoteTask DEF TellInv, Telling
<1>4. ASSUME NEW t \in Topic, NEW p \in Partition, NoteRead(n, t, p)
      PROVE  TellInv'
  <2>1. PICK e, k : e = NextEvent(noteOffset[t][p], t, p) /\ k = noteOffset[t][p] + 1
    OBVIOUS
  <2>2. noteOffset[t][p] \in Nat
    BY <1>0 DEF NotificationTypeOK
  <2>3. k \in DOMAIN log[t][p] /\ e = log[t][p][k]
    BY <1>0, <1>4, <2>1, <2>2, LogFacts DEF NoteRead, HasNext, NextEvent
  <2>4. e \in Event /\ Vouched(e) /\ Sound(e)
    BY <1>0, <2>3, LogFacts DEF Provenance, LogVouched, SoundInv
  <2>5. notify'[n] = NoteHandle(e) /\ \A m \in Notifier \ {n} : notify'[m] = notify[m]
    BY <1>0, <1>4, <2>1 DEF NoteRead
  <2>6. notify'[n].pc # "idle" => notify'[n].event = e
    BY <2>5 DEF NoteHandle, Idle
  <2>7. UNCHANGED told
    BY <1>4 DEF NoteRead
  <2> QED
    BY <1>0, <1>2, <2>4, <2>5, <2>6, <2>7 DEF TellInv, ToldIsSo
<1>5. CASE NoteEmail(n)
  BY <1>0, <1>3, <1>5, TellSend DEF NoteEmail, TellInv
<1>6. CASE NoteSMS(n)
  BY <1>0, <1>3, <1>6, TellSend DEF NoteSMS, TellInv
<1>7. CASE NoteRecord(n) \/ NoteStop(n)
  <2>1. notify' = [notify EXCEPT ![n] = Idle] /\ UNCHANGED told
    BY <1>7 DEF NoteRecord, NoteStop
  <2>2. notify'[n].pc = "idle" /\ \A m \in Notifier \ {n} : notify'[m] = notify[m]
    BY <1>0, <2>1 DEF Idle
  <2> QED
    BY <1>0, <1>2, <2>1, <2>2 DEF TellInv, ToldIsSo
<1> QED
  BY <1>1, <1>4, <1>5, <1>6, <1>7 DEF NotifierStep

(* Whatever fails, is lost or comes twice, and however late: the customer  *)
(* is told of a payment or a confirmation only if the card was charged,    *)
(* and the total in the text is the order's (handler.go:36-59).            *)
THEOREM CustomersAreToldTheTruth == NotifySpec => []ToldIsSo
<1>1. NotifyInit => SoundInv /\ TellInv
  <2> SUFFICES ASSUME NotifyInit PROVE SoundInv /\ TellInv
    OBVIOUS
  <2>1. SoundInv
    BY DEF NotifyInit, Init, BusInit, OrderInit, PaymentInit, SoundInv, Idle
  <2>2. TellInv
    BY DEF NotifyInit, NotificationInit, TellInv, Telling, ToldIsSo, Idle
  <2> QED
    BY <2>1, <2>2
<1>2. NoteTyped /\ SoundInv /\ TellInv /\ [NotifyNext]_allVars => SoundInv' /\ TellInv'
  <2> SUFFICES ASSUME NoteTyped, SoundInv, TellInv, [NotifyNext]_allVars
               PROVE  SoundInv' /\ TellInv'
    OBVIOUS
  <2>1. CASE [Next]_vars /\ UNCHANGED noteVars
    BY <2>1, SoundStep, TellStays DEF NoteTyped
  <2>2. CASE NotificationNext /\ UNCHANGED <<orderVars, inventoryVars, paymentVars>>
    <3>1. SoundInv'
      BY <2>2, NoteStepsAside, SoundAside DEF NoteTyped, SagaInv, orderVars, paymentVars
    <3> QED
      BY <2>2, <3>1, TellGoesOn
  <2> QED
    BY <2>1, <2>2 DEF NotifyNext, allVars
<1>3. TellInv => ToldIsSo
  BY DEF TellInv
<1> QED
  BY <1>1, <1>2, <1>3, AlwaysNoteTyped, PTL DEF NotifySpec

-----------------------------------------------------------------------------
(* It says it once.                                                        *)

(* The messages of a kind that a customer had. *)
Messages(o, type, channel) ==
    { i \in DOMAIN told[o] : told[o][i].type = type /\ told[o][i].channel = channel }

(* The events of the kind that the group has read. *)
Reads(o, type) ==
    { pi \in Published(Home(type), type, o) : pi[2] <= noteOffset[Home(type)][pi[1]] }

(* The consumer has read one and may still tell of it on this channel. *)
ToTell(n, o, type, channel) ==
    /\ notify[n].pc = "email" \/ (notify[n].pc = "sms" /\ channel = "sms")
    /\ notify[n].event.type = type
    /\ notify[n].event.orderId = o

(* S are those that were told of, and each consumer has one more: its own. *)
TellsOf(o, type, channel, S, of) ==
    /\ S \subseteq Reads(o, type)
    /\ IsFiniteSet(S) /\ Cardinality(S) = Cardinality(Messages(o, type, channel))
    /\ \A n \in Notifier : ToTell(n, o, type, channel) => of[n] \in Reads(o, type) \ S
    /\ \A m, n \in Notifier :
          ToTell(m, o, type, channel) /\ ToTell(n, o, type, channel) /\ of[m] = of[n] => m = n

OnceInv ==
    \A o \in Order, type \in EventType :
        /\ IsFiniteSet(Published(Home(type), type, o))
        /\ \A channel \in {"email", "sms"} : \E S : \E of : TellsOf(o, type, channel, S, of)

LEMMA HomeIsTopic == \A type : Home(type) \in Topic
BY DEF Home, Topic

LEMMA ReadsFacts ==
    ASSUME TypeOK, NEW o \in Order, NEW type, NEW pi \in Published(Home(type), type, o)
    PROVE  pi[1] \in Partition /\ pi[2] \in Nat
BY HomeIsTopic, LogFacts DEF Published

(* What was read stays read. *)
LEMMA ReadsGrow ==
    ASSUME TypeOK, NotificationTypeOK, NotificationTypeOK', NEW o \in Order, NEW type,
           Published(Home(type), type, o) \subseteq Published(Home(type), type, o)',
           \A t \in Topic, p \in Partition : noteOffset[t][p] <= noteOffset'[t][p]
    PROVE  Reads(o, type) \subseteq Reads(o, type)'
<1> SUFFICES ASSUME NEW pi \in Published(Home(type), type, o),
                    pi[2] <= noteOffset[Home(type)][pi[1]]
             PROVE  pi[2] <= noteOffset'[Home(type)][pi[1]]
  BY DEF Reads
<1>1. PICK t, p, k : t = Home(type) /\ p = pi[1] /\ k = pi[2]
  OBVIOUS
<1>2. t \in Topic /\ p \in Partition /\ k \in Nat
  BY <1>1, HomeIsTopic, ReadsFacts
<1>3. noteOffset[t][p] \in Nat /\ noteOffset'[t][p] \in Nat
  BY <1>2 DEF NotificationTypeOK
<1> QED
  BY <1>1, <1>2, <1>3

(* A step that tells nothing of the kind, and takes none up. *)
LEMMA TellsKept ==
    ASSUME NEW o \in Order, NEW type \in EventType, NEW channel \in {"email", "sms"},
           NEW S, NEW of, TellsOf(o, type, channel, S, of),
           Messages(o, type, channel)' = Messages(o, type, channel),
           Reads(o, type) \subseteq Reads(o, type)',
           \A n \in Notifier : ToTell(n, o, type, channel)' => ToTell(n, o, type, channel)
    PROVE  TellsOf(o, type, channel, S, of)'
BY DEF TellsOf

LEMMA OnceStays ==
    ASSUME NoteTyped, NoteTyped', OnceInv, [Next]_vars, UNCHANGED noteVars
    PROVE  OnceInv'
<1> SUFFICES ASSUME NEW o \in Order, NEW type \in EventType
             PROVE  /\ IsFiniteSet(Published(Home(type), type, o))'
                    /\ \A channel \in {"email", "sms"} :
                          \E S : \E of : TellsOf(o, type, channel, S, of)'
  BY DEF OnceInv
<1>0. TypeOK /\ NotificationTypeOK /\ NotificationTypeOK' /\ UNCHANGED <<notify, told, noteOffset>>
  BY DEF NoteTyped, SagaInv, noteVars
<1>1. /\ IsFiniteSet(Published(Home(type), type, o))'
      /\ Published(Home(type), type, o) \subseteq Published(Home(type), type, o)'
  BY <1>0, HomeIsTopic, PublishedGrows DEF OnceInv, Home
<1>2. \A t \in Topic, p \in Partition : noteOffset[t][p] <= noteOffset'[t][p]
  BY <1>0 DEF NotificationTypeOK
<1>3. Reads(o, type) \subseteq Reads(o, type)'
  BY <1>0, <1>1, <1>2, ReadsGrow
<1>4. ASSUME NEW channel \in {"email", "sms"}
      PROVE  \E S : \E of : TellsOf(o, type, channel, S, of)'
  <2>1. PICK S, of : TellsOf(o, type, channel, S, of)
    BY DEF OnceInv
  <2>2. /\ Messages(o, type, channel)' = Messages(o, type, channel)
        /\ \A n \in Notifier : ToTell(n, o, type, channel)' => ToTell(n, o, type, channel)
    BY <1>0 DEF Messages, ToTell
  <2> QED
    BY <1>3, <2>1, <2>2, TellsKept
<1> QED
  BY <1>1, <1>4

(* A consumer reads one more event, perhaps to tell of it. *)
LEMMA OnceReads ==
    ASSUME NoteTyped, NotificationTypeOK', OnceInv, NEW n \in Notifier,
           NEW t \in Topic, NEW p \in Partition, NoteRead(n, t, p),
           NEW o \in Order, NEW type \in EventType, NEW channel \in {"email", "sms"}
    PROVE  \E S : \E of : TellsOf(o, type, channel, S, of)'
<1>1. PICK k, e : k = noteOffset[t][p] + 1 /\ e = log[t][p][k]
  OBVIOUS
<1>2. TypeOK /\ NotificationTypeOK /\ noteOffset[t][p] \in Nat
  BY DEF NoteTyped, SagaInv, NotificationTypeOK
<1>3. /\ UNCHANGED <<log, told>>
      /\ noteOffset'[t][p] = k
      /\ \A s \in Topic, q \in Partition : s # t \/ q # p => noteOffset'[s][q] = noteOffset[s][q]
      /\ notify[n].pc = "idle" /\ notify'[n] = NoteHandle(e)
      /\ \A m \in Notifier \ {n} : notify'[m] = notify[m]
  <2>1. /\ noteOffset \in [Topic -> [Partition -> Nat]]
        /\ notify \in [Notifier -> NotifyTask]
    BY <1>2 DEF NotificationTypeOK
  <2> QED
    BY <1>1, <2>1 DEF NoteRead, NextEvent, busVars, Idle
<1>4. k \in DOMAIN log[t][p] /\ k \in Nat /\ ~ (k <= noteOffset[t][p])
  BY <1>1, <1>2, LogFacts DEF NoteRead, HasNext
<1>5. t = Home(e.type)
  BY <1>1, <1>4 DEF NoteTyped, SagaInv, BegunInv, LogFollows, Follows
<1>6. PICK S, of : TellsOf(o, type, channel, S, of)
  BY DEF OnceInv
<1>7. Reads(o, type) \subseteq Reads(o, type)'
  <2>1. ASSUME NEW s \in Topic, NEW q \in Partition
        PROVE  noteOffset[s][q] <= noteOffset'[s][q]
    <3>1. noteOffset[s][q] \in Nat
      BY <1>2 DEF NotificationTypeOK
    <3>2. CASE s = t /\ q = p
      BY <1>1, <1>3, <3>1, <3>2
    <3>3. CASE s # t \/ q # p
      BY <1>3, <3>1, <3>3
    <3> QED
      BY <3>2, <3>3
  <2>2. Published(Home(type), type, o) \subseteq Published(Home(type), type, o)'
    BY <1>3 DEF Published
  <2> QED
    BY <1>2, <2>1, <2>2, ReadsGrow
<1>8. Messages(o, type, channel)' = Messages(o, type, channel)
  BY <1>3 DEF Messages
<1>9. \A m \in Notifier \ {n} : ToTell(m, o, type, channel)' => ToTell(m, o, type, channel)
  BY <1>3 DEF ToTell
<1>10. CASE ~ ToTell(n, o, type, channel)'
  <2>1. \A m \in Notifier : ToTell(m, o, type, channel)' => ToTell(m, o, type, channel)
    BY <1>9, <1>10
  <2> QED
    BY <1>6, <1>7, <1>8, <2>1, TellsKept
<1>11. CASE ToTell(n, o, type, channel)'
  <2>1. e.type = type /\ e.orderId = o
    BY <1>3, <1>11 DEF ToTell, NoteHandle, Idle
  <2>2. <<p, k>> \in Reads(o, type)' /\ <<p, k>> \notin Reads(o, type)
    <3>1. <<p, k>> \in Published(t, type, o)' /\ k <= noteOffset'[t][p]
      BY <1>1, <1>3, <1>4, <2>1 DEF Published
    <3> QED
      BY <1>4, <1>5, <2>1, <3>1 DEF Reads
  <2>3. PICK new : new = [m \in Notifier |-> IF m = n THEN <<p, k>> ELSE of[m]]
    OBVIOUS
  <2>4. new[n] = <<p, k>> /\ \A m \in Notifier \ {n} : new[m] = of[m]
    BY <2>3
  <2>5. \A m \in Notifier \ {n} :
           ToTell(m, o, type, channel) => of[m] \in Reads(o, type) \ S /\ of[m] # <<p, k>>
    BY <1>6, <2>2 DEF TellsOf
  <2>6. S \subseteq Reads(o, type)' /\ <<p, k>> \notin S
    BY <1>6, <1>7, <2>2 DEF TellsOf
  <2>7. TellsOf(o, type, channel, S, new)'
    BY <1>6, <1>7, <1>8, <1>9, <2>2, <2>4, <2>5, <2>6 DEF TellsOf
  <2> QED
    BY <2>7
<1> QED
  BY <1>10, <1>11

(* A consumer tells of the event it has on one channel. *)
LEMMA OnceSends ==
    ASSUME NotificationTypeOK, OnceInv, NEW n \in Notifier, NEW channel \in {"email", "sms"},
           notify[n].pc = channel, Send(notify[n].event, channel),
           NEW pc \in {"sms", "record"}, notify' = [notify EXCEPT ![n].pc = pc],
           pc = "sms" => channel = "email", UNCHANGED <<log, noteOffset>>,
           NEW o \in Order, NEW type \in EventType, NEW ch \in {"email", "sms"}
    PROVE  \E S : \E of : TellsOf(o, type, ch, S, of)'
<1>1. PICK e : e = notify[n].event
  OBVIOUS
<1>2. /\ notify'[n].pc = pc /\ notify'[n].event = e
      /\ \A m \in Notifier \ {n} : notify'[m] = notify[m]
  BY <1>1, NoteMovesOn
<1>3. PICK S, of : TellsOf(o, type, ch, S, of)
  BY DEF OnceInv
<1>4. Reads(o, type)' = Reads(o, type)
  BY DEF Reads, Published
<1>5. \A m \in Notifier : ToTell(m, o, type, ch)' => ToTell(m, o, type, ch)
  BY <1>1, <1>2 DEF ToTell
<1>6. PICK k : k = Len(told[o]) + 1
  OBVIOUS
<1>7. /\ DOMAIN told'[o] = DOMAIN told[o] \cup (IF o = e.orderId THEN {k} ELSE {})
      /\ DOMAIN told[o] = 1..(k - 1) /\ k \in Nat \ {0}
      /\ o = e.orderId => told'[o][k] = NewNotice(e, channel)
      /\ \A i \in DOMAIN told[o] : told'[o][i] = told[o][i]
  BY <1>1, <1>6, SendAdds
<1>8. PICK x : x = of[n]
  OBVIOUS
<1>9. CASE e.orderId = o /\ e.type = type /\ ch = channel
  <2>1. Messages(o, type, ch)' = Messages(o, type, ch) \cup {k} /\ k \notin Messages(o, type, ch)
    BY <1>7, <1>9 DEF Messages, NewNotice
  <2>2. IsFiniteSet(Messages(o, type, ch))
    <3>1. IsFiniteSet(1..(k - 1))
      BY <1>7, FS_Interval
    <3> QED
      BY <1>7, <3>1, FS_Subset DEF Messages
  <2>3. Cardinality(Messages(o, type, ch)') = Cardinality(Messages(o, type, ch)) + 1
    BY <2>1, <2>2, FS_AddElement
  <2>4. ToTell(n, o, type, ch) /\ ~ ToTell(n, o, type, ch)'
    BY <1>1, <1>2, <1>9 DEF ToTell
  <2>5. /\ IsFiniteSet(S) /\ Cardinality(S) = Cardinality(Messages(o, type, ch))
        /\ S \subseteq Reads(o, type) /\ x \in Reads(o, type) /\ x \notin S
        /\ \A m \in Notifier \ {n} :
              ToTell(m, o, type, ch) => of[m] \in Reads(o, type) \ S /\ of[m] # x
    BY <1>3, <1>8, <2>4 DEF TellsOf
  <2>6. IsFiniteSet(S \cup {x}) /\ Cardinality(S \cup {x}) = Cardinality(S) + 1
    BY <2>5, FS_AddElement
  <2>7. TellsOf(o, type, ch, S \cup {x}, of)'
    BY <1>3, <1>4, <1>5, <2>3, <2>4, <2>5, <2>6 DEF TellsOf
  <2> QED
    BY <2>7
<1>10. CASE ~ (e.orderId = o /\ e.type = type /\ ch = channel)
  <2>1. Messages(o, type, ch)' = Messages(o, type, ch)
    BY <1>7, <1>10 DEF Messages, NewNotice
  <2> QED
    BY <1>3, <1>4, <1>5, <2>1, TellsKept
<1> QED
  BY <1>9, <1>10

LEMMA OnceGoesOn ==
    ASSUME NoteTyped, NotificationTypeOK', OnceInv, NotificationNext
    PROVE  OnceInv'
<1>0. NotificationTypeOK /\ notify \in [Notifier -> NotifyTask] /\ UNCHANGED log
  BY NoteStepsAside DEF NoteTyped, SagaInv, NotificationTypeOK
<1> SUFFICES ASSUME NEW o \in Order, NEW type \in EventType, NEW channel \in {"email", "sms"}
             PROVE  \E S : \E of : TellsOf(o, type, channel, S, of)'
  <2>1. \A o \in Order, type \in EventType : IsFiniteSet(Published(Home(type), type, o))'
    BY <1>0 DEF OnceInv, Published
  <2> QED
    BY <2>1 DEF OnceInv
<1>1. PICK n \in Notifier : NotifierStep(n) \/ NoteStop(n)
  BY DEF NotificationNext
<1>2. CASE NoteEmail(n)
  <2>1. PICK pc \in {"sms", "record"} : notify' = [notify EXCEPT ![n].pc = pc]
    BY <1>2 DEF NoteEmail
  <2> QED
    <3>1. notify[n].pc = "email" /\ Send(notify[n].event, "email") /\ UNCHANGED <<log, noteOffset>>
      BY <1>0, <1>2 DEF NoteEmail
    <3> QED
      BY <1>0, <2>1, <3>1, OnceSends
<1>3. CASE NoteSMS(n)
  BY <1>0, <1>3, OnceSends DEF NoteSMS
<1>4. CASE NoteRecord(n) \/ NoteStop(n)
  <2>1. notify' = [notify EXCEPT ![n] = Idle] /\ UNCHANGED <<told, noteOffset>>
    BY <1>4 DEF NoteRecord, NoteStop
  <2>2. \A m \in Notifier : ToTell(m, o, type, channel)' => ToTell(m, o, type, channel)
    BY <1>0, <2>1 DEF ToTell, Idle
  <2>3. /\ Messages(o, type, channel)' = Messages(o, type, channel)
        /\ Reads(o, type)' = Reads(o, type)
    BY <1>0, <2>1 DEF Messages, Reads, Published
  <2>4. PICK S, of : TellsOf(o, type, channel, S, of)
    BY DEF OnceInv
  <2> QED
    BY <2>2, <2>3, <2>4, TellsKept
<1> QED
  BY <1>1, <1>2, <1>3, <1>4, OnceReads DEF NotifierStep

LEMMA AlwaysOnceInv == NotifySpec => []OnceInv
<1>1. NotifyInit => OnceInv
  <2> SUFFICES ASSUME NotifyInit, NEW o \in Order, NEW type \in EventType, NEW channel \in {"email", "sms"}
               PROVE  /\ IsFiniteSet(Published(Home(type), type, o))
                      /\ \E S : \E of : TellsOf(o, type, channel, S, of)
    BY DEF OnceInv
  <2>1. Published(Home(type), type, o) = {}
    BY HomeIsTopic DEF NotifyInit, Init, BusInit, Published
  <2>2. IsFiniteSet({}) /\ Cardinality({}) = 0
    BY FS_EmptySet
  <2>3. Messages(o, type, channel) = {}
    BY DEF NotifyInit, NotificationInit, Messages
  <2>4. TellsOf(o, type, channel, {}, <<>>)
    BY <2>2, <2>3 DEF NotifyInit, NotificationInit, TellsOf, ToTell, Idle
  <2> QED
    BY <2>1, <2>2, <2>4
<1>2. NoteTyped /\ NoteTyped' /\ OnceInv /\ [NotifyNext]_allVars => OnceInv'
  BY OnceStays, OnceGoesOn DEF NoteTyped, NotifyNext, allVars
<1> QED
  BY <1>1, <1>2, AlwaysNoteTyped, PTL DEF NotifySpec

(* Whatever stops, a customer is never told twice of what was published    *)
(* once, however many consumers the group has (kafka.go:32-42, 47).        *)
THEOREM CustomersAreToldOnce == NotifySpec => []ToldOncePerEvent
<1>1. OnceInv => ToldOncePerEvent
  <2> SUFFICES ASSUME OnceInv, NEW o \in Order, NEW type \in EventType, NEW channel \in {"email", "sms"}
               PROVE  Cardinality(Messages(o, type, channel)) <=
                        Cardinality(Published(Home(type), type, o))
    BY HomeIsTopic DEF ToldOncePerEvent, Messages
  <2>1. PICK S, of : TellsOf(o, type, channel, S, of)
    BY DEF OnceInv
  <2>2. S \in SUBSET Published(Home(type), type, o)
    BY <2>1 DEF TellsOf, Reads
  <2>3. Cardinality(S) <= Cardinality(Published(Home(type), type, o))
    BY <2>2, FS_Subset DEF OnceInv
  <2> QED
    BY <2>1, <2>3 DEF TellsOf
<1> QED
  BY <1>1, AlwaysOnceInv, PTL

-----------------------------------------------------------------------------
(* "We have your order" is not left behind.                                *)

(* The group has read the order's order.created. *)
CreatedRead(o) ==
    \E j \in Nat : CreatedAt(o, j) /\ j <= noteOffset["order.events"][PartitionOf[o]]

TellsOutcome(n, o) ==
    /\ notify[n].pc # "idle"
    /\ IsOutcome(notify[n].event)
    /\ notify[n].event.orderId = o

(* An outcome comes after its order.created in the same partition, so the  *)
(* group reads it later; and what it has read it has told of, or is about  *)
(* to.                                                                     *)
ReceiptInv ==
    /\ \A p \in Partition : noteOffset["order.events"][p] <= Len(log["order.events"][p])
    /\ faults = 0 =>
          /\ \A o \in emailed : CreatedRead(o) =>
                HasReceipt(o) \/ \E n \in Notifier : TellsReceipt(n, o)
          /\ \A n \in Notifier, o \in Order : TellsOutcome(n, o) =>
                o \in emailed /\ CreatedRead(o)

(* The saga writes more, and what the group has read stays the same. *)
LEMMA ReceiptStays ==
    ASSUME NoteTyped, ReceiptInv, [Next]_vars, UNCHANGED noteVars
    PROVE  ReceiptInv'
<1>0. /\ TypeOK /\ TypeOK' /\ NotificationTypeOK
      /\ UNCHANGED <<emailed, notify, told, noteOffset>>
      /\ "order.events" \in Topic
  BY TypeStep DEF NoteTyped, SagaInv, noteVars, Topic
<1>1. ASSUME NEW p \in Partition
      PROVE  noteOffset'["order.events"][p] <= Len(log'["order.events"][p])
  <2>1. /\ noteOffset["order.events"][p] \in Nat
        /\ Len(log["order.events"][p]) \in Nat /\ Len(log'["order.events"][p]) \in Nat
    BY <1>0, LogFacts DEF NotificationTypeOK, TypeOK, BusTypeOK
  <2> QED
    BY <1>0, <2>1, LogGrows DEF ReceiptInv
<1>2. faults' = 0 => faults = 0
  BY <1>0, FaultsGrow DEF TypeOK, BusTypeOK
<1>3. ASSUME NEW o \in Order, CreatedRead(o)'
      PROVE  CreatedRead(o)
  <2>1. PICK p : p = PartitionOf[o]
    OBVIOUS
  <2>2. p \in Partition
    BY <2>1, PartitionAssumption
  <2>3. PICK j \in Nat : CreatedAt(o, j)' /\ j <= noteOffset["order.events"][p]
    BY <1>0, <1>3, <2>1 DEF CreatedRead
  <2>4. j \in DOMAIN log["order.events"][p]
    <3>1. /\ noteOffset["order.events"][p] \in Nat
          /\ Len(log["order.events"][p]) \in Nat
          /\ DOMAIN log["order.events"][p] = 1..Len(log["order.events"][p])
      BY <1>0, <2>2, LogFacts DEF NotificationTypeOK
    <3>2. j >= 1
      <4>1. DOMAIN log'["order.events"][p] = 1..Len(log'["order.events"][p])
        BY <1>0, <2>2, LenProperties DEF TypeOK, BusTypeOK
      <4> QED
        BY <2>1, <2>3, <4>1 DEF CreatedAt
    <3>3. noteOffset["order.events"][p] <= Len(log["order.events"][p])
      BY <2>2 DEF ReceiptInv
    <3> QED
      BY <2>3, <3>1, <3>2, <3>3
  <2>5. log'["order.events"][p][j] = log["order.events"][p][j]
    BY <1>0, <2>2, <2>4, EventsStay
  <2>6. CreatedAt(o, j)
    BY <2>1, <2>3, <2>4, <2>5 DEF CreatedAt
  <2> QED
    BY <2>1, <2>3, <2>6 DEF CreatedRead
<1>4. \A o \in Order : CreatedRead(o) => CreatedRead(o)'
  BY <1>0, CreatedStays DEF CreatedRead
<1>5. emailed \subseteq Order
  BY <1>0 DEF NotificationTypeOK
<1>6. ASSUME faults = 0, NEW o \in emailed, CreatedRead(o)'
      PROVE  HasReceipt(o)' \/ \E n \in Notifier : TellsReceipt(n, o)'
  <2>1. HasReceipt(o) \/ \E n \in Notifier : TellsReceipt(n, o)
    BY <1>3, <1>5, <1>6 DEF ReceiptInv
  <2> QED
    BY <1>0, <2>1 DEF HasReceipt, TellsReceipt
<1>7. \A n \in Notifier, o \in Order : TellsOutcome(n, o)' => TellsOutcome(n, o)
  BY <1>0 DEF TellsOutcome, IsOutcome
<1> QED
  BY <1>0, <1>1, <1>2, <1>4, <1>6, <1>7 DEF ReceiptInv

LEMMA ReceiptReads ==
    ASSUME NoteTyped, ReceiptInv,
           NEW n \in Notifier, NEW t \in Topic, NEW p \in Partition, NoteRead(n, t, p)
    PROVE  ReceiptInv'
<1>1. PICK k, e : k = noteOffset[t][p] + 1 /\ e = log[t][p][k]
  OBVIOUS
<1>2. TypeOK /\ NotificationTypeOK /\ noteOffset[t][p] \in Nat
  BY DEF NoteTyped, SagaInv, NotificationTypeOK
<1>3. /\ UNCHANGED <<log, faults, emailed, told>>
      /\ noteOffset'[t][p] = k
      /\ \A s \in Topic, q \in Partition : s # t \/ q # p => noteOffset'[s][q] = noteOffset[s][q]
      /\ notify[n].pc = "idle" /\ notify'[n] = NoteHandle(e)
      /\ \A m \in Notifier \ {n} : notify'[m] = notify[m]
  <2>1. /\ noteOffset \in [Topic -> [Partition -> Nat]]
        /\ notify \in [Notifier -> NotifyTask]
    BY <1>2 DEF NotificationTypeOK
  <2> QED
    BY <1>1, <2>1 DEF NoteRead, NextEvent, busVars, Idle
<1>4. k \in DOMAIN log[t][p] /\ k <= Len(log[t][p]) /\ k \in Nat
  <2>1. DOMAIN log[t][p] = 1..Len(log[t][p]) /\ Len(log[t][p]) \in Nat
    BY <1>2, LogFacts
  <2> QED
    BY <1>1, <1>2, <2>1 DEF NoteRead, HasNext
<1>5. Follows(t, p, k) /\ e \in Event /\ e.orderId \in Order
  BY <1>1, <1>2, <1>4, LogFacts DEF NoteTyped, SagaInv, BegunInv, LogFollows, Event
<1>6. \A q \in Partition : noteOffset'["order.events"][q] <= Len(log'["order.events"][q])
  BY <1>3, <1>4 DEF ReceiptInv, Topic
<1>7. \A o : \A m \in Notifier : TellsReceipt(m, o) => TellsReceipt(m, o)'
  BY <1>3 DEF TellsReceipt
<1>8. \A o \in Order : CreatedRead(o) => CreatedRead(o)'
  <2> SUFFICES ASSUME NEW o \in Order, NEW j \in Nat, CreatedAt(o, j),
                      j <= noteOffset["order.events"][PartitionOf[o]]
               PROVE  CreatedRead(o)'
    BY DEF CreatedRead
  <2>1. PartitionOf[o] \in Partition /\ "order.events" \in Topic
    BY PartitionAssumption DEF Topic
  <2>2. j <= noteOffset'["order.events"][PartitionOf[o]]
    BY <1>1, <1>2, <1>3, <2>1
  <2> QED
    BY <1>3, <2>2 DEF CreatedRead, CreatedAt
<1>9. ASSUME faults = 0, NEW o \in emailed, CreatedRead(o)'
      PROVE  HasReceipt(o)' \/ \E m \in Notifier : TellsReceipt(m, o)'
  <2>1. CASE CreatedRead(o)
    <3>1. HasReceipt(o) \/ \E m \in Notifier : TellsReceipt(m, o)
      BY <1>9, <2>1 DEF ReceiptInv
    <3> QED
      BY <1>3, <1>7, <3>1 DEF HasReceipt
  <2>2. CASE ~ CreatedRead(o)
    <3>1. PICK j \in Nat : CreatedAt(o, j) /\ j <= noteOffset'["order.events"][PartitionOf[o]]
      BY <1>3, <1>9 DEF CreatedRead, CreatedAt
    <3>2. PartitionOf[o] \in Partition /\ "order.events" \in Topic
      BY <1>2, PartitionAssumption DEF NotificationTypeOK, Topic
    <3>3. t = "order.events" /\ p = PartitionOf[o] /\ ~ (j <= noteOffset[t][p])
      BY <1>3, <2>2, <3>1, <3>2 DEF CreatedRead
    <3>4. j = k
      BY <1>1, <1>2, <1>3, <3>1, <3>3
    <3>5. e.type = "order.created" /\ e.orderId = o
      BY <1>1, <3>1, <3>3, <3>4 DEF CreatedAt
    <3> QED
      BY <1>3, <1>9, <3>5 DEF TellsReceipt, NoteHandle, Described
  <2> QED
    BY <2>1, <2>2
<1>10. ASSUME faults = 0, NEW m \in Notifier, NEW o \in Order, TellsOutcome(m, o)'
       PROVE  o \in emailed /\ CreatedRead(o)'
  <2>1. CASE m # n
    <3>1. TellsOutcome(m, o)
      BY <1>3, <1>10, <2>1 DEF TellsOutcome, IsOutcome
    <3> QED
      BY <1>8, <1>10, <3>1 DEF ReceiptInv
  <2>2. CASE m = n
    <3>1. IsOutcome(e) /\ e.orderId = o /\ o \in emailed
      BY <1>3, <1>10, <2>2 DEF TellsOutcome, NoteHandle, Idle, IsOutcome
    <3>2. t = "order.events" /\ p = PartitionOf[o]
      BY <1>1, <1>5, <3>1 DEF Follows, Home, IsOutcome
    <3>3. PICK j \in Nat : CreatedAt(o, j) /\ j < k
      BY <1>1, <1>5, <3>1, <3>2 DEF Follows, IsOutcome
    <3>4. j <= noteOffset[t][p]
      BY <1>1, <1>2, <3>3
    <3>5. CreatedRead(o)
      BY <3>2, <3>3, <3>4 DEF CreatedRead
    <3> QED
      BY <1>8, <3>1, <3>5
  <2> QED
    BY <2>1, <2>2
<1> QED
  BY <1>3, <1>6, <1>9, <1>10 DEF ReceiptInv

LEMMA ReceiptSends ==
    ASSUME NoteTyped, ReceiptInv,
           NEW n \in Notifier, NEW channel \in {"email", "sms"},
           notify[n].pc = channel, Send(notify[n].event, channel),
           NEW pc \in {"sms", "record"}, notify' = [notify EXCEPT ![n].pc = pc],
           UNCHANGED <<busVars, emailed, noteOffset>>
    PROVE  ReceiptInv'
<1>1. NotificationTypeOK /\ UNCHANGED <<log, faults>>
  BY DEF NoteTyped, SagaInv, busVars
<1>2. /\ notify'[n].pc = pc /\ notify'[n].event = notify[n].event
      /\ \A m \in Notifier \ {n} : notify'[m] = notify[m]
  BY <1>1, NoteMovesOn
<1>3. emailed \subseteq Order
  BY <1>1 DEF NotificationTypeOK
<1>4. \A o \in Order : HasReceipt(o) => HasReceipt(o)'
  <2> SUFFICES ASSUME NEW o \in Order, NEW j \in DOMAIN told[o], told[o][j].type = "order.created"
               PROVE  HasReceipt(o)'
    BY DEF HasReceipt
  <2>1. j \in DOMAIN told'[o] /\ told'[o][j] = told[o][j]
    BY <1>1, SendAdds
  <2> QED
    BY <2>1 DEF HasReceipt
<1>5. \A o \in Order : TellsReceipt(n, o) => HasReceipt(o)'
  <2> SUFFICES ASSUME NEW o \in Order, TellsReceipt(n, o)
               PROVE  HasReceipt(o)'
    OBVIOUS
  <2>1. PICK k : k = Len(told[o]) + 1
    OBVIOUS
  <2>2. k \in DOMAIN told'[o] /\ told'[o][k] = NewNotice(notify[n].event, channel)
    BY <1>1, <2>1, SendAdds DEF TellsReceipt
  <2>3. told'[o][k].type = "order.created"
    BY <2>2 DEF NewNotice, TellsReceipt
  <2> QED
    BY <2>2, <2>3 DEF HasReceipt
<1>6. \A o \in Order : CreatedRead(o)' <=> CreatedRead(o)
  BY <1>1 DEF CreatedRead, CreatedAt
<1>7. ASSUME faults = 0, NEW o \in emailed, CreatedRead(o)'
      PROVE  HasReceipt(o)' \/ \E m \in Notifier : TellsReceipt(m, o)'
  <2>1. HasReceipt(o) \/ \E m \in Notifier : TellsReceipt(m, o)
    BY <1>3, <1>6, <1>7 DEF ReceiptInv
  <2>2. \A m \in Notifier \ {n} : TellsReceipt(m, o) => TellsReceipt(m, o)'
    BY <1>2 DEF TellsReceipt
  <2> QED
    BY <1>3, <1>4, <1>5, <2>1, <2>2
<1>8. \A m \in Notifier, o \in Order : TellsOutcome(m, o)' => TellsOutcome(m, o)
  BY <1>2 DEF TellsOutcome, IsOutcome
<1>9. \A q \in Partition : noteOffset'["order.events"][q] <= Len(log'["order.events"][q])
  BY <1>1 DEF ReceiptInv
<1> QED
  BY <1>1, <1>6, <1>7, <1>8, <1>9 DEF ReceiptInv

LEMMA ReceiptGoesOn ==
    ASSUME NoteTyped, ReceiptInv, NotificationNext
    PROVE  ReceiptInv'
<1>0. NotificationTypeOK /\ TypeOK /\ notify \in [Notifier -> NotifyTask]
  BY DEF NoteTyped, SagaInv, NotificationTypeOK
<1>1. PICK n \in Notifier : NotifierStep(n) \/ NoteStop(n)
  BY DEF NotificationNext
<1>2. CASE NoteEmail(n)
  <2>1. PICK pc \in {"sms", "record"} : notify' = [notify EXCEPT ![n].pc = pc]
    BY <1>2 DEF NoteEmail
  <2> QED
    BY <1>2, <2>1, ReceiptSends DEF NoteEmail
<1>3. CASE NoteSMS(n)
  BY <1>3, ReceiptSends DEF NoteSMS
<1>4. CASE NoteRecord(n)
  <2>1. /\ UNCHANGED <<log, faults, emailed, told, noteOffset>>
        /\ notify[n].pc = "record" /\ notify'[n].pc = "idle"
        /\ \A m \in Notifier \ {n} : notify'[m] = notify[m]
    BY <1>0, <1>4 DEF NoteRecord, busVars, Idle
  <2>2. \A o : \A m \in Notifier : TellsReceipt(m, o) => TellsReceipt(m, o)'
    BY <2>1 DEF TellsReceipt
  <2>3. \A o : \A m \in Notifier : TellsOutcome(m, o)' => TellsOutcome(m, o)
    BY <2>1 DEF TellsOutcome, IsOutcome
  <2>4. \A o : (CreatedRead(o)' <=> CreatedRead(o)) /\ (HasReceipt(o) => HasReceipt(o)')
    BY <2>1 DEF CreatedRead, CreatedAt, HasReceipt
  <2>5. emailed \subseteq Order
    BY <1>0 DEF NotificationTypeOK
  <2> QED
    BY <2>1, <2>2, <2>3, <2>4, <2>5 DEF ReceiptInv
<1>5. CASE NoteStop(n)
  <2>1. UNCHANGED <<log, noteOffset>> /\ faults' = faults + 1 /\ faults \in Nat
    BY <1>0, <1>5, FaultAssumption DEF NoteStop, Fault, TypeOK, BusTypeOK
  <2> QED
    BY <2>1 DEF ReceiptInv
<1> QED
  BY <1>1, <1>2, <1>3, <1>4, <1>5, ReceiptReads DEF NotifierStep

(* Who sends an outcome finds the receipt sent, or in another's hands.     *)
LEMMA OutcomeIsSent ==
    ASSUME NoteTyped, ReceiptInv, faults = 0, [NotifyNext]_allVars,
           NEW o \in Order, NEW i \in DOMAIN told'[o] \ DOMAIN told[o], IsOutcome(told'[o][i])
    PROVE  \/ HasReceipt(o)
           \/ \E n \in Notifier : TellsReceipt(n, o) /\ notify'[n] = notify[n]
<1>0. NotificationTypeOK
  BY DEF NoteTyped
<1>1. ASSUME NEW n \in Notifier, NEW channel \in {"email", "sms"}, notify[n].pc = channel,
             Send(notify[n].event, channel), NEW pc, notify' = [notify EXCEPT ![n].pc = pc]
      PROVE  \/ HasReceipt(o)
             \/ \E m \in Notifier : TellsReceipt(m, o) /\ notify'[m] = notify[m]
  <2>1. /\ notify[n].event.orderId = o
        /\ told'[o][i] = NewNotice(notify[n].event, channel)
    BY <1>0, <1>1, SendAdds
  <2>2. IsOutcome(notify[n].event)
    BY <2>1 DEF NewNotice, IsOutcome
  <2>3. o \in emailed /\ CreatedRead(o)
    BY <1>1, <2>1, <2>2 DEF ReceiptInv, TellsOutcome
  <2>4. HasReceipt(o) \/ \E m \in Notifier : TellsReceipt(m, o)
    BY <2>3 DEF ReceiptInv
  <2>5. \A m \in Notifier : TellsReceipt(m, o) => m # n
    BY <2>2 DEF TellsReceipt, IsOutcome
  <2>6. \A m \in Notifier \ {n} : notify'[m] = notify[m]
    BY <1>0, <1>1, NoteMovesOn
  <2> QED
    BY <2>4, <2>5, <2>6
<1>2. told' # told
  OBVIOUS
<1>3. PICK n \in Notifier : NoteEmail(n) \/ NoteSMS(n)
  BY <1>2 DEF NotifyNext, allVars, noteVars, NotificationNext, NotifierStep,
              NoteRead, NoteRecord, NoteStop
<1>4. CASE NoteEmail(n)
  BY <1>1, <1>4 DEF NoteEmail
<1>5. CASE NoteSMS(n)
  BY <1>1, <1>5 DEF NoteSMS
<1> QED
  BY <1>3, <1>4, <1>5

(* While nothing has failed, a customer who is told the outcome has had    *)
(* "We have your order", or another replica is about to send it, however   *)
(* many read along and whatever the other topics bring meanwhile           *)
(* (main.go:46-52, order-service kafka.go:35-40).                          *)
THEOREM ReceiptStaysAhead == NotifySpec => ReceiptIsAhead
<1>1. NotifyInit => ReceiptInv
  <2> SUFFICES ASSUME NotifyInit PROVE ReceiptInv
    OBVIOUS
  <2>1. /\ \A p \in Partition : /\ log["order.events"][p] = <<>>
                                /\ noteOffset["order.events"][p] = 0
        /\ notify = [n \in Notifier |-> Idle]
        /\ emailed \subseteq Order
    BY DEF NotifyInit, Init, BusInit, NotificationInit, Topic
  <2>2. \A o \in Order : ~ CreatedRead(o)
    BY <2>1, PartitionAssumption DEF CreatedRead, CreatedAt
  <2>3. \A n \in Notifier : \A o \in Order : ~ TellsOutcome(n, o)
    BY <2>1 DEF TellsOutcome, Idle
  <2>4. Len(<<>>) = 0
    OBVIOUS
  <2> QED
    BY <2>1, <2>2, <2>3, <2>4 DEF ReceiptInv
<1>2. NoteTyped /\ ReceiptInv /\ [NotifyNext]_allVars => ReceiptInv'
  BY ReceiptStays, ReceiptGoesOn DEF NotifyNext, allVars
<1>3. NoteTyped /\ ReceiptInv /\ [NotifyNext]_allVars =>
        [faults = 0 => \A o \in Order :
            (\E i \in DOMAIN told'[o] \ DOMAIN told[o] : IsOutcome(told'[o][i])) =>
                \/ HasReceipt(o)
                \/ \E n \in Notifier : TellsReceipt(n, o) /\ notify'[n] = notify[n]]_told
  BY OutcomeIsSent
<1> QED
  BY <1>1, <1>2, <1>3, AlwaysNoteTyped, PTL DEF NotifySpec, ReceiptIsAhead

-----------------------------------------------------------------------------
(* Nothing is left untold.                                                 *)

(* The customer was told on this channel, or a consumer is about to.       *)
Heard(o, type, channel) ==
    \/ \E i \in DOMAIN told[o] : told[o][i].type = type /\ told[o][i].channel = channel
    \/ \E n \in Notifier : ToTell(n, o, type, channel)

HeardOf(e) ==
    Described(e.type) /\ e.orderId \in emailed =>
        \A channel \in Channels(e.type) : Heard(e.orderId, e.type, channel)

(* A message is for one who gave an address, about an event that has one,  *)
(* by a channel it goes out on.                                            *)
Fitting(e, channel) ==
    e.orderId \in emailed /\ Described(e.type) /\ channel \in Channels(e.type)

MessagesFit ==
    /\ \A o \in Order : \A i \in DOMAIN told[o] :
          /\ o \in emailed /\ Described(told[o][i].type)
          /\ told[o][i].channel \in Channels(told[o][i].type)
    /\ \A n \in Notifier : notify[n].pc # "idle" => Fitting(notify[n].event, "email")
    /\ \A n \in Notifier : notify[n].pc = "sms" => Fitting(notify[n].event, "sms")

NoteOffsets ==
    \A t \in Topic, p \in Partition : noteOffset[t][p] <= Len(log[t][p])

AllHeard ==
    \A t \in Topic, p \in Partition : \A i \in DOMAIN log[t][p] :
        i <= noteOffset[t][p] => HeardOf(log[t][p][i])

HeardInv == MessagesFit /\ NoteOffsets /\ (faults = 0 => AllHeard)

LEMMA ChannelsAre ==
    \A type : "email" \in Channels(type) /\ Channels(type) \subseteq {"email", "sms"}
BY DEF Channels

LEMMA HeardStays ==
    ASSUME NoteTyped, HeardInv, [Next]_vars, UNCHANGED noteVars
    PROVE  HeardInv'
<1>0. /\ TypeOK /\ TypeOK' /\ NotificationTypeOK
      /\ UNCHANGED <<emailed, notify, told, noteOffset>>
  BY TypeStep DEF NoteTyped, SagaInv, noteVars
<1>1. MessagesFit'
  BY <1>0 DEF HeardInv, MessagesFit, Fitting
<1>2. ASSUME NEW t \in Topic, NEW p \in Partition
      PROVE  /\ noteOffset'[t][p] <= Len(log'[t][p])
             /\ \A i \in DOMAIN log'[t][p] : i <= noteOffset'[t][p] =>
                   i \in DOMAIN log[t][p] /\ log'[t][p][i] = log[t][p][i]
  <2>1. /\ noteOffset[t][p] \in Nat /\ noteOffset[t][p] <= Len(log[t][p])
        /\ Len(log[t][p]) \in Nat /\ DOMAIN log[t][p] = 1..Len(log[t][p])
    BY <1>0, LogFacts DEF NotificationTypeOK, HeardInv, NoteOffsets
  <2>2. Len(log'[t][p]) \in Nat /\ DOMAIN log'[t][p] = 1..Len(log'[t][p])
    BY <1>0, LenProperties DEF TypeOK, BusTypeOK
  <2>3. Len(log[t][p]) <= Len(log'[t][p])
    BY <1>0, LogGrows
  <2>4. \A i \in DOMAIN log[t][p] : log'[t][p][i] = log[t][p][i]
    BY <1>0, EventsStay
  <2> QED
    BY <1>0, <2>1, <2>2, <2>3, <2>4
<1>3. \A e : HeardOf(e) => HeardOf(e)'
  BY <1>0 DEF HeardOf, Heard, ToTell
<1>4. faults' = 0 => faults = 0
  BY <1>0, FaultsGrow DEF TypeOK, BusTypeOK
<1>5. AllHeard => AllHeard'
  <2> SUFFICES ASSUME AllHeard, NEW t \in Topic, NEW p \in Partition, NEW i \in DOMAIN log'[t][p],
                      i <= noteOffset'[t][p]
               PROVE  HeardOf(log[t][p][i])'
    BY DEF AllHeard
  <2>1. PICK e : e = log[t][p][i]
    OBVIOUS
  <2>2. i \in DOMAIN log[t][p] /\ e = log'[t][p][i]
    BY <1>2, <2>1
  <2>3. HeardOf(e)'
    BY <1>0, <1>3, <2>1, <2>2 DEF AllHeard
  <2> QED
    BY <2>2, <2>3 DEF HeardOf, Heard
<1> QED
  BY <1>1, <1>2, <1>4, <1>5 DEF HeardInv, NoteOffsets

LEMMA HeardReads ==
    ASSUME NoteTyped, HeardInv, NEW n \in Notifier, NEW t \in Topic, NEW p \in Partition,
           NoteRead(n, t, p)
    PROVE  HeardInv'
<1>1. PICK k, e : k = noteOffset[t][p] + 1 /\ e = log[t][p][k]
  OBVIOUS
<1>2. TypeOK /\ NotificationTypeOK /\ noteOffset[t][p] \in Nat
  BY DEF NoteTyped, SagaInv, NotificationTypeOK
<1>3. /\ UNCHANGED <<log, faults, emailed, told>>
      /\ noteOffset'[t][p] = k
      /\ \A s \in Topic, q \in Partition : s # t \/ q # p => noteOffset'[s][q] = noteOffset[s][q]
      /\ notify[n].pc = "idle" /\ notify'[n] = NoteHandle(e)
      /\ \A m \in Notifier \ {n} : notify'[m] = notify[m]
  <2>1. /\ noteOffset \in [Topic -> [Partition -> Nat]]
        /\ notify \in [Notifier -> NotifyTask]
    BY <1>2 DEF NotificationTypeOK
  <2> QED
    BY <1>1, <2>1 DEF NoteRead, NextEvent, busVars, Idle
<1>4. k \in DOMAIN log[t][p] /\ k <= Len(log[t][p]) /\ k \in Nat
  <2>1. DOMAIN log[t][p] = 1..Len(log[t][p]) /\ Len(log[t][p]) \in Nat
    BY <1>2, LogFacts
  <2> QED
    BY <1>1, <1>2, <2>1 DEF NoteRead, HasNext
<1>5. NoteOffsets'
  <2> SUFFICES ASSUME NEW s \in Topic, NEW q \in Partition
               PROVE  noteOffset'[s][q] <= Len(log[s][q])
    BY <1>3 DEF NoteOffsets
  <2>1. CASE s = t /\ q = p
    BY <1>3, <1>4, <2>1
  <2>2. CASE s # t \/ q # p
    BY <1>3, <2>2 DEF HeardInv, NoteOffsets
  <2> QED
    BY <2>1, <2>2
<1>6. MessagesFit'
  <2>1. notify'[n].pc # "idle" =>
            notify'[n].pc = "email" /\ notify'[n].event = e /\ Fitting(e, "email")
    BY <1>3, ChannelsAre DEF NoteHandle, Idle, Fitting
  <2>2. \A m \in Notifier : notify'[m].pc # "idle" => Fitting(notify'[m].event, "email")
    BY <1>3, <2>1 DEF HeardInv, MessagesFit
  <2>3. \A m \in Notifier : notify'[m].pc = "sms" => Fitting(notify'[m].event, "sms")
    BY <1>3, <2>1 DEF HeardInv, MessagesFit
  <2> QED
    BY <1>3, <2>2, <2>3 DEF HeardInv, MessagesFit, Fitting
<1>7. \A x : HeardOf(x) => HeardOf(x)'
  <2>1. \A m \in Notifier : \A o, type, channel :
            ToTell(m, o, type, channel) => ToTell(m, o, type, channel)'
    BY <1>3 DEF ToTell
  <2> QED
    BY <1>3, <2>1 DEF HeardOf, Heard
<1>8. HeardOf(e)'
  <2> SUFFICES ASSUME Described(e.type), e.orderId \in emailed, NEW channel \in Channels(e.type)
               PROVE  ToTell(n, e.orderId, e.type, channel)'
    BY <1>3 DEF HeardOf, Heard
  <2> QED
    BY <1>3 DEF ToTell, NoteHandle
<1>9. AllHeard => AllHeard'
  <2> SUFFICES ASSUME AllHeard, NEW s \in Topic, NEW q \in Partition, NEW i \in DOMAIN log[s][q],
                      i <= noteOffset'[s][q]
               PROVE  HeardOf(log[s][q][i])'
    BY <1>3 DEF AllHeard
  <2>1. PICK x : x = log[s][q][i]
    OBVIOUS
  <2>2. x = log'[s][q][i]
    BY <1>3, <2>1
  <2>3. x = e \/ HeardOf(x)
    <3>1. CASE s = t /\ q = p /\ i = k
      BY <1>1, <2>1, <3>1
    <3>2. CASE ~ (s = t /\ q = p /\ i = k)
      <4>1. i \in Nat
        BY <1>2, LogFacts
      <4>2. i <= noteOffset[s][q]
        BY <1>1, <1>2, <1>3, <3>2, <4>1
      <4> QED
        BY <2>1, <4>2 DEF AllHeard
    <3> QED
      BY <3>1, <3>2
  <2>4. CASE x = e
    <3>1. HeardOf(x)'
      BY <1>8, <2>4 DEF HeardOf, Heard
    <3> QED
      BY <2>2, <3>1 DEF HeardOf, Heard
  <2>5. CASE HeardOf(x)
    <3>1. HeardOf(x)'
      BY <1>7, <2>5
    <3> QED
      BY <2>2, <3>1 DEF HeardOf, Heard
  <2> QED
    BY <2>3, <2>4, <2>5
<1> QED
  BY <1>3, <1>5, <1>6, <1>9 DEF HeardInv

LEMMA HeardSends ==
    ASSUME NoteTyped, HeardInv, NEW n \in Notifier, NEW channel \in {"email", "sms"},
           notify[n].pc = channel, Send(notify[n].event, channel), NEW pc,
           pc = IF channel = "email" /\ "sms" \in Channels(notify[n].event.type)
                THEN "sms" ELSE "record",
           notify' = [notify EXCEPT ![n].pc = pc], UNCHANGED <<busVars, emailed, noteOffset>>
    PROVE  HeardInv'
<1>1. PICK e : e = notify[n].event
  OBVIOUS
<1>2. NotificationTypeOK /\ UNCHANGED <<log, faults>>
  BY DEF NoteTyped, SagaInv, busVars
<1>3. /\ notify'[n].pc = pc /\ notify'[n].event = e
      /\ \A m \in Notifier \ {n} : notify'[m] = notify[m]
      /\ e.orderId \in Order
  <2>1. notify[n].pc # "idle"
    OBVIOUS
  <2>2. e.orderId \in Order
    BY <1>1, <1>2, <2>1, NoteTask
  <2>3. /\ notify'[n].pc = pc /\ notify'[n].event = notify[n].event
        /\ \A m \in Notifier \ {n} : notify'[m] = notify[m]
    BY <1>2, <2>1, NoteMovesOn
  <2> QED
    BY <1>1, <2>2, <2>3
<1>4. Fitting(e, channel)
  BY <1>1 DEF HeardInv, MessagesFit
<1>5. ASSUME NEW o \in Order
      PROVE  /\ \A i \in DOMAIN told[o] : i \in DOMAIN told'[o] /\ told'[o][i] = told[o][i]
             /\ \A i \in DOMAIN told'[o] \ DOMAIN told[o] :
                   o = e.orderId /\ told'[o][i].type = e.type /\ told'[o][i].channel = channel
             /\ o = e.orderId => \E i \in DOMAIN told'[o] :
                   told'[o][i].type = e.type /\ told'[o][i].channel = channel
  <2>1. PICK k : k = Len(told[o]) + 1
    OBVIOUS
  <2>2. /\ DOMAIN told'[o] = DOMAIN told[o] \cup (IF o = e.orderId THEN {k} ELSE {})
        /\ o = e.orderId => told'[o][k] = NewNotice(e, channel)
        /\ \A i \in DOMAIN told[o] : told'[o][i] = told[o][i]
    BY <1>1, <1>2, <2>1, SendAdds
  <2>3. NewNotice(e, channel).type = e.type /\ NewNotice(e, channel).channel = channel
    BY DEF NewNotice
  <2> QED
    BY <2>2, <2>3
<1>6. MessagesFit'
  <2>1. \A o \in Order : \A i \in DOMAIN told'[o] :
          /\ o \in emailed /\ Described(told'[o][i].type)
          /\ told'[o][i].channel \in Channels(told'[o][i].type)
    BY <1>4, <1>5 DEF HeardInv, MessagesFit, Fitting
  <2>2. pc = "sms" => Fitting(e, "sms")
    BY <1>1, <1>4 DEF Fitting
  <2>3. Fitting(e, "email")
    BY <1>4, ChannelsAre DEF Fitting
  <2> QED
    BY <1>3, <2>1, <2>2, <2>3 DEF HeardInv, MessagesFit, Fitting
<1>7. ASSUME NEW o \in Order, NEW type, NEW ch \in Channels(type), Heard(o, type, ch)
      PROVE  Heard(o, type, ch)'
  <2>1. CASE \E i \in DOMAIN told[o] : told[o][i].type = type /\ told[o][i].channel = ch
    BY <1>5, <2>1 DEF Heard
  <2>2. ASSUME NEW m \in Notifier, ToTell(m, o, type, ch)
        PROVE  Heard(o, type, ch)'
    <3>1. CASE m # n
      BY <1>3, <2>2, <3>1 DEF Heard, ToTell
    <3>2. CASE m = n /\ ch = channel
      <4>1. e.type = type /\ e.orderId = o
        BY <1>1, <2>2, <3>2 DEF ToTell
      <4> QED
        BY <1>5, <3>2, <4>1 DEF Heard
    <3>3. CASE m = n /\ ch # channel
      <4>1. e.type = type /\ e.orderId = o /\ channel = "email" /\ ch = "sms"
        BY <1>1, <2>2, <3>3, ChannelsAre DEF ToTell
      <4>2. pc = "sms"
        BY <1>1, <4>1
      <4>3. ToTell(n, o, type, ch)'
        BY <1>3, <4>1, <4>2 DEF ToTell
      <4> QED
        BY <4>3 DEF Heard
    <3> QED
      BY <3>1, <3>2, <3>3
  <2> QED
    BY <1>7, <2>1, <2>2 DEF Heard
<1>8. AllHeard => AllHeard'
  <2>1. \A x : HeardOf(x) => (x.orderId \in Order => HeardOf(x)')
    BY <1>7 DEF HeardOf
  <2>2. emailed \subseteq Order
    BY <1>2 DEF NotificationTypeOK
  <2> QED
    BY <1>2, <1>7, <2>2 DEF AllHeard, HeardOf
<1> QED
  BY <1>2, <1>6, <1>8 DEF HeardInv, NoteOffsets

(* A consumer is done, and has told of its event. *)
LEMMA HeardEnds ==
    ASSUME NoteTyped, HeardInv, NEW n \in Notifier,
           notify' = [notify EXCEPT ![n] = Idle], UNCHANGED <<log, emailed, told, noteOffset>>,
           faults' = 0 => faults = 0 /\ notify[n].pc = "record"
    PROVE  HeardInv'
<1>1. /\ notify'[n] = Idle /\ Idle.pc = "idle"
      /\ \A m \in Notifier \ {n} : notify'[m] = notify[m]
  BY DEF NoteTyped, NotificationTypeOK, Idle
<1>2. MessagesFit'
  <2>1. \A m \in Notifier : notify'[m].pc # "idle" => m # n
    BY <1>1
  <2>2. \A m \in Notifier : notify'[m].pc = "sms" => m # n
    BY <1>1
  <2> QED
    BY <1>1, <2>1, <2>2 DEF HeardInv, MessagesFit, Fitting
<1>3. ASSUME faults' = 0
      PROVE  AllHeard'
  <2>1. \A o, type, channel : Heard(o, type, channel) => Heard(o, type, channel)'
    <3>1. \A m \in Notifier : \A o, type, channel :
              ToTell(m, o, type, channel) => ToTell(m, o, type, channel)'
      BY <1>1, <1>3 DEF ToTell
    <3> QED
      BY <3>1 DEF Heard
  <2> QED
    BY <1>3, <2>1 DEF HeardInv, AllHeard, HeardOf
<1> QED
  BY <1>2, <1>3 DEF HeardInv, NoteOffsets

LEMMA HeardGoesOn ==
    ASSUME NoteTyped, HeardInv, NotificationNext
    PROVE  HeardInv'
<1>0. NotificationTypeOK /\ TypeOK
  BY DEF NoteTyped, SagaInv
<1>1. PICK n \in Notifier : NotifierStep(n) \/ NoteStop(n)
  BY DEF NotificationNext
<1>2. CASE NoteEmail(n)
  <2>1. PICK pc : pc = IF "sms" \in Channels(notify[n].event.type) THEN "sms" ELSE "record"
    OBVIOUS
  <2>2. /\ notify[n].pc = "email" /\ Send(notify[n].event, "email")
        /\ notify' = [notify EXCEPT ![n].pc = pc]
        /\ UNCHANGED <<busVars, emailed, noteOffset>>
    BY <1>2, <2>1 DEF NoteEmail
  <2> QED
    BY <2>1, <2>2, HeardSends
<1>3. CASE NoteSMS(n)
  BY <1>3, HeardSends DEF NoteSMS
<1>4. CASE NoteRecord(n)
  BY <1>4, HeardEnds DEF NoteRecord, busVars
<1>5. CASE NoteStop(n)
  <2>1. faults' = faults + 1 /\ faults \in Nat
    BY <1>0, <1>5, FaultAssumption DEF NoteStop, Fault, TypeOK, BusTypeOK
  <2>2. /\ notify' = [notify EXCEPT ![n] = Idle] /\ UNCHANGED <<log, emailed, told, noteOffset>>
        /\ faults' # 0
    BY <1>5, <2>1 DEF NoteStop
  <2> QED
    BY <2>2, HeardEnds
<1> QED
  BY <1>1, <1>2, <1>3, <1>4, <1>5, HeardReads DEF NotifierStep

LEMMA AlwaysHeardInv == NotifySpec => []HeardInv
<1>1. NotifyInit => HeardInv
  <2> SUFFICES ASSUME NotifyInit PROVE HeardInv
    OBVIOUS
  <2>1. /\ \A t \in Topic, p \in Partition : log[t][p] = <<>> /\ noteOffset[t][p] = 0
        /\ told = [o \in Order |-> <<>>]
        /\ notify = [n \in Notifier |-> Idle]
    BY DEF NotifyInit, Init, BusInit, NotificationInit
  <2>2. Len(<<>>) = 0
    OBVIOUS
  <2> QED
    BY <2>1, <2>2 DEF HeardInv, MessagesFit, NoteOffsets, AllHeard, Idle
<1>2. NoteTyped /\ HeardInv /\ [NotifyNext]_allVars => HeardInv'
  BY HeardStays, HeardGoesOn DEF NotifyNext, allVars
<1> QED
  BY <1>1, <1>2, AlwaysNoteTyped, PTL DEF NotifySpec

(* While nothing has failed the saga is as it is alone. *)
CalmInv == faults = 0 => AtomicInv /\ BilledOnce /\ BeginsOnce

LEMMA AlwaysCalmInv == NotifySpec => []CalmInv
<1>1. NotifyInit => CalmInv
  <2> SUFFICES ASSUME Init PROVE CalmInv
    BY DEF NotifyInit
  <2>1. BeginsOnce
    <3>1. \A o \in Order : \A j : PartitionOf[o] \in Partition /\ ~ CreatedAt(o, j)
      BY PartitionAssumption DEF Init, BusInit, Topic, CreatedAt
    <3> QED
      BY <3>1 DEF Init, OrderInit, Idle, BeginsOnce, Creates
  <2> QED
    BY <2>1, AtomicInvInit, BilledInit DEF CalmInv
<1>2. NoteTyped /\ CalmInv /\ [NotifyNext]_allVars => CalmInv'
  <2> SUFFICES ASSUME NoteTyped, CalmInv, [NotifyNext]_allVars, faults' = 0
               PROVE  AtomicInv' /\ BilledOnce' /\ BeginsOnce'
    BY DEF CalmInv
  <2>1. TypeOK /\ Provenance /\ faults \in Nat
    BY DEF NoteTyped, SagaInv, TypeOK, BusTypeOK
  <2>2. [Next]_vars /\ faults = 0
    <3>1. CASE [Next]_vars
      BY <2>1, <3>1, FaultsGrow
    <3>2. CASE NotificationNext /\ UNCHANGED <<orderVars, inventoryVars, paymentVars>>
      BY <2>1, <3>2, NoteStepsAside DEF vars, busVars
    <3> QED
      BY <3>1, <3>2 DEF NotifyNext, allVars
  <2>3. AtomicInv /\ BilledOnce /\ BeginsOnce
    BY <2>2 DEF CalmInv
  <2>4. TurnInv /\ NoRepeat'
    BY <2>3 DEF AtomicInv, StageInv, NoRepeat
  <2> QED
    BY <2>1, <2>2, <2>3, <2>4, AtomicInvStep, BilledStep, BeginsOnceStep
<1> QED
  BY <1>1, <1>2, AlwaysNoteTyped, PTL DEF NotifySpec

(* What has come of an order, as the tables tell it. *)
Happened(o) ==
    {"order.created", IF orders[o].status = "confirmed" THEN "order.confirmed" ELSE "order.cancelled"}
      \cup { type \in {"payment.confirmed", "payment.failed"} :
                /\ payments[o] # <<>>
                /\ type = "payment.confirmed" <=> charges[o] # <<>> }

Settled(o) == orders[o].status \in {"confirmed", "cancelled"}

LEMMA HappenedIs ==
    ASSUME NEW o, NEW type
    PROVE  type \in Happened(o) <=>
              \/ type = "order.created"
              \/ type = IF orders[o].status = "confirmed" THEN "order.confirmed" ELSE "order.cancelled"
              \/ /\ type \in {"payment.confirmed", "payment.failed"}
                 /\ payments[o] # <<>>
                 /\ type = "payment.confirmed" <=> charges[o] # <<>>
BY DEF Happened

LEMMA TablesAtRest ==
    ASSUME AtomicInv, BilledOnce, faults = 0, Cancelling = {}, Quiescent, NEW o \in Order
    PROVE  /\ Settled(o) \/ orders[o].status = "none"
           /\ Settled(o) => (orders[o].status = "confirmed" <=> charges[o] # <<>>)
           /\ charges[o] # <<>> => payments[o] # <<>>
<1>1. NothingLost /\ Stages /\ TypeOK /\ Provenance
  BY DEF AtomicInv, StageInv, Undisturbed, NoRepeat, TurnInv
<1>2. orders[o].status # "pending"
  BY <1>1, AtRest DEF NothingLost, PendingHasTurn
<1>3. orders[o].status \in {"none", "pending", "confirmed", "cancelled"}
  BY <1>1 DEF TypeOK, OrderTypeOK, NoOrder
<1>4. Settled(o) => (orders[o].status = "confirmed" <=> charges[o] # <<>>)
  BY <1>1 DEF Settled, Stages, EndsWell, Provenance, ConfirmedWasPaid
<1>5. charges[o] # <<>> => payments[o] # <<>>
  BY DEF BilledOnce
<1> QED
  BY <1>2, <1>3, <1>4, <1>5 DEF Settled

(* The story is what happened, by the channels it goes out on. *)
LEMMA StoryOfHappened ==
    ASSUME NEW o \in emailed, Settled(o),
           orders[o].status = "confirmed" <=> charges[o] # <<>>,
           charges[o] # <<>> => payments[o] # <<>>
    PROVE  /\ \A x \in Story(o) : x = <<x[1], x[2]>>
           /\ \A type, channel :
                 <<type, channel>> \in Story(o) <=>
                     type \in Happened(o) /\ channel \in Channels(type)
<1>1. CASE orders[o].status = "confirmed"
  <2>1. Story(o) = {"order.created", "payment.confirmed", "order.confirmed"} \X {"email"}
    BY <1>1 DEF Story
  <2>2. \A type : type \in Happened(o) <=>
            type \in {"order.created", "payment.confirmed", "order.confirmed"}
    BY <1>1, HappenedIs
  <2> QED
    BY <2>1, <2>2 DEF Channels
<1>2. CASE orders[o].status = "cancelled" /\ payments[o] # <<>>
  <2>1. Story(o) = ({"order.created"} \X {"email"}) \cup
                   (({"order.cancelled"} \cup {"payment.failed"}) \X {"email", "sms"})
    BY <1>2 DEF Story
  <2>2. \A type : type \in Happened(o) <=>
            type \in {"order.created", "payment.failed", "order.cancelled"}
    BY <1>2, HappenedIs
  <2> QED
    BY <2>1, <2>2 DEF Channels
<1>3. CASE orders[o].status = "cancelled" /\ payments[o] = <<>>
  <2>1. Story(o) = ({"order.created"} \X {"email"}) \cup
                   (({"order.cancelled"} \cup {}) \X {"email", "sms"})
    BY <1>3 DEF Story
  <2>2. \A type : type \in Happened(o) <=> type \in {"order.created", "order.cancelled"}
    BY <1>3, HappenedIs
  <2> QED
    BY <2>1, <2>2 DEF Channels
<1> QED
  BY <1>1, <1>2, <1>3 DEF Settled

(* At rest each thing that happened has one event, and nothing else has. *)
LEMMA HappenedIsPublished ==
    ASSUME SagaInv, AtomicInv, BilledOnce, BeginsOnce, faults = 0, Cancelling = {}, Quiescent,
           NEW o \in Order, Settled(o), NEW type \in EventType, Described(type)
    PROVE  /\ type \in Happened(o) <=> Published(Home(type), type, o) # {}
           /\ \A x, y \in Published(Home(type), type, o) : x = y
<1>0. TypeOK /\ NothingLost /\ LogFollows
  BY DEF SagaInv, AtomicInv, BegunInv
<1>1. ASSUME NEW t \in Topic, NEW pi \in Published(t, type, o)
      PROVE  \E p \in Partition : \E i \in DOMAIN log[t][p] :
                 /\ pi = <<p, i>> /\ i \in Nat /\ Follows(t, p, i)
                 /\ log[t][p][i].type = type /\ log[t][p][i].orderId = o
  BY <1>0, <1>1, IsPublished, LogFacts DEF LogFollows
<1>2. CASE type \in Final
  <2>1. Home(type) = "order.events"
    BY <1>2 DEF Home, Final
  <2>2. \A x : x \in Published("order.events", type, o) =>
            \E p, i : x = <<p, i>> /\ Says("order.events", p, i, type, o)
    BY <1>1 DEF Says, Topic
  <2>3. \A p, i : Says("order.events", p, i, type, o) =>
            <<p, i>> \in Published("order.events", type, o)
    BY DEF Published, Says
  <2>4. orders[o].status = StatusOf(type) <=> \E p, i : Says("order.events", p, i, type, o)
    BY <1>0, <1>2, AtRest DEF NothingLost, SaidOnce
  <2>5. \A p, q, i, j : Says("order.events", p, i, type, o) /\ Says("order.events", q, j, type, o)
            => p = q /\ i = j
    BY <1>0, <1>2 DEF NothingLost, SaidOnce
  <2>6. type \in Happened(o) <=> orders[o].status = StatusOf(type)
    BY <1>2, HappenedIs DEF Final, StatusOf, Settled
  <2> QED
    <3>1. type \in Happened(o) <=> Published("order.events", type, o) # {}
      BY <2>2, <2>3, <2>4, <2>6
    <3>2. \A x, y \in Published("order.events", type, o) : x = y
      BY <2>2, <2>5
    <3> QED
      BY <2>1, <3>1, <3>2
<1>3. CASE type = "order.created"
  <2>1. Home(type) = "order.events"
    BY <1>3 DEF Home
  <2>2. \A x \in Published("order.events", type, o) :
            \E i \in Nat : x = <<PartitionOf[o], i>> /\ CreatedAt(o, i)
    <3> SUFFICES ASSUME NEW x \in Published("order.events", type, o)
                 PROVE  \E i \in Nat : x = <<PartitionOf[o], i>> /\ CreatedAt(o, i)
      OBVIOUS
    <3>1. PICK p \in Partition : \E i \in DOMAIN log["order.events"][p] :
             /\ x = <<p, i>> /\ i \in Nat /\ Follows("order.events", p, i)
             /\ log["order.events"][p][i].type = type /\ log["order.events"][p][i].orderId = o
      BY <1>1 DEF Topic
    <3> QED
      BY <1>3, <3>1 DEF Follows, CreatedAt
  <2>3. \E j \in Nat : CreatedAt(o, j)
    <3>1. PICK last \in Final : orders[o].status = StatusOf(last)
      BY DEF Final, StatusOf, Settled
    <3>2. PICK p, i : Says("order.events", p, i, last, o)
      BY <1>0, <3>1, AtRest DEF NothingLost, SaidOnce
    <3>3. Follows("order.events", p, i)
      BY <1>0, <3>2 DEF LogFollows, Says, Topic
    <3> QED
      BY <3>2, <3>3 DEF Follows, Says, Final
  <2>4. Published("order.events", type, o) # {}
    <3>1. PICK j \in Nat : CreatedAt(o, j)
      BY <2>3
    <3>2. <<PartitionOf[o], j>> \in Published("order.events", type, o)
      BY <1>3, <3>1, PartitionAssumption, IsPublished DEF CreatedAt
    <3> QED
      BY <3>2
  <2>5. type \in Happened(o)
    BY <1>3, HappenedIs
  <2> QED
    <3>1. \A x, y \in Published("order.events", type, o) : x = y
      BY <2>2 DEF BeginsOnce
    <3> QED
      BY <2>1, <2>4, <2>5, <3>1
<1>4. CASE type \in {"payment.confirmed", "payment.failed"}
  <2>1. Home(type) = "payment.events"
    BY <1>4 DEF Home
  <2>2. \A x : x \in Published("payment.events", type, o) =>
            \E p, i : /\ x = <<p, i>> /\ Bills("payment.events", p, i, o)
                      /\ log["payment.events"][p][i].type = type
    BY <1>1 DEF Bills, Topic
  <2>3. \A p, i : Bills("payment.events", p, i, o) =>
            /\ log["payment.events"][p][i].type \in {"payment.confirmed", "payment.failed"}
            /\ log["payment.events"][p][i].type = type =>
                   <<p, i>> \in Published("payment.events", type, o)
    <3> SUFFICES ASSUME NEW p, NEW i, Bills("payment.events", p, i, o)
                 PROVE  /\ log["payment.events"][p][i].type \in {"payment.confirmed", "payment.failed"}
                        /\ log["payment.events"][p][i].type = type =>
                               <<p, i>> \in Published("payment.events", type, o)
      OBVIOUS
    <3>1. PICK e : e = log["payment.events"][p][i]
      OBVIOUS
    <3>2. p \in Partition /\ i \in DOMAIN log["payment.events"][p] /\ e.orderId = o
      BY <3>1 DEF Bills
    <3>3. e \in Event /\ "payment.events" = Home(e.type)
      BY <1>0, <3>1, <3>2, LogFacts DEF LogFollows, Follows, Topic
    <3>4. e.type \in {"payment.confirmed", "payment.failed"}
      BY <3>3 DEF Event, EventType, Home
    <3> QED
      BY <3>1, <3>2, <3>4, IsPublished
  <2>4. payments[o] # <<>> <=> \E p, i : Bills("payment.events", p, i, o)
    <3>1. \A w \in PayWorker : pay[w].pc = "idle"
      BY DEF Quiescent, Idle
    <3>2. \A at, who, i : Bills(at, who, i, o) => at = "payment.events"
      BY <3>1 DEF Bills
    <3> QED
      BY <3>2 DEF BilledOnce
  <2>5. \A p, i : Bills("payment.events", p, i, o) =>
            (log["payment.events"][p][i].type = "payment.confirmed" <=> charges[o] # <<>>)
    BY DEF BilledOnce
  <2>6. \A p, q, i, j : Bills("payment.events", p, i, o) /\ Bills("payment.events", q, j, o)
            => p = q /\ i = j
    BY DEF BilledOnce
  <2>7. type \in Happened(o) <=>
            payments[o] # <<>> /\ (type = "payment.confirmed" <=> charges[o] # <<>>)
    BY <1>4, HappenedIs
  <2>8. type \in Happened(o) <=> Published("payment.events", type, o) # {}
    <3>1. ASSUME type \in Happened(o)
          PROVE  Published("payment.events", type, o) # {}
      <4>1. PICK p, i : Bills("payment.events", p, i, o)
        BY <2>4, <2>7, <3>1
      <4>2. log["payment.events"][p][i].type = type
        BY <1>4, <2>3, <2>5, <2>7, <3>1, <4>1
      <4> QED
        BY <2>3, <4>1, <4>2
    <3>2. ASSUME NEW x \in Published("payment.events", type, o)
          PROVE  type \in Happened(o)
      BY <2>2, <2>4, <2>5, <2>7, <3>2
    <3> QED
      BY <3>1, <3>2
  <2> QED
    <3>1. \A x, y \in Published("payment.events", type, o) : x = y
      BY <2>2, <2>6
    <3> QED
      BY <2>1, <2>8, <3>1
<1> QED
  BY <1>2, <1>3, <1>4 DEF Described, EventType, Final

LEMMA MessagesFinite ==
    ASSUME NotificationTypeOK, NEW o \in Order, NEW type, NEW channel
    PROVE  IsFiniteSet(Messages(o, type, channel))
<1>1. Len(told[o]) \in Nat /\ DOMAIN told[o] = 1..Len(told[o])
  BY LenProperties DEF NotificationTypeOK
<1>2. IsFiniteSet(1..Len(told[o]))
  BY <1>1, FS_Interval
<1> QED
  BY <1>1, <1>2, FS_Subset DEF Messages

(* What is in the topics at rest has been read, and told. *)
LEMMA PublishedIsTold ==
    ASSUME NoteTyped, OnceInv, HeardInv, faults = 0, AllTold,
           NEW o \in emailed, NEW type \in EventType, Described(type), NEW channel \in Channels(type)
    PROVE  Published(Home(type), type, o) # {} <=> Messages(o, type, channel) # {}
<1>0. TypeOK /\ NotificationTypeOK /\ Home(type) \in Topic
  BY HomeIsTopic DEF NoteTyped, SagaInv
<1>1. ASSUME NEW pi \in Published(Home(type), type, o)
      PROVE  Messages(o, type, channel) # {}
  <2>1. PICK t \in Topic : t = Home(type)
    BY <1>0
  <2>2. PICK p, i : /\ p \in Partition /\ i \in DOMAIN log[t][p]
                    /\ log[t][p][i].type = type /\ log[t][p][i].orderId = o
    BY <1>1, <2>1, IsPublished
  <2>3. i <= noteOffset[t][p]
    <3>1. i \in Nat /\ i <= Len(log[t][p]) /\ Len(log[t][p]) \in Nat /\ noteOffset[t][p] \in Nat
      BY <1>0, <2>2, LogFacts DEF NotificationTypeOK
    <3>2. ~ (noteOffset[t][p] < Len(log[t][p]))
      BY <2>2 DEF AllTold, HasNext
    <3> QED
      BY <3>1, <3>2
  <2>4. HeardOf(log[t][p][i])
    BY <2>2, <2>3 DEF HeardInv, AllHeard
  <2>5. Heard(o, type, channel)
    BY <2>2, <2>4 DEF HeardOf
  <2>6. \A n \in Notifier : ~ ToTell(n, o, type, channel)
    BY DEF AllTold, ToTell, Idle
  <2> QED
    BY <2>5, <2>6 DEF Heard, Messages
<1>2. ASSUME Published(Home(type), type, o) = {}
      PROVE  Messages(o, type, channel) = {}
  <2>1. o \in Order /\ channel \in {"email", "sms"}
    BY <1>0, ChannelsAre DEF NotificationTypeOK
  <2>2. PICK S, of : TellsOf(o, type, channel, S, of)
    BY <2>1 DEF OnceInv
  <2>3. S = {}
    BY <1>2, <2>2 DEF TellsOf, Reads
  <2>4. Cardinality(Messages(o, type, channel)) = 0
    BY <2>2, <2>3, FS_EmptySet DEF TellsOf
  <2>5. IsFiniteSet(Messages(o, type, channel))
    BY <1>0, <2>1, MessagesFinite
  <2> QED
    BY <2>4, <2>5, FS_EmptySet
<1> QED
  BY <1>1, <1>2

(* What has one event is told once on each channel. *)
LEMMA TellsOne ==
    ASSUME NotificationTypeOK, OnceInv, NEW o \in Order, NEW type \in EventType,
           NEW channel \in Channels(type), \A x, y \in Published(Home(type), type, o) : x = y,
           NEW i \in Messages(o, type, channel), NEW j \in Messages(o, type, channel)
    PROVE  i = j
<1>1. channel \in {"email", "sms"}
  BY ChannelsAre
<1>2. PICK S, of : TellsOf(o, type, channel, S, of)
  BY <1>1 DEF OnceInv
<1>3. /\ IsFiniteSet(S) /\ Cardinality(S) = Cardinality(Messages(o, type, channel))
      /\ \A x, y \in S : x = y
  BY <1>2 DEF TellsOf, Reads
<1>4. IsFiniteSet(Messages(o, type, channel))
  BY MessagesFinite
<1>5. S # {}
  BY <1>3, <1>4, FS_EmptySet
<1>6. Cardinality(S) = 1
  <2>1. PICK x : x \in S
    BY <1>5
  <2>2. S = {x}
    BY <1>3, <2>1
  <2> QED
    BY <2>2, FS_Singleton
<1>7. PICK m : Messages(o, type, channel) = {m}
  BY <1>3, <1>4, <1>6, FS_Singleton
<1> QED
  BY <1>7

LEMMA ToldIsStory ==
    ASSUME NoteTyped, ToldIsSo, OnceInv, HeardInv, CalmInv, AllTold, faults = 0, Cancelling = {},
           NEW o \in Order
    PROVE  /\ { <<told[o][i].type, told[o][i].channel>> : i \in DOMAIN told[o] } = Story(o)
           /\ Len(told[o]) = Cardinality(Story(o))
<1>0. /\ SagaInv /\ NotificationTypeOK /\ AtomicInv /\ BilledOnce /\ BeginsOnce /\ Quiescent
      /\ told[o] \in Seq(Notice)
      /\ Len(told[o]) \in Nat /\ DOMAIN told[o] = 1..Len(told[o])
  BY LenProperties DEF NoteTyped, NotificationTypeOK, CalmInv, AllTold
<1>1. CASE o \notin emailed \/ orders[o].status = "none"
  <2>1. DOMAIN told[o] = {}
    BY <1>1 DEF HeardInv, MessagesFit, ToldIsSo
  <2>2. Len(told[o]) = 0
    <3>1. \A n \in Nat : 1..n = {} => n = 0
      <4>1. \A n \in Nat : n # 0 => 1 \in 1..n
        OBVIOUS
      <4> QED
        BY <4>1
    <3> QED
      BY <1>0, <2>1, <3>1
  <2>3. Story(o) = {}
    BY <1>1 DEF Story
  <2> QED
    BY <2>1, <2>2, <2>3, FS_EmptySet
<1>2. CASE o \in emailed /\ orders[o].status # "none"
  <2>1. /\ Settled(o)
        /\ orders[o].status = "confirmed" <=> charges[o] # <<>>
        /\ charges[o] # <<>> => payments[o] # <<>>
    BY <1>0, <1>2, TablesAtRest
  <2>2. /\ \A x \in Story(o) : x = <<x[1], x[2]>>
        /\ \A type, channel :
              <<type, channel>> \in Story(o) <=> type \in Happened(o) /\ channel \in Channels(type)
    BY <1>2, <2>1, StoryOfHappened
  <2>3. \A type \in Happened(o) : type \in EventType /\ Described(type)
    BY HappenedIs DEF EventType, Described
  <2>4. \A i \in DOMAIN told[o] :
           /\ told[o][i].type \in EventType /\ Described(told[o][i].type)
           /\ told[o][i].channel \in Channels(told[o][i].type)
           /\ i \in Messages(o, told[o][i].type, told[o][i].channel)
    <3> SUFFICES ASSUME NEW i \in DOMAIN told[o]
                 PROVE  /\ told[o][i].type \in EventType /\ Described(told[o][i].type)
                        /\ told[o][i].channel \in Channels(told[o][i].type)
                        /\ i \in Messages(o, told[o][i].type, told[o][i].channel)
      OBVIOUS
    <3>1. told[o][i] \in Notice
      BY <1>0
    <3>2. Described(told[o][i].type) /\ told[o][i].channel \in Channels(told[o][i].type)
      BY DEF HeardInv, MessagesFit
    <3>3. i \in Messages(o, told[o][i].type, told[o][i].channel)
      BY DEF Messages
    <3> QED
      BY <3>1, <3>2, <3>3 DEF Notice
  <2>5. \A type \in EventType : Described(type) => \A channel \in Channels(type) :
            type \in Happened(o) <=> Messages(o, type, channel) # {}
    BY <1>0, <1>2, <2>1, HappenedIsPublished, PublishedIsTold
  <2>6. \A i \in DOMAIN told[o] : <<told[o][i].type, told[o][i].channel>> \in Story(o)
    BY <2>2, <2>4, <2>5
  <2>7. ASSUME NEW x \in Story(o)
        PROVE  \E i \in DOMAIN told[o] : x = <<told[o][i].type, told[o][i].channel>>
    <3>1. PICK type, channel : x = <<type, channel>>
      BY <2>2
    <3>2. Messages(o, type, channel) # {}
      BY <2>2, <2>3, <2>5, <2>7, <3>1
    <3> QED
      BY <3>1, <3>2 DEF Messages
  <2>8. ASSUME NEW i \in DOMAIN told[o], NEW j \in DOMAIN told[o],
               told[o][i].type = told[o][j].type, told[o][i].channel = told[o][j].channel
        PROVE  i = j
    <3>1. PICK type, channel : type = told[o][i].type /\ channel = told[o][i].channel
      OBVIOUS
    <3>2. /\ type \in EventType /\ Described(type) /\ channel \in Channels(type)
          /\ i \in Messages(o, type, channel) /\ j \in Messages(o, type, channel)
      BY <2>4, <2>8, <3>1
    <3>3. \A x, y \in Published(Home(type), type, o) : x = y
      BY <1>0, <2>1, <3>2, HappenedIsPublished
    <3> QED
      BY <1>0, <3>2, <3>3, TellsOne
  <2>9. PICK f : f = [i \in 1..Len(told[o]) |-> <<told[o][i].type, told[o][i].channel>>]
    OBVIOUS
  <2>10. f \in Bijection(1..Len(told[o]), Story(o))
    <3>1. f \in [1..Len(told[o]) -> Story(o)] /\ \A x \in Story(o) : \E i \in 1..Len(told[o]) : f[i] = x
      BY <1>0, <2>6, <2>7, <2>9
    <3>2. \A i, j \in 1..Len(told[o]) : f[i] = f[j] => i = j
      BY <1>0, <2>8, <2>9
    <3> QED
      BY <3>1, <3>2, Fun_IsBij
  <2>11. Cardinality(Story(o)) = Len(told[o])
    <3>1. IsFiniteSet(1..Len(told[o])) /\ Cardinality(1..Len(told[o])) = Len(told[o])
      BY <1>0, FS_Interval
    <3> QED
      BY <2>10, <3>1, FS_Bijection DEF ExistsBijection
  <2> QED
    BY <2>6, <2>7, <2>11
<1> QED
  BY <1>1, <1>2

(* If nothing failed and no customer cancels, in the end the customer has  *)
(* heard the whole story of the order that the tables tell, no message     *)
(* twice and none that belongs to the other outcome (handler.go:9-11,      *)
(* 28-71).                                                                 *)
THEOREM CustomersHearTheStory ==
    ASSUME Cancelling = {}
    PROVE  NotifySpec => []StoryIsTold
<1>1. NoteTyped /\ ToldIsSo /\ OnceInv /\ HeardInv /\ CalmInv => StoryIsTold
  BY ToldIsStory DEF StoryIsTold
<1> QED
  BY <1>1, AlwaysNoteTyped, CustomersAreToldTheTruth, AlwaysOnceInv, AlwaysHeardInv, AlwaysCalmInv, PTL
=============================================================================
