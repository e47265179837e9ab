----------------------------- MODULE PulseNotify -----------------------------
(***************************************************************************)
(* The saga with notification-service reading along.  It reads the three   *)
(* topics in no common order, at any distance behind the services, and     *)
(* none of them waits for it.                                              *)
(***************************************************************************)
EXTENDS Pulse, NotificationService

allVars == <<vars, noteVars>>

NotifyInit == Init /\ NotificationInit

NotifyNext == \/ Next /\ UNCHANGED noteVars
              \/ NotificationNext /\ UNCHANGED <<orderVars, inventoryVars, paymentVars>>

NotifySpec == NotifyInit /\ [][NotifyNext]_allVars

(* As in Pulse, and notification-service goes on reading. *)
NotifyFairness ==
    /\ Fairness
    /\ \A n \in Notifier :
          WF_allVars(NotifierStep(n) /\ UNCHANGED <<orderVars, inventoryVars, paymentVars>>)

NotifyFairSpec == NotifySpec /\ NotifyFairness

-----------------------------------------------------------------------------
(* Whatever fails, is lost or comes twice, and however late: the customer  *)
(* is told of a payment or a confirmation only if the card was charged,    *)
(* and the total in the text is the order's (handler.go:36-59).            *)
ToldIsSo ==
    \A o \in Order : \A i \in DOMAIN told[o] :
        LET notice == told[o][i] IN
          /\ orders[o].status # "none"
          /\ notice.type \in {"payment.confirmed", "order.confirmed"} => charges[o] # <<>>
          /\ notice.type \in {"order.created", "payment.confirmed", "order.confirmed"} =>
                notice.total = orders[o].total

(* Whatever stops, a customer is never told twice of what was published    *)
(* once: the replica that goes on does so from the offset of the group     *)
(* (kafka.go:32-42, 47).                                                   *)
ToldOncePerEvent ==
    \A o \in Order, type \in EventType, channel \in {"email", "sms"} :
        \E t \in Topic :
            Cardinality({ i \in DOMAIN told[o] : told[o][i].type = type
                                              /\ told[o][i].channel = channel })
              <= Cardinality(Published(t, type, o))

(* Nothing is left to do, nor to tell. *)
AllTold == /\ Quiescent
           /\ \A n \in Notifier : notify[n] = Idle
           /\ \A t \in Topic, p \in Partition : ~ HasNext(noteOffset[t][p], t, p)

(* The messages an order that went this way should have had. *)
Story(o) ==
    LET Mail(types) == types \X {"email"}
        Urgent(types) == types \X {"email", "sms"}
        Declined == IF payments[o] # <<>> THEN {"payment.failed"} ELSE {}
    IN  IF o \notin emailed \/ orders[o].status = "none" THEN {}
        ELSE IF orders[o].status = "confirmed"
             THEN Mail({"order.created", "payment.confirmed", "order.confirmed"})
             ELSE Mail({"order.created"}) \cup Urgent({"order.cancelled"} \cup Declined)

(* If nothing failed, in the end the customer has heard the whole story of *)
(* the order that the tables tell, no message twice and none that belongs  *)
(* to the other outcome (handler.go:9-11, 28-71, handler_test.go:36-45).   *)
StoryIsTold ==
    (AllTold /\ faults = 0) => \A o \in Order :
        /\ { <<told[o][i].type, told[o][i].channel>> : i \in DOMAIN told[o] } = Story(o)
        /\ Len(told[o]) = Cardinality(Story(o))

IsOutcome(e) == e.type \in {"order.confirmed", "order.cancelled"}

HasReceipt(o) == \E j \in DOMAIN told[o] : told[o][j].type = "order.created"

(* The consumer read the order's order.created and is about to tell of it. *)
TellsReceipt(n, o) ==
    /\ notify[n].pc = "email"
    /\ notify[n].event.type = "order.created"
    /\ notify[n].event.orderId = o

(* While nothing has failed, a customer who is told the outcome has had    *)
(* "We have your order", or another replica has read it and is about to    *)
(* send it: the outcome may overtake a receipt that is in somebody's       *)
(* hands, never one nobody has read.  Both are on one partition of         *)
(* order.events, but with two replicas (k8s/notification-service.yaml:7)   *)
(* that may go from one to the other in between.  So with one replica the  *)
(* receipt comes first, whatever the other topics bring meanwhile          *)
(* (main.go:46-52, order-service kafka.go:35-40).                          *)
ReceiptIsAhead ==
    [][faults = 0 => \A o \in Order :
          (\E i \in DOMAIN told'[o] \ DOMAIN told[o] : IsOutcome(told'[o][i])) =>
              \/ HasReceipt(o)
              \/ \E n \in Notifier : TellsReceipt(n, o) /\ notify'[n] = notify[n]]_told

(* If nothing fails, every customer who was told the order is placed hears  *)
(* how it ended.                                                           *)
OutcomeIsHeard ==
    [](faults = 0) => \A o \in Order :
        (o \in acknowledged /\ o \in emailed) ~>
            \E i \in DOMAIN told[o] : told[o][i].type \in {"order.confirmed", "order.cancelled"}
=============================================================================
