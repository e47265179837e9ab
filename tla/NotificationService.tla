------------------------- MODULE NotificationService -------------------------
(***************************************************************************)
(* notification-service, as far as orders go: its consumer of the saga's   *)
(* topics, the messages customers get, and the table notifications.  Its   *)
(* fourth topic, user.events, is in Accounts.                              *)
(***************************************************************************)
EXTENDS EventBus, Notices

CONSTANT Notifier     \* consumer goroutines of the group "notification-service"

VARIABLES emailed,      \* the orders posted with an e-mail address, which their
                        \* events carry
          told,         \* what each order's customer was sent, in order
          notices,      \* the rows of notifications for each order
          notify,       \* what each consumer is doing
          noteOffset    \* the group's committed offset, by topic and partition

noteVars == <<emailed, told, notices, notify, noteOffset>>

(* A message: about which event, and the total its text gives, if any. *)
Notice == [type : EventType, channel : {"email", "sms"}, total : Nat]
NewNotice(e, channel) == [type |-> e.type, channel |-> channel, total |-> e.total]

NotifyTask == {Idle} \cup [pc : {"email", "sms", "record"}, event : Event]

NotificationTypeOK ==
    /\ emailed \subseteq Order
    /\ told \in [Order -> Seq(Notice)]
    /\ notices \in [Order -> Seq(Notice)]
    /\ notify \in [Notifier -> NotifyTask]
    /\ noteOffset \in [Topic -> [Partition -> Nat]]

NotificationInit ==
    /\ emailed \in SUBSET Order
    /\ told = [o \in Order |-> <<>>]
    /\ notices = [o \in Order |-> <<>>]
    /\ notify = [n \in Notifier |-> Idle]
    /\ noteOffset = [t \in Topic |-> [p \in Partition |-> 0]]

-----------------------------------------------------------------------------
(* Handler.Handle up to its first call: nothing is done about an event     *)
(* that has no message or no address.                                      *)
NoteHandle(e) == IF Described(e.type) /\ e.orderId \in emailed
                 THEN [pc |-> "email", event |-> e]
                 ELSE Idle

(* A consumer that starts at the beginning of its topics, as if it had no  *)
(* group: what another replica has read it reads too.                      *)
NoteReadAgain(n, t, p) ==
    /\ notify[n] = Idle
    /\ \E i \in DOMAIN log[t][p] :
          notify' = [notify EXCEPT ![n] = NoteHandle(log[t][p][i])]
    /\ UNCHANGED <<busVars, emailed, told, notices, noteOffset>>

(* One turn of Consumer.Run: the offset is committed before the handler. *)
NoteRead(n, t, p) ==
    /\ notify[n] = Idle
    /\ HasNext(noteOffset[t][p], t, p)
    /\ noteOffset' = [noteOffset EXCEPT ![t][p] = @ + 1]
    /\ notify' = [notify EXCEPT ![n] = NoteHandle(NextEvent(noteOffset[t][p], t, p))]
    /\ UNCHANGED <<busVars, emailed, told, notices>>

Send(e, channel) ==
    told' = [told EXCEPT ![e.orderId] = Append(@, NewNotice(e, channel))]

(* Notify by e-mail, and by SMS if the message is urgent.  An error of     *)
(* either is only logged; LogNotifier never returns one.                   *)
NoteEmail(n) ==
    /\ notify[n].pc = "email"
    /\ Send(notify[n].event, "email")
    /\ notify' = [notify EXCEPT ![n].pc =
                    IF "sms" \in Channels(notify[n].event.type) THEN "sms" ELSE "record"]
    /\ UNCHANGED <<busVars, emailed, notices, noteOffset>>

NoteSMS(n) ==
    /\ notify[n].pc = "sms"
    /\ Send(notify[n].event, "sms")
    /\ notify' = [notify EXCEPT ![n].pc = "record"]
    /\ UNCHANGED <<busVars, emailed, notices, noteOffset>>

(* One row, for the e-mail. *)
NoteRecord(n) ==
    /\ notify[n].pc = "record"
    /\ LET e == notify[n].event IN
         notices' = [notices EXCEPT ![e.orderId] = Append(@, NewNotice(e, "email"))]
    /\ notify' = [notify EXCEPT ![n] = Idle]
    /\ UNCHANGED <<busVars, emailed, told, noteOffset>>

(* The insert fails, or the process dies: the event is not read again. *)
NoteStop(n) ==
    /\ notify[n] # Idle
    /\ Fault("stop") \/ (notify[n].pc = "record" /\ Fault("dberror"))
    /\ notify' = [notify EXCEPT ![n] = Idle]
    /\ UNCHANGED <<log, emailed, told, notices, noteOffset>>

-----------------------------------------------------------------------------
NotifierStep(n) ==
    \/ \E t \in Topic, p \in Partition : NoteRead(n, t, p)
    \/ NoteEmail(n)
    \/ NoteSMS(n)
    \/ NoteRecord(n)

NotificationNext == \E n \in Notifier : NotifierStep(n) \/ NoteStop(n)
=============================================================================
