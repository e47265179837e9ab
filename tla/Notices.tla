------------------------------- MODULE Notices -------------------------------
(***************************************************************************)
(* What notification-service tells a customer about an event: describe of  *)
(* handler.go, the wording left out.                                       *)
(***************************************************************************)

(* describe without its case for order.cancelled. *)
DescribedNoCancel(type) ==
    type \in {"user.created", "order.created", "order.confirmed",
              "payment.confirmed", "payment.failed"}

(* describe without its case for user.created. *)
DescribedNoWelcome(type) ==
    type \in {"order.created", "order.confirmed", "order.cancelled",
              "payment.confirmed", "payment.failed"}

(* The events that have a message.  The others are between the services. *)
Described(type) ==
    type \in {"user.created", "order.created", "order.confirmed", "order.cancelled",
              "payment.confirmed", "payment.failed"}

(* Every event by e-mail alone. *)
EmailOnly(type) == {"email"}

(* How the message goes out: urgent ones also by SMS. *)
Channels(type) ==
    IF type \in {"order.cancelled", "payment.failed"} THEN {"email", "sms"} ELSE {"email"}
=============================================================================
