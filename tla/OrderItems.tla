----------------------------- MODULE OrderItems -----------------------------
(***************************************************************************)
(* The item lists of orders, which order-service totals and validates and  *)
(* inventory-service reserves.  An item is a record of product, quantity   *)
(* and unitPrice, in cents.                                                *)
(***************************************************************************)
EXTENDS Integers, Sequences, Functions

CONSTANTS Order,     \* order ids
          Cart,      \* the item lists a customer may post
          Product    \* the products inventory-service knows

(* NewOrder's total. *)
Total(items) ==
    SumFunction([i \in DOMAIN items |-> items[i].quantity * items[i].unitPrice])

(* Order.Validate; user and product ids that must not be empty are left out. *)
Validate(items) == /\ items # <<>>
                   /\ \A i \in DOMAIN items : /\ items[i].quantity > 0
                                              /\ items[i].unitPrice >= 0

(* The lists that reach a table or an event. *)
ValidCart == { items \in Cart : Validate(items) }

(* What the items of an order ask of product p in all. *)
Demand(items, p) ==
    SumFunction([i \in DOMAIN items |->
                    IF items[i].product = p THEN items[i].quantity ELSE 0])

(* The products they name, whether or not they exist. *)
Wanted(items) == { items[i].product : i \in DOMAIN items }

(* A cart is a list, and its numbers are numbers. *)
ASSUME CartAssumption ==
    \A items \in Cart : /\ items \in Seq(Range(items))
                        /\ \A i \in DOMAIN items : /\ items[i].quantity \in Int
                                                   /\ items[i].unitPrice \in Int
=============================================================================
