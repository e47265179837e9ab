----------------------------- MODULE StockLedger -----------------------------
(***************************************************************************)
(* What the tables of inventory-service promise: units of each product     *)
(* that orders hold.  An order reserves all its items or none, and gives   *)
(* back all it holds, each in a single step.                               *)
(***************************************************************************)
EXTENDS OrderItems

CONSTANT StockLevel     \* how many units of each product exist

ASSUME StockAssumption == StockLevel \in [Product -> Nat]

VARIABLES reserved,     \* stock_items.reserved, by product
          reservations  \* the quantities in the rows of reservations, by order,
                        \* status (active or released) and product

ledgerVars == <<reserved, reservations>>

LedgerTypeOK ==
    /\ reserved \in [Product -> Int]
    /\ reservations \in [Order -> [active : [Product -> Nat], released : [Product -> Nat]]]

NoUnits == [p \in Product |-> 0]

LedgerInit ==
    /\ reserved = NoUnits
    /\ reservations = [o \in Order |-> [active |-> NoUnits, released |-> NoUnits]]

-----------------------------------------------------------------------------
Available(p) == StockLevel[p] - reserved[p]

(* Every line checked against the committed row, as if it were the first. *)
CanReserveEachLine(items) ==
    \A i \in DOMAIN items : /\ items[i].product \in Product
                            /\ items[i].quantity <= Available(items[i].product)

(* The items are checked one after the other, each against what the        *)
(* transaction has already taken for the items before it; the first one    *)
(* that fails rolls everything back.                                       *)
CanReserve(items) == /\ Wanted(items) \subseteq Product
                     /\ \A p \in Wanted(items) : Demand(items, p) <= Available(p)

(* The effect of a committed ReserveOrder.  It does not look for earlier   *)
(* reservations of the same order.                                         *)
ReserveOrder(o, items) ==
    /\ reserved' = [p \in Product |-> reserved[p] + Demand(items, p)]
    /\ reservations' = [reservations EXCEPT ![o].active =
                          [p \in Product |-> @[p] + Demand(items, p)]]

(* ReleaseOrder without its condition on the status of the rows. *)
ReleaseEveryRow(o) ==
    LET row == reservations[o]
        all == [p \in Product |-> row.released[p] + row.active[p]]
    IN  /\ reservations' = [reservations EXCEPT ![o] = [active |-> NoUnits, released |-> all]]
        /\ reserved' = [p \in Product |-> IF all[p] < reserved[p] THEN reserved[p] - all[p] ELSE 0]

(* The effect of a committed ReleaseOrder: the active rows become          *)
(* released, and reserved goes down by their sum, never below zero.        *)
ReleaseOrder(o) ==
    LET row == reservations[o] IN
      /\ reservations' = [reservations EXCEPT ![o] =
           [active   |-> NoUnits,
            released |-> [p \in Product |-> row.released[p] + row.active[p]]]]
      /\ reserved' = [p \in Product |-> IF row.active[p] < reserved[p]
                                        THEN reserved[p] - row.active[p]
                                        ELSE 0]

-----------------------------------------------------------------------------
LedgerNext ==
    \E o \in Order :
        \/ \E items \in ValidCart : CanReserve(items) /\ ReserveOrder(o, items)
        \/ ReleaseOrder(o)

LedgerSpec == LedgerInit /\ [][LedgerNext]_ledgerVars
=============================================================================
