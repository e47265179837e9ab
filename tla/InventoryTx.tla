----------------------------- MODULE InventoryTx -----------------------------
(***************************************************************************)
(* ReserveOrder and ReleaseOrder of inventory-service, statement by        *)
(* statement, in concurrent Postgres transactions at READ COMMITTED: row   *)
(* locks, writes nobody else sees before the commit, and the deadlocks     *)
(* Postgres resolves by failing a transaction.  The isolation level and    *)
(* the detection of deadlocks are Postgres' defaults, which nothing in the *)
(* repository changes.                                                     *)
(***************************************************************************)
EXTENDS OrderItems, SequencesExt

CONSTANTS StockLevel,   \* how many units of each product exist
          Session,      \* database sessions, one for each consumer
          NoSession,    \* the holder of a row nobody has locked
          MaxReserves,  \* bound on the reserves of each order
          MaxReleases,  \* bound on its releases
          Overlapping,  \* the orders that a rebalance may give two consumers
                        \* at once, so that a release may overlap a reserve
          Failing,      \* whether statements fail, and their transaction with them
          Asked,        \* the products and quantities that GET /stock is asked for
          Width         \* bits of an int32

ASSUME TxAssumption == /\ StockLevel \in [Product -> Nat]
                       /\ NoSession \notin Session
                       /\ MaxReserves \in Nat /\ MaxReleases \in Nat
                       /\ Overlapping \subseteq Order
                       /\ Failing \in BOOLEAN
                       /\ \A ask \in Asked : ask.quantity \in Int
                       /\ \A p \in Product : StockLevel[p] < 2 ^ (Width - 1)

(* Half of what Width bits count is left to an int32's positive numbers:   *)
(* arithmetic, of any number of bits.                                      *)
ASSUME WidthAssumption == /\ Width \in Nat \ {0}
                          /\ 2 ^ (Width - 1) \in Nat \ {0}
                          /\ 2 ^ Width = 2 * 2 ^ (Width - 1)

VARIABLES stock,      \* stock_items.reserved as committed, by product
          rows,       \* reservations as committed: the rows of each order
          stockLock,  \* the session that has locked a row of stock_items
          rowsLock,   \* the session that has locked active rows of an order
          tx,         \* the transaction each session is in
          cart,       \* the items of each order, as its order.created has them
          calls       \* how often each order has been reserved and released

txVars == <<stock, rows, stockLock, rowsLock, tx, cart, calls>>

Row == [product : Product, quantity : Nat \ {0}, status : {"active", "released"}]

NoTx == [pc |-> "none"]

TxTypeOK ==
    /\ stock \in [Product -> Int]
    /\ \A o \in Order : rows[o] \in Seq(Row)
    /\ stockLock \in [Product -> Session \cup {NoSession}]
    /\ rowsLock \in [Order -> Session \cup {NoSession}]
    /\ \A s \in Session : tx[s] # NoTx =>
          /\ tx[s].pc \in {"reserve", "rows", "release"}
          /\ tx[s].taken \subseteq DOMAIN rows[tx[s].order]
          /\ tx[s].delta \in [Product -> Int]
    /\ calls \in [Order -> [reserve : 0..MaxReserves, release : 0..MaxReleases]]

(* The orders' items, nobody having validated them. *)
CartsUnchecked == [Order -> Cart]

(* The items order.created may bring. *)
Carts == [Order -> ValidCart]

TxInit ==
    /\ stock = [p \in Product |-> 0]
    /\ rows = [o \in Order |-> <<>>]
    /\ stockLock = [p \in Product |-> NoSession]
    /\ rowsLock = [o \in Order |-> NoSession]
    /\ tx = [s \in Session |-> NoTx]
    /\ cart \in Carts
    /\ calls = [o \in Order |-> [reserve |-> 0, release |-> 0]]

-----------------------------------------------------------------------------
(* The rows of an order with this status, and the units of p in rows R.    *)
WithStatus(o, status) == { i \in DOMAIN rows[o] : rows[o][i].status = status }
Units(o, p, R) ==
    SumFunction([i \in R |-> IF rows[o][i].product = p THEN rows[o][i].quantity ELSE 0])

Reserving(s, o) == tx[s].pc = "reserve" /\ tx[s].order = o
Releasing(s, o) == tx[s].pc \in {"rows", "release"} /\ tx[s].order = o

(* What a transaction has changed so far (delta, of stock_items; taken, of *)
(* reservations) and the items or products it has yet to change.           *)
Begin(s, pc, o, todo, taken) ==
    /\ tx[s] = NoTx
    /\ tx' = [tx EXCEPT ![s] = [pc |-> pc, order |-> o, todo |-> todo, taken |-> taken,
                                delta |-> [p \in Product |-> 0]]]
    /\ UNCHANGED <<stock, rows, stockLock, rowsLock, cart>>

(* The end of a transaction without defer tx.Rollback. *)
EndLocked(s) == /\ tx' = [tx EXCEPT ![s] = NoTx]
                /\ UNCHANGED <<stockLock, rowsLock>>

(* A transaction ends, by Commit or by the deferred Rollback, and its      *)
(* session holds no locks any more.                                        *)
End(s) ==
    /\ tx' = [tx EXCEPT ![s] = NoTx]
    /\ stockLock' = [p \in Product |-> IF stockLock[p] = s THEN NoSession ELSE stockLock[p]]
    /\ rowsLock' = [o \in Order |-> IF rowsLock[o] = s THEN NoSession ELSE rowsLock[o]]

Rollback(s) == End(s) /\ UNCHANGED <<stock, rows, cart, calls>>

(* The next statements are about this item or product.  They wait for      *)
(* whoever has locked its row, then go by the latest committed version and *)
(* what the transaction itself has written.                                *)
Target(s) == tx[s].todo[1]
Current(s) == stock[Target(s).product] + tx[s].delta[Target(s).product]
MayLock(s) == stockLock[Target(s).product] \in {NoSession, s}

Write(s, change) ==
    tx' = [tx EXCEPT ![s].delta[Target(s).product] = @ + change, ![s].todo = Tail(@)]
LockAndWrite(s, change) ==
    /\ MayLock(s)
    /\ stockLock' = [stockLock EXCEPT ![Target(s).product] = s]
    /\ Write(s, change)
    /\ UNCHANGED <<stock, rows, rowsLock, cart, calls>>

-----------------------------------------------------------------------------
BeginReserve(s, o) ==
    /\ calls[o].reserve < MaxReserves
    /\ o \in Overlapping \/ \A t \in Session : ~ Releasing(t, o)
    /\ Begin(s, "reserve", o, cart[o], {})
    /\ calls' = [calls EXCEPT ![o].reserve = @ + 1]

Enough(s) == Target(s).quantity <= StockLevel[Target(s).product] - Current(s)

(* The statements for one item, if SELECT were not FOR UPDATE. *)
ReserveItemUnlocked(s) ==
    /\ tx[s].pc = "reserve" /\ tx[s].todo # <<>>
    /\ Target(s).product \in Product
    /\ Enough(s)
    /\ Write(s, Target(s).quantity)
    /\ UNCHANGED <<stock, rows, stockLock, rowsLock, cart, calls>>

(* SELECT ... FOR UPDATE, the check, INSERT and UPDATE for one item: the   *)
(* latter two touch nothing that is not locked already.                    *)
ReserveItem(s) ==
    /\ tx[s].pc = "reserve" /\ tx[s].todo # <<>>
    /\ Target(s).product \in Product
    /\ Enough(s)
    /\ LockAndWrite(s, Target(s).quantity)

(* The product is unknown, or short once its row is locked. *)
RefuseItem(s) ==
    /\ tx[s].pc = "reserve" /\ tx[s].todo # <<>>
    /\ Target(s).product \in Product => MayLock(s) /\ ~ Enough(s)
    /\ Rollback(s)

(* The rows the transaction has inserted become visible, with its writes.  *)
CommitReserve(s) ==
    /\ tx[s].pc = "reserve" /\ tx[s].todo = <<>>
    /\ stock' = [p \in Product |-> stock[p] + tx[s].delta[p]]
    /\ LET o == tx[s].order
           Inserted(item) == [product |-> item.product, quantity |-> item.quantity,
                              status |-> "active"]
       IN  rows' = [rows EXCEPT ![o] = @ \o [i \in DOMAIN cart[o] |-> Inserted(cart[o][i])]]
    /\ End(s)
    /\ UNCHANGED <<cart, calls>>

-----------------------------------------------------------------------------
(* UPDATE reservations finds the rows that are active when it starts. *)
BeginRelease(s, o) ==
    /\ calls[o].release < MaxReleases
    /\ o \in Overlapping \/ \A t \in Session : ~ Reserving(t, o)
    /\ Begin(s, "rows", o, <<>>, WithStatus(o, "active"))
    /\ calls' = [calls EXCEPT ![o].release = @ + 1]

(* Whether or not another transaction has released them meanwhile. *)
FoundRows(s) == tx[s].taken

(* Those it has to wait for are checked again: they must still be active.  *)
StillActive(s) == tx[s].taken \cap WithStatus(tx[s].order, "active")

(* It locks and returns them.  Of two releases of one order the later one  *)
(* has found every row of the other that is still active, and both take    *)
(* them in the order of the index: one lock stands for all of them.  Then  *)
(* their products are given back, in the order of a Go map: any.           *)
LockRows(s) ==
    /\ tx[s].pc = "rows"
    /\ LET o == tx[s].order
           taken == StillActive(s)
           released == { [product |-> p, quantity |-> Units(o, p, taken)] :
                            p \in { rows[o][i].product : i \in taken } }
       IN  /\ taken # {} => rowsLock[o] \in {NoSession, s}
           /\ rowsLock' = IF taken = {} THEN rowsLock ELSE [rowsLock EXCEPT ![o] = s]
           /\ \E todo \in SetToSeqs(released) :
                 tx' = [tx EXCEPT ![s].pc = "release", ![s].taken = taken, ![s].todo = todo]
    /\ UNCHANGED <<stock, rows, stockLock, cart, calls>>

(* UPDATE stock_items for one product: GREATEST(0, reserved - quantity). *)
GiveBack(s) ==
    /\ tx[s].pc = "release" /\ tx[s].todo # <<>>
    /\ LET quantity == Target(s).quantity IN
           LockAndWrite(s, IF quantity < Current(s) THEN 0 - quantity ELSE 0 - Current(s))

CommitRelease(s) ==
    /\ tx[s].pc = "release" /\ tx[s].todo = <<>>
    /\ stock' = [p \in Product |-> stock[p] + tx[s].delta[p]]
    /\ rows' = [rows EXCEPT ![tx[s].order] =
                  [i \in DOMAIN @ |-> IF i \in tx[s].taken
                                      THEN [@[i] EXCEPT !.status = "released"]
                                      ELSE @[i]]]
    /\ End(s)
    /\ UNCHANGED <<cart, calls>>

-----------------------------------------------------------------------------
(* s waits for a row that t has locked. *)
WaitsFor(s, t) ==
    /\ s # t
    /\ \/ /\ tx[s].pc \in {"reserve", "release"} /\ tx[s].todo # <<>>
          /\ Target(s).product \in Product
          /\ stockLock[Target(s).product] = t
       \/ /\ tx[s].pc = "rows" /\ StillActive(s) # {}
          /\ rowsLock[tx[s].order] = t

(* Postgres fails one of a cycle of sessions that wait for each other,     *)
(* whichever notices first.  A reserve is then reported as refused, a      *)
(* release comes to nothing.                                               *)
DeadlockDetected(s) ==
    /\ \E cycle \in SUBSET Session :
          /\ s \in cycle
          /\ \A t \in cycle : /\ \E u \in cycle : WaitsFor(t, u)
                              /\ \E u \in cycle : WaitsFor(u, t)
    /\ Rollback(s)

(* A statement fails, or the process dies: so does the transaction. *)
TxFail(s) == Failing /\ tx[s] # NoTx /\ Rollback(s)

SessionStep(s) ==
    \/ ReserveItem(s) \/ RefuseItem(s) \/ CommitReserve(s)
    \/ LockRows(s) \/ GiveBack(s) \/ CommitRelease(s)
    \/ DeadlockDetected(s)

TxNext ==
    \E s \in Session :
        \/ \E o \in Order : BeginReserve(s, o) \/ BeginRelease(s, o)
        \/ SessionStep(s)
        \/ TxFail(s)

TxSpec == TxInit /\ [][TxNext]_txVars

(* Sessions run and locks are handed on.  Nothing makes a transaction      *)
(* begin or a statement fail.                                              *)
TxFairSpec == TxSpec /\ \A s \in Session : WF_txVars(SessionStep(s))

-----------------------------------------------------------------------------
(* Reserves and releases of single steps, as StockLedger and               *)
(* InventoryService have them, are what the transactions amount to: an     *)
(* order gets all its items or none, from stock that nobody else takes     *)
(* between the check and the commit, and gives back all it holds           *)
(* (db.go:51-53, 100-103).                                                 *)
Ledger == INSTANCE StockLookup WITH
    reserved <- stock,
    reservations <- [o \in Order |->
        [active   |-> [p \in Product |-> Units(o, p, WithStatus(o, "active"))],
         released |-> [p \in Product |-> Units(o, p, WithStatus(o, "released"))]]]

ImplementsLedger == Ledger!LedgerSpec

(* The counter is the sum of the committed active rows, whatever overlaps: *)
(* two releases of one order never give back the same row (db.go:100-113). *)
CounterIsSumOfRows ==
    \A p \in Product :
        stock[p] = SumFunction([o \in Order |-> Units(o, p, WithStatus(o, "active"))])

(* For every quantity an int32 can hold, the lookup agrees with the rows:   *)
(* a product has that many units if what the active ones leave is enough,  *)
(* those of unfinished transactions not counted; it is refused for no      *)
(* quantity, and for products without a row (server.go:20-41).             *)
LookupAgrees ==
    \A ask \in Asked :
        ask.quantity <= Ledger!MaxNarrow =>
            Ledger!CheckStock(ask.product, ask.quantity).available =
                /\ ask.quantity > 0
                /\ ask.product \in Product
                /\ ask.quantity + SumFunction([o \in Order |->
                        Units(o, ask.product, WithStatus(o, "active"))])
                     <= StockLevel[ask.product]

(* Every transaction ends: whatever the carts and the map make it wait     *)
(* for, locks are given up in the end (db.go:60, 109).                     *)
EveryTransactionEnds == \A s \in Session : tx[s] # NoTx ~> tx[s] = NoTx

(* "ReleaseOrder gives back everything reserved for an order" (db.go:100): *)
(* when it returns, no row that it found active is active.                 *)
ReleaseGivesBack ==
    [][\A s \in Session : \A o \in Order :
          (Releasing(s, o) /\ tx'[s] = NoTx) =>
              \A i \in tx[s].taken : rows'[o][i].status = "released"]_txVars
=============================================================================
