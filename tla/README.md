# Pulse: the order saga in TLA+

Pulse is a small e-commerce backend: five Go services and a TypeScript gateway,
each service with tables of its own, coordinating over Kafka alone. (The tables are
in one Postgres database, `pulsedb` of docker-compose.yml and k8s/config.yaml:20, but
no service reads or locks another's.) An order touches three of the services. There is no
transaction over all three; each does its step, publishes the result, and reacts to what the others publish. This
directory models that saga with its replicas, requests and failures, the
database transactions under it, what customers are told of it, and the accounts
they order with; it checks all of it with TLC and proves with TLAPS, for every
size of the system, every safety property and the steps of both refinements.

Paths below are relative to the repository; `order-service/` stands for
`services/order-service/`, and so on.

## The system

| Component | State | Operations | Talks to |
|---|---|---|---|
| order-service | table `orders` (status pending, confirmed or cancelled) | `POST /orders`, `POST /orders/{id}/cancel`, `GET /orders/{id}`; `Saga.Handle`, `Confirm`, `Cancel` on events | publishes `order.events`; group "order-service" reads `inventory.events`, `payment.events` |
| inventory-service | tables `stock_items` (level, reserved) and `reservations` (active, released) | `Handler.reserve` and `release`, each one transaction; `GET /stock/{productId}` | publishes `inventory.events`; group reads `order.events` |
| payment-service | table `payments`; what the card provider has taken | `Handler.charge`: insert, `Gateway.Charge`, update, publish; `fail` | publishes `payment.events`; group reads `inventory.events` |
| notification-service | table `notifications` | one row and one message per event | group reads all topics; publishes nothing |
| user-service | table `users` | register, log in, get | publishes `user.events` |
| api-gateway | none | checks the JWT and the body, forwards one HTTP call | HTTP to user, order, inventory |
| Kafka | topics, partitions, committed offsets | append, read | external |

The way of an order:

    order.created -> inventory.reserved -> payment.confirmed -> order.confirmed
                  \-> inventory.failed  -> order.cancelled -> inventory.released
                                        \-> payment.failed -> order.cancelled -> ...

and at any time after `order.created` the customer may ask for a cancel, which
runs the same `Saga.Cancel` in an HTTP goroutine.

What is hard here:

- *Interleaving.* Each service runs two replicas (`k8s/*.yaml`, line 7), each
  with a consumer goroutine; order-service also runs a goroutine per request.
  Its group reads two topics, so its two replicas may own one each and work on
  the same order together. `UpdateStatus` overwrites whatever it finds
  (`order-service/db.go:61-64`). Sign-ups for one e-mail race for a `UNIQUE`
  column.
- *Partial failure.* Every handler updates its database and then publishes; one
  can succeed without the other, and errors are only logged (`kafka.go:98-100`).
- *Delivery.* `ReadMessage` on a reader with a group commits the offset before
  it returns (`kafka.go:83`): an event whose handler stops is lost. A `Writer`
  retries a write whose acknowledgement it missed and is not idempotent: an
  event may be appended twice.
- *Rebalancing.* A partition may move to another replica while the first is
  inside a handler.

What makes each correct: order-service records one outcome and announces that
one; inventory-service never promises a unit twice, its counter is the sum of
its active reservations, and a cancelled order holds nothing; payment-service
charges only what was reserved, the stored total, once, with a row; the saga as
a whole is all or nothing, and an acknowledged order settles. `PROJECT.json`
lists the hazards line by line, with the properties that watch each.

## The modules

| Module | Models |
|---|---|
| `OrderItems` | carts: `NewOrder`'s total, `Validate`, what a cart asks of a product |
| `EventBus` | Kafka as the `kafka.go` files use it: topics of partitions, `Publish` by key, a group's `HasNext`/`NextEvent`, and the bounded supply of faults |
| `OrderService` | order-service |
| `StockLedger` | what the tables of inventory-service promise: reserve and release in single steps |
| `InventoryService` | inventory-service's consumer over `StockLedger` |
| `PaymentService` | payment-service with `MockGateway` |
| `Pulse` | the three over one broker: `Spec`, `FairSpec`, the properties of the saga |
| `OrderLifecycle` | abstract: what the saga promises of one order nobody cancels |
| `PulseLifecycle` | `Pulse` as an implementation of `OrderLifecycle` |
| `StockLookup` | `GET /stock/{productId}` over `StockLedger`, with the narrowing to int32 |
| `InventoryTx` | `ReserveOrder` and `ReleaseOrder` statement by statement in concurrent Postgres transactions; implements `StockLedger` |
| `Notices` | `describe` of notification-service: which events have a message, and by which channels |
| `NotificationService` | notification-service on the saga's three topics |
| `PulseNotify` | `Pulse` with notification-service reading along |
| `UserService` | user-service: sign-up and log-in |
| `Accounts` | user-service with notification-service on `user.events` and the gateway's `POST /orders` |
| `MCPulse`, `MCInventoryTx`, `MCPulseNotify`, `MCAccounts` | carts, stock levels, partitioners and symmetry for TLC |
| `OrderItemsProofs` | sums over finite sets, and what they say of carts |
| `PulseProofs` | `Pulse`: types, `Provenance` and what follows from it |
| `TurnProofs` | one handler at a time: nobody is charged twice, consumers keep a confirmed order |
| `TablesProofs` | the tables of stock, reservations, payments and charges agree |
| `LifecycleProofs` | `Pulse` implements `OrderLifecycle`, is all or nothing, and bills each order once |
| `NotifyProofs` | `PulseNotify`: what customers are told |
| `InventoryTxProofs` | `InventoryTx` implements `StockLedger`; the counter and the lookup |
| `AccountsProofs` | `Accounts` |

Each service module EXTENDS `EventBus`, declares its tables, its goroutines
(`task`, `inv`, `pay`, `notify`: a program counter with the values the handler
carries) and its group's offsets, and ends in its next-state relation. `Pulse`
EXTENDS the three of the saga; a step of the system is a step of one service
with the others' variables unchanged, the topics being what they share.
`PulseNotify` adds notification-service to that: it reads what the three
publish, one turn of `Consumer.Run` at a time, from whichever topic, and nobody
waits for it. user-service takes no part in the saga; `Accounts` composes it
with its own two partners.

**Two refinements.**

- `PulseLifecycle!Stage` reads off the tables of the three services how far an
  order is: its status in `orders`, what it holds in `reservations`, whether the
  card was charged. Under this mapping `Pulse` without customers who cancel and
  without events published twice implements `OrderLifecycle!Spec`, stops and
  database errors included; if nothing fails it also implements its fairness
  (`NoneStopsHalfWay`). The steps are proved (`SagaKeepsToLifecycle`), the
  fairness is only checked. A step of `Pulse` that moves no order to another stage,
  such as a publish, is a stutter. No service has this state machine: it is what
  three services' tables add up to.
- `InventoryTx!Ledger` maps the committed rows to `StockLedger`. That the
  transactions implement it (`ImplementsLedger`) is what allows
  `InventoryService` to take a whole transaction as one step; it is proved
  (`TransactionsKeepLedger`). It holds as long
  as a release does not overlap a reserve of the same order (`Overlapping` is
  empty; a rebalance can make them overlap, which in `InventoryService` is the
  run `replicas_overlap`). Two releases of an order may overlap: the second waits
  for the rows of the first and then finds them released. The transactions of
  other orders overlap in every way. When two wait for each other Postgres fails
  one of them: a reserve is then reported as refused, and a release is lost
  (`release_deadlocked`); `StockLedger` allows both, as a ledger step that does
  not happen, and `InventoryService` has them as the fault `dberror`.

**Grain of atomicity.** One action per database call or transaction, per gateway
call and per publish. `SagaConfirm` and `SagaCancel` take the `FindByID` and the
`UpdateStatus` of saga.go as one step: the row's id and total, all they use of
what they read, never change, and `UpdateStatus` depends on nothing read.
`CancelOrder` is different: the status it reads decides, so the check is one step
and the cancel another. `ReserveOrder` and `ReleaseOrder` are one step each in
`InventoryService`; in `InventoryTx` a step is the statements about one item or
product, which touch the row the first of them locks. `PayRead`, `InvRead` and
`SagaRead` advance the offset and hand over the event in one step, which is what
`ReadMessage` does. `PayCharge` separates what the provider took (`charges`) from
what the table says (`payments`). notification-service sends the e-mail, sends
the SMS and inserts the row in three steps. A sign-up inserts, then publishes;
`signup` remembers its answer.

**Faults** (`EventBus!Fault`), each use counted against `MaxFaults`:

- `stop`: a handler ends where it is, and nothing is undone: the process dies,
  the request's context is cancelled, or the broker refuses the event. After a
  completed database step it also stands for a statement that took effect and
  reported an error, and right after a read for a `ReadMessage` whose commit failed.
- `duplicate`: an event is appended and its writer is still publishing it.
- `dberror`: a database call fails. For a refused `Commit` of a reservation both
  outcomes are possible (`InvReserveError`). payment-service only logs a failed
  `UpdateStatus` (`PayRecord`), but gives up on a failed insert
  (`PayInsertError`).

`UserService` has the same kinds under its own bound `MaxUserFaults`, and
`unpublished`: the broker refuses user.created, which `Register` only logs. Its
`dberror` is an insert that fails, with or without effect. In `InventoryTx`,
`Failing` lets any transaction be rolled back at any statement.

**What is abstracted.** Ids of users in orders, reasons, transaction ids, names
and timestamps; of an order's e-mail address, all but whether it is there
(`emailed`); of messages, all but the event, the channel and the total in the
text; the expiry of tokens; passwords bcrypt cannot tell apart are one, and
`hashPassword` keeps of a password what `checkPassword` compares; the JSON
encoding (fields an event does not carry are `<<>>` or 0, as they decode); order
ids are the keys of the tables, each used once, as `uuid.NewString` gives them. Money is in integer cents where the code has
float64, and quantities in carts are unbounded where it has int32 (no sum of
them exceeds a stock level, by `NeverOversold`, so none wraps); the quantity of
a stock lookup does wrap, and `StockLookup` narrows it. Rows of `reservations`
are sums per order, product and status in `StockLedger`, as the code never tells
two rows of one order and status apart, and rows in `InventoryTx`.
The in-memory retry of a publish, retention of topics and malformed messages
are left out.

## The runs

| Run | Module, instance | Shows |
|---|---|---|
| `atomic` | `MCPulse`, `FairSpec`: 2 orders, 4 carts, 2 units, 2 replicas of each service, one stop or database error anywhere, no cancels | `TypeOK`, `SagaAtomicity`, `OutcomeAnnounced`, `NoDoubleCharge`, `ChargeHasRow`, `ImplementsLifecycle`, `NoneStopsHalfWay` |
| `customer_cancel` | `MCPulse`, `FairSpec`: 2 orders for 1 unit, 2 partitions, 2 replicas of order-service, one order cancelled at any time, no faults | `CancelledHoldsNoStock`, `ConfirmedUndoneOnlyByCustomer`, `EveryOrderSettles`, `CancelReleasesStock` |
| `faults` | `MCPulse`, `Spec`: 2 orders, 2 units, 2 inventory replicas, one fault of any kind, duplicates among them | `LedgerExact`, `NeverOversold`, `ConfirmedWasPaid`, `ChargedAmountIsTotal`, `ChargedWasReserved`, `ChargedOncePerEvent`, `ReleasedWasCancelled`, `Provenance` |
| `transactions` | `MCInventoryTx`, `TxFairSpec`: 2 sessions, 2 orders of the same 2 products in either order, 1 reserve and 2 releases of each, any statement may fail | `TxTypeOK`, `CounterIsSumOfRows`, `LookupAgrees`, `ImplementsLedger`, `EveryTransactionEnds` |
| `notify` | `MCPulseNotify`, `ReadersSpec`: 1 order with or without an e-mail address, 4 carts, 2 partitions, one fault of any kind anywhere; 1 notification consumer or 2, with 2 no duplicates | `NotificationTypeOK`, `ToldIsSo`, `ToldOncePerEvent`, `StoryIsTold`, `ReceiptIsAhead`, `OutcomeIsHeard` |
| `accounts` | `MCAccounts`, `AccountsFairSpec`: 2 sign-ups for any of 2 e-mails with any of 3 passwords (one too long for bcrypt), logins, orders, 2 notification consumers, two faults | `AccountsTypeOK`, `CustomersAreAccounts`, `CreatedCanLogIn`, `WelcomedOnce`, `EveryAccountWelcomed` |

What is said of systems in which nothing fails has `faults = 0` as a premise
(`[](faults = 0)` where it is temporal), so that one run can ask it together with
what holds whatever fails.

*Deadlock* is checked in all runs but those of `MCInventoryTx`. In the others the
only state in which nothing goes on is one with every handler returned and every
topic read, where `Waiting` or `Served` stutters; a handler stuck half-way would be
reported. In `InventoryTx` the bounded supply of calls runs out, and a
transaction that is stuck is what `EveryTransactionEnds` excludes.

*Bounds.* Two orders are what it takes for one to get what the other needs, two
replicas for an overlap; an order's events never depend on a third order except
through the stock, which the second exhausts already. The carts are: one that
succeeds, one above the decline limit, two lines of one product (each fits, both
together need all the stock), a negative quantity, and in `notify` and
`transactions` an unknown product. `DeclineOver` is 50, between the two prices.
One partition is what Kafka creates by default and the stricter case for offsets;
`customer_cancel` and `notify` have two, so that events of different orders, or of
one order under another balancer, have no order. `MaxFaults` is one: every
consequence of a single failure is reached. The runs are separated by question
because all of it together (duplicates, cancels, every replica doubled) has too
many states. `SYMMETRY` permutes replicas, requests and orders in `faults`; runs
with temporal properties have none. In `transactions` two products locked in
either order are what a deadlock takes, and two releases of one order what it takes
to give a row back twice; reserving an order twice is in `faults`. Integers have
4 bits there, and lookups ask for 0, 1, all there is, one more, the greatest of 4
bits and a number that wraps. In `notify` one order suffices: nothing a customer is
told depends on another's. `ReadersSpec` is `NotifyFairSpec` with one bound:
each behaviour has the two consumers k8s/notification-service.yaml deploys or only one
of them, and only one if an event is written twice; duplicates read by two have too
many states, and are left to the theorems. Two sign-ups are enough for one to lose.

*Fairness.* Weak fairness of each consumer's turn and of each request in flight,
never of a request's arrival or of a fault. It is what Go's scheduler and calls
that return give: `Consumer.Run` is an endless loop whose every branch goes on. No
fairness is put on the choice of a partition or topic within a turn; all are
drained because events are finite. `TxFairSpec` has weak fairness of each session's next
statement: a statement waits only for a lock, and Postgres looks for deadlocks
(`DeadlockDetected` is a step like the others). Nothing makes a transaction begin or a
statement fail.

Six runs end in a counterexample, each against something the repository says:

| Run | What the repository says | What the code does |
|---|---|---|
| `cancel_overwritten` | `CancelOrder` cancels (server.go:99); an order ends up confirmed or cancelled (order.go:9) | `Confirm` overwrites `cancelled`; the order is confirmed with its stock released |
| `failure_unanswered` | if a step fails, order.cancelled is published (saga.go:13, README.md:65) | a failed insert of a payment is only logged; the order stays pending |
| `cancel_lost` | Kafka delivers at least once (README.md:70), the stock is put back | the offset is committed first; a stopped release is never retried |
| `charged_and_cancelled` | "You have not been charged." (notification-service/handler.go:51) | a charged order can be cancelled, nothing is paid back |
| `replicas_overlap` | inventory-service puts the stock back (README.md:66) | after a rebalance the release may run before the reservation commits |
| `release_deadlocked` | `ReleaseOrder` gives back everything reserved (inventory-service/db.go:100) | it can be the victim of a deadlock with a reserve; the event is not read again and the stock stays held |

`CancelledHoldsNoStock` thus holds in `customer_cancel` exactly because that run
has one inventory consumer and no faults; `cancel_lost` and `replicas_overlap` say
what each of these assumptions is worth.

The models show four smaller differences that no run is spent on:

- `Saga.Cancel` does not look at the status, so a decline and a customer's cancel
  that overlap publish order.cancelled twice, against order_test.go:67. The stock
  stays right (`LedgerExact`, `CancelReleasesStock`); the customer is told twice.
- An urgent message goes out twice and has one row, for the e-mail
  (notification-service/handler.go:88-94), against db.go:9-10.
- `Register` answers any error of the insert with 409 "email already registered"
  (user-service/server.go:70-72; `InsertError`), also for an e-mail nobody has.
- `LookupAgrees` stops at the greatest int32 because the code does: a greater
  quantity wraps (inventory-service/server.go:28; `Narrow`), to a negative or a
  small number, and may be reported as available.

Mutants: each property of a passing run has a variant of one definition,
written beside it (`CreateOrderUnchecked`, `InvHandleNoCancel`,
`PayStopRedelivered`, `ReserveItemUnlocked`, `ConflictGoesOn`, ...), under which
TLC finds the property violated.

## The proofs

What TLC checks on small instances, TLAPS proves for every set of orders, carts,
products, replicas, sessions, sign-ups and partitions, every stock and limit, and
any number of faults. The third column is all a theorem assumes beyond the types of the
constants.

| Theorem | Says | For |
|---|---|---|
| `TypeCorrect` | `Spec => []TypeOK` | all |
| `ProvenanceHolds` | `Spec => []Provenance` | all |
| `ConfirmedOnlyIfPaid` | `Spec => []ConfirmedWasPaid` | all |
| `ChargedOnlyTheTotal` | `Spec => []ChargedAmountIsTotal` | all |
| `ChargedOnlyIfReserved` | `Spec => []ChargedWasReserved` | all |
| `NobodyChargedTwice` | `Spec => []NoDoubleCharge` | no event is written twice |
| `ConsumersKeepConfirmed` | `Spec => ConfirmedUndoneOnlyByCustomer` | no event is written twice |
| `StockIsNotOversold` | `Spec => []NeverOversold` | all |
| `OnlyCancelledIsReleased` | `Spec => []ReleasedWasCancelled` | all |
| `CounterIsTheSum` | `Spec => []LedgerExact` | finitely many orders |
| `ChargesHaveRows` | `Spec => []ChargeHasRow` | all |
| `ChargesHaveEvents` | `Spec => []ChargedOncePerEvent` | all |
| `CancelledIsReleased` | `Spec => []CancelledHoldsNoStock` | one inventory consumer, no faults |
| `SagaKeepsToLifecycle` | `Spec => ImplementsLifecycle` | no event is written twice, nobody cancels |
| `SagaIsAtomic` | `Spec => []SagaAtomicity` | nobody cancels |
| `OutcomeIsAnnounced` | `Spec => []OutcomeAnnounced` | nobody cancels |
| `NotificationTypeCorrect` | `NotifySpec => []NotificationTypeOK` | all |
| `CustomersAreToldTheTruth` | `NotifySpec => []ToldIsSo` | all |
| `CustomersAreToldOnce` | `NotifySpec => []ToldOncePerEvent` | all |
| `ReceiptStaysAhead` | `NotifySpec => ReceiptIsAhead` | all |
| `CustomersHearTheStory` | `NotifySpec => []StoryIsTold` | nobody cancels |
| `TxTypeCorrect` | `TxSpec => []TxTypeOK` | all |
| `CounterSumsUpRows` | `TxSpec => []CounterIsSumOfRows` | finitely many orders |
| `LookupTellsRows` | `TxSpec => []LookupAgrees` | finitely many orders |
| `TransactionsKeepLedger` | `TxSpec => ImplementsLedger` | finitely many orders, no release overlaps a reserve of its order |
| `AccountsTypeCorrect` | `AccountsSpec => []AccountsTypeOK` | all |
| `CustomersHaveAccounts` | `AccountsSpec => []CustomersAreAccounts` | all |
| `CreatedAccountsWork` | `AccountsSpec => []CreatedCanLogIn` | all |
| `WelcomesAreSound` | `AccountsSpec => []WelcomedOnce` | all |

*Assumptions.* Those on constants are named and evaluated by TLC in every run of
their modules. They are types, but for three: `HandlerAssumption`, that consumers
and requests of order-service are different goroutines; `CartAssumption`, that the
lines of a cart have integers for quantities and prices; and `WidthAssumption`, that
2^w is twice 2^(w-1), which the provers, who have no powers, cannot see. The
hypotheses of single theorems are needed:

- *No event is written twice.* With one `duplicate`, TLC finds a double charge, a
  confirmed order that a second `payment.failed` cancels, and an order that leaves the
  lifecycle. What survives duplicates is `ChargesHaveEvents`: one charge for each
  time the event was written.
- *Nobody cancels*: `charged_and_cancelled` and `cancel_overwritten`. A customer who
  cancels a paid order also hears of both, which is no story of `StoryIsTold`.
- *One inventory consumer, no faults*: `replicas_overlap` and `cancel_lost`.
- *No release overlaps a reserve of its order*: what `replicas_overlap` shows of
  the saga. Releases that overlap each other, and all transactions of
  different orders, are allowed.
- *Finitely many orders*: a sum over them must have a value.

`SagaAtomicity`, `OutcomeAnnounced`, `ReceiptIsAhead` and `StoryIsTold` speak of systems in
which nothing has failed so far; that is the premise `faults = 0` inside the
properties, and not an assumption on what may fail.

*Sums* (`OrderItemsProofs`). A cart's total, what it asks of a product, the units an
order holds and the units in the rows are all folds of the community modules, which
take the elements of a set in an unknown order. Induction over their definition is
not possible with an operator as parameter; instead, in a family of subsets of a
finite set there is a smallest one (`SmallestSet`), which gives induction one element
at a time (`OneByOne`) with a set in the role of the predicate. From it: a sum
over a set with one element more, over two disjoint sets, of two functions added, and
with one summand changed; so a valid cart's total is a natural number (`TotalIsNat`)
and it asks for a positive number of exactly the products it names
(`DemandIsWanted`).

*Provenance* (`PulseProofs`). `TypeOK` is inductive. `ConfirmedWasPaid` is not: the
step that confirms an order knows of the charge only through an event published
long before. `Provenance` says what every event vouches for, in each of the places it
passes: about to be published in a handler, in a topic, in the handler that read it.
An `order.created` carries the stored items and total; an `inventory.reserved` carries
the stored total, and the order's demand is covered by its reservations, active or
released; a `payment.confirmed` means there is a charge. None of these facts is ever
undone (`Grows`, `VouchedStays`): an order's items and total never change once stored,
charges only grow, and what has been reserved, active and released together, only
grows. So a topic that is vouched for stays so (`LogStaysVouched`,
`PublishStaysVouched`), whatever is lost, delayed or written twice, and each service's
steps are treated by themselves.

*Turns* (`TurnProofs`). No service knows that it is alone with an order, but it is:
at any time an order is up to one handler, at one point of it, or to one event
that its group has not read yet. `OneTurn` says there is at most one such place and
`TurnFits` that the order is not confirmed, and charged exactly if to confirm it is
what is next. A publish moves the turn from a handler to an event, a read from the event
to a handler, a stop ends it; the steps that touch no turn keep all of them. A customer's
cancel takes no turn: it is exactly what `ConfirmedUndoneOnlyByCustomer` exempts. The
inductive invariant is `TurnInv`: `TypeOK`, `Provenance`, which outcome each event
may carry, offsets within the topics, and `OneSaga`.

*Tables* (`TablesProofs`). `NeverOversold` is inductive with `TypeOK`: what `CanReserve`
compares is what `ReserveOrder` adds, and `GREATEST` stops a release at zero. That it
never has to stop there is `LedgerExact`: the counter is the sum over all orders of
what each holds, and a release takes away one summand of it. For `ReleasedWasCancelled`
the strengthening is that a consumer about to release an order read its
`order.cancelled`, and that topics only grow. The provider's charges do not say which
row or event they belong to; so `RowInv` says that *there is* a set of rows, one
for each charge, and outside it a row of its own for each handler between insert
and charge, and `EventInv` the same for the events read. For
`CancelledHoldsNoStock` the invariant is that `order.created` is before
`order.cancelled` on the one partition of an order (`BegunInv`) and there once
(`BeginsOnce`): when the one consumer has read the cancel it is past the
reservation, so the order holds nothing or the consumer is about to release it
(`CancelledGivesBack`).

*Lifecycle* (`LifecycleProofs`). The stage is spread over the tables of three services,
which nobody reads together. `StageInv` says that whoever has the turn of an order knows its
stage: to reserve, nothing is held; to charge or to confirm, all is held; and the order
is pending in any case. So a step of `Pulse` that moves a table does so from the stage `OrderLifecycle`
wants, in all its disjuncts, and any other step is a stutter. Stops only end turns, so
this holds whatever stops. `SagaAtomicity` needs the converse, `NothingLost`: while
nothing has failed, an order not settled *has* a turn, a settled one has had its
outcome said exactly once, and a cancelled one that holds something has an unread
`order.cancelled`. At rest there are no turns and nothing unread, which leaves the
settled cases.

*Notifications* (`NotifyProofs`). notification-service never looks at the tables, so
what it says is right because events are true when written (`Sound`, more of what
`Provenance` says: what confirmations carry) and stay true while it lags behind.
`ToldOncePerEvent` counts: there is a set of events read, one for each message of a type
and channel, and apart from it one more for each consumer that is about to send
(`OnceInv`); no event is read twice, so it fits into those published. For
`ReceiptIsAhead`, an order's `order.created` is before its outcome on its partition, so
the group has read it when it reads the outcome; and what was read is told, or in the
hands of a consumer, who is not the one that sends the outcome (`ReceiptInv`).
`StoryIsTold` says at rest, and of an order the tables tell of, exactly what its
customer has heard. Three invariants carry it, each for as long as nothing has failed.
`HeardInv`, the converse of `OnceInv`: each event before an offset has been told of on
all its channels, or a consumer is about to. `BilledOnce` (`LifecycleProofs`): an order
whose turn has not come to its payment has no row of `payments`, and from then on
there is one place, in payment-service or in its topic, from which its customer hears of the
payment. `CalmInv` joins these with what says that an order has one `order.created` and
one outcome. At rest all offsets are at the ends, so that what was published was told
(`PublishedIsTold`); `TellsOne` counts it, with `OnceInv` for the upper bound; and
`StoryOfHappened` compares what was published with the tables.

The attempt at this proof found a mistake in the model: `Story` was a `CASE` whose guards
overlapped for a confirmed order, which TLC reads from the top and TLA+ does not. It
is nested now, and the runs say what they said before.

*Transactions* (`InventoryTxProofs`). `AllSoFar` says of every transaction that
it has locked what it has changed, so the committed value is what it was when it was
compared; that what a reserve adds to a product is what the items it has done ask for,
and fits; and that the rows a release works on are active and locked, hence nobody
else's. A commit then keeps the counters equal to the sums of the active rows, however
statements interleave, fail or are rolled back as victims of a deadlock. For the
refinement, `Alone` adds that no reserve and release of an order are under way at once, so
that a release found all the rows its order has: a reserve's commit is `ReserveOrder`
of the ledger, a release's is `ReleaseOrder`, and every other step leaves what is
committed alone. `LookupAgrees` follows from the counter being the sum, and from a
number below the width being itself after `Narrow`.

*Accounts* (`AccountsProofs`). A row of `users` is never changed or deleted, is of the
request that made it, and is there before anything speaks of it: the event, the token,
the order, the welcome (`RowsOfSignups`, `Known`). That of two sign-ups for one e-mail
one loses is the `UNIQUE` column, a guard of the insert; that each welcome answers an
event of its own is a pair of functions from welcomes and consumers to events, without
a value in common (`AnsweredOnce`).

*Only model-checked:*

- Liveness (`NoneStopsHalfWay`, `EveryOrderSettles`, `CancelReleasesStock`,
  `EveryTransactionEnds`, `OutcomeIsHeard`, `EveryAccountWelcomed`): it rests on
  fairness, and what is enabled is out of the provers' reach.
- The six disagreements, which are about single behaviours.

## Not modelled

- The read-only lookups `GetOrder` and `GetUser`, health checks, configuration,
  Dockerfiles, manifests (they give the number of replicas and partitions).
- Most of api-gateway: it keeps no state; each route checks the shape of a body
  and forwards one HTTP call to a handler modelled here, whose status it passes
  on. `Accounts` has the one thing others rely on, that the customer of an order
  comes from the token.
- `scripts/seed_data.sh`, which resets a system that is being set up.
- Malformed messages, which nobody publishes, and the broker's retention.
- Expiry of tokens: nothing depends on when it happens.

## Plan

All components with state are modelled, and each safety and action property that a
passing run checks is stated by a theorem. What is left to prove:

- Weaker hypotheses. `CancelledIsReleased` assumes that nothing fails; what
  payment-service fails to do should not matter to it, but the model's count of faults
  does not tell the services apart. `SagaKeepsToLifecycle`, `SagaIsAtomic` and
  `OutcomeIsAnnounced` assume that nobody cancels; they should hold of each order its own
  customer does not cancel, whatever others do.
- The composition of the two levels of stock. `Pulse` takes `ReserveOrder` and
  `ReleaseOrder` as single steps, as `TransactionsKeepLedger` justifies for
  inventory-service by itself; a saga over `InventoryTx` is not stated.
