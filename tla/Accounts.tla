------------------------------- MODULE Accounts -------------------------------
(***************************************************************************)
(* user-service with the two that rely on it: the gateway, which takes the *)
(* customer of an order from the token alone, and notification-service,    *)
(* which welcomes new accounts as it reads user.events.                    *)
(***************************************************************************)
EXTENDS UserService, Notices, FiniteSets

CONSTANT Greeter    \* consumer goroutines of notification-service

VARIABLES placed,        \* customers of the orders the gateway has forwarded
          welcomed,      \* the welcome messages sent, in order
          welcomeRows,   \* the rows of notifications for user.created
          greet,         \* what each consumer is doing
          greetOffset    \* the group's committed offset in user.events

greetVars == <<welcomed, welcomeRows, greet, greetOffset>>
accountVars == <<userVars, placed, greetVars>>

UserCreated == [userId : Signup, email : Email]

Reading == [pc |-> "idle"]

AccountsTypeOK ==
    /\ UserTypeOK
    /\ placed \subseteq UserCreated
    /\ welcomed \in Seq(UserCreated)
    /\ welcomeRows \in Seq(UserCreated)
    /\ greet \in [Greeter -> {Reading} \cup [pc : {"email", "record"}, event : UserCreated]]
    /\ greetOffset \in Nat

AccountsInit ==
    /\ UserInit
    /\ placed = {}
    /\ welcomed = <<>>
    /\ welcomeRows = <<>>
    /\ greet = [n \in Greeter |-> Reading]
    /\ greetOffset = 0

-----------------------------------------------------------------------------
(* jwt.verify accepts what user-service has signed.  A token does not      *)
(* expire here.                                                            *)
requireAuth(t) == t \in tokens

(* POST /orders at the gateway: what the token says of the customer goes   *)
(* into the order.                                                         *)
PlaceOrder(t) ==
    /\ requireAuth(t)
    /\ placed' = placed \cup {[userId |-> t.userId, email |-> t.email]}
    /\ UNCHANGED <<userVars, greetVars>>

(* A read by every consumer on its own, as if they shared no group. *)
GreetReadAgain(n) ==
    /\ greet[n] = Reading
    /\ \E i \in DOMAIN userEvents :
          greet' = [greet EXCEPT ![n] = [pc |-> "email", event |-> userEvents[i]]]
    /\ UNCHANGED <<userVars, placed, welcomed, welcomeRows, greetOffset>>

(* Consumer.Run on user.events: the offset is committed before the handler. *)
GreetRead(n) ==
    /\ greet[n] = Reading
    /\ greetOffset < Len(userEvents)
    /\ greetOffset' = greetOffset + 1
    /\ greet' = [greet EXCEPT ![n] =
                   IF Described("user.created")
                   THEN [pc |-> "email", event |-> userEvents[greetOffset + 1]] ELSE Reading]
    /\ UNCHANGED <<userVars, placed, welcomed, welcomeRows>>

(* The e-mail of Handler.Handle, then its row; welcomes are not urgent.    *)
(* LogNotifier, the only Notifier there is, returns no error.              *)
GreetEmail(n) ==
    /\ greet[n].pc = "email"
    /\ welcomed' = Append(welcomed, greet[n].event)
    /\ greet' = [greet EXCEPT ![n].pc = "record"]
    /\ UNCHANGED <<userVars, placed, welcomeRows, greetOffset>>

GreetRecord(n) ==
    /\ greet[n].pc = "record"
    /\ welcomeRows' = Append(welcomeRows, greet[n].event)
    /\ greet' = [greet EXCEPT ![n] = Reading]
    /\ UNCHANGED <<userVars, placed, welcomed, greetOffset>>

GreetStop(n) ==
    /\ greet[n] # Reading
    /\ UserFails("stop")
    /\ greet' = [greet EXCEPT ![n] = Reading]
    /\ UNCHANGED <<users, signup, userEvents, tokens, placed, welcomed, welcomeRows, greetOffset>>

-----------------------------------------------------------------------------
GreetStep(n) == GreetRead(n) \/ GreetEmail(n) \/ GreetRecord(n)

(* All requests are answered or gone, and every event is read. *)
Served == /\ \A r \in Signup : signup[r].pc \in {"created", "conflict", "failed", "stopped"}
          /\ \A n \in Greeter : greet[n] = Reading
          /\ greetOffset = Len(userEvents)
          /\ UNCHANGED accountVars

AccountsNext ==
    \/ UserNext /\ UNCHANGED <<placed, greetVars>>
    \/ \E t \in Token : PlaceOrder(t)
    \/ \E n \in Greeter : GreetStep(n) \/ GreetStop(n)
    \/ Served

AccountsSpec == AccountsInit /\ [][AccountsNext]_accountVars

(* A request that was sent runs to its end, and notification-service goes  *)
(* on reading.  Nobody has to sign up, log in or order.                    *)
AccountsFairSpec ==
    /\ AccountsSpec
    /\ \A r \in Signup : WF_accountVars(SignupStep(r) /\ UNCHANGED <<placed, greetVars>>)
    /\ \A n \in Greeter : WF_accountVars(GreetStep(n))

-----------------------------------------------------------------------------
(* However many requests for one e-mail race, and whatever fails: a token  *)
(* was given to someone who sent the password of the account it names, and *)
(* the customer of an order is an account with that e-mail                 *)
(* (server.go:70-82, 86-102, auth.ts:19-33, routes.ts:53-65).              *)
CustomersAreAccounts ==
    /\ \A t \in tokens : \E u \in users :
          u.id = t.userId /\ u.email = t.email /\ checkPassword(u.hash, t.password)
    /\ \A c \in placed : \E u \in users : u.id = c.userId /\ u.email = c.email

(* "The account exists either way" (server.go:76): who got a 201 can log   *)
(* in for good, with the password sent, into the account it was told of,   *)
(* published or not, and whoever else signs up.                            *)
CreatedCanLogIn ==
    \A r \in Signup : signup[r].pc = "created" =>
        \E u \in users : /\ u.email = signup[r].email
                         /\ checkPassword(u.hash, signup[r].password)
                         /\ u.id = r

(* Every welcome goes to the e-mail of an account, and without a write     *)
(* that Kafka repeats no account is welcomed twice, nor is there a row for *)
(* a welcome that was not sent (handler.go:85-94; the row would be written *)
(* after an error of Notify too, but LogNotifier returns none).            *)
WelcomedOnce ==
    /\ \A i \in DOMAIN welcomed : \E u \in users :
          u.id = welcomed[i].userId /\ u.email = welcomed[i].email
    /\ \A i, j \in DOMAIN welcomed : welcomed[i].userId = welcomed[j].userId =>
          \/ i = j
          \/ Cardinality({ k \in DOMAIN userEvents : userEvents[k] = welcomed[i] }) > 1
    /\ \A i \in DOMAIN welcomeRows : \E j \in DOMAIN welcomed : welcomed[j] = welcomeRows[i]

(* If nothing fails every account is welcomed. *)
EveryAccountWelcomed ==
    [](userFaults = 0) => \A r \in Signup :
        (\E u \in users : u.id = r) ~> (\E i \in DOMAIN welcomed : welcomed[i].userId = r)
=============================================================================
