---------------------------- MODULE AccountsProofs ----------------------------
(***************************************************************************)
(* Theorems about Accounts, for every set of e-mails, passwords, requests  *)
(* and consumers, and any number of faults.                                *)
(*                                                                         *)
(* The argument: a row of users is never changed or deleted, and it is     *)
(* there before anything speaks of it: the event, the token, the order and *)
(* the welcome.  A welcome answers one event of the topic, and no event is *)
(* read twice.                                                             *)
(***************************************************************************)
EXTENDS Accounts, FiniteSetTheorems, SequenceTheorems, TLAPS

(* A password that goes to the database has been hashed. *)
Hashed == \A r \in Signup : signup[r].pc = "insert" => signup[r].password \notin TooLong

(* The account of an event, a token or an order. *)
HasAccount(c) == \E u \in users : u.id = c.userId /\ u.email = c.email

(* A row is of the request that made it, and a request that has gone past  *)
(* its insert has its row.                                                 *)
RowsOfSignups ==
    /\ \A u \in users : signup[u.id] # NotSent /\ u = NewUser(u.id)
    /\ \A r \in Signup : signup[r].pc \in {"publish", "created"} => NewUser(r) \in users

(* Whatever speaks of an account speaks of one that exists. *)
Known ==
    /\ \A t \in tokens : \E u \in users :
          u.id = t.userId /\ u.email = t.email /\ checkPassword(u.hash, t.password)
    /\ \A c \in placed : HasAccount(c)
    /\ \A k \in DOMAIN userEvents : HasAccount(userEvents[k])
    /\ \A n \in Greeter : greet[n].pc \in {"email", "record"} => HasAccount(greet[n].event)
    /\ \A i \in DOMAIN welcomed : HasAccount(welcomed[i])
    /\ \A n \in Greeter : greet[n].pc = "record" =>
          \E i \in DOMAIN welcomed : welcomed[i] = greet[n].event
    /\ \A i \in DOMAIN welcomeRows : \E j \in DOMAIN welcomed : welcomed[j] = welcomeRows[i]

(* f and g tell which event of the topic each welcome answers, and each    *)
(* consumer that is about to send one: no two the same.                    *)
Answers(f, g) ==
    /\ f \in [DOMAIN welcomed -> DOMAIN userEvents]
    /\ g \in [Greeter -> Nat]
    /\ \A i \in DOMAIN welcomed : f[i] <= greetOffset /\ userEvents[f[i]] = welcomed[i]
    /\ \A n \in Greeter : greet[n].pc = "email" =>
          g[n] \in 1..greetOffset /\ userEvents[g[n]] = greet[n].event
    /\ \A i, j \in DOMAIN welcomed : f[i] = f[j] => i = j
    /\ \A n, m \in Greeter : greet[n].pc = "email" /\ greet[m].pc = "email" =>
          (g[n] = g[m] => n = m)
    /\ \A i \in DOMAIN welcomed, n \in Greeter : greet[n].pc = "email" => f[i] # g[n]

AnsweredOnce == greetOffset <= Len(userEvents) /\ \E f, g : Answers(f, g)

-----------------------------------------------------------------------------
(* Type correctness. *)

LEMMA NewUserIsTyped ==
    ASSUME UserTypeOK, Hashed, NEW r \in Signup, signup[r].pc = "insert"
    PROVE  NewUser(r) \in User
<1>1. signup[r].email \in Email /\ signup[r].password \in Password \ TooLong
  BY DEF UserTypeOK, SignupTask, NotSent, Hashed
<1> QED
  BY <1>1 DEF NewUser, User

(* The fields of a request under way, and what Go does to it. *)
LEMMA SignupFields ==
    ASSUME UserTypeOK, NEW r \in Signup, signup[r].pc # "new"
    PROVE  /\ signup[r].email \in Email
           /\ signup[r].password \in Password
           /\ [userId |-> r, email |-> signup[r].email] \in UserCreated
BY DEF UserTypeOK, SignupTask, NotSent, UserCreated

LEMMA GoIsTyped ==
    ASSUME UserTypeOK, NEW r \in Signup, signup[r].pc # "new",
           NEW pc \in {"publish", "created", "conflict", "failed", "stopped"}, Go(r, pc)
    PROVE  signup' \in [Signup -> SignupTask]
BY DEF UserTypeOK, SignupTask, NotSent, Go

LEMMA UserFaultIsTyped ==
    ASSUME UserTypeOK, NEW k, UserFails(k)
    PROVE  userFaults' \in 0..MaxUserFaults
BY UserFaultAssumption DEF UserTypeOK, UserFails

LEMMA AnnounceIsTyped ==
    ASSUME UserTypeOK, NEW r \in Signup, signup[r].pc # "new", Announce(r)
    PROVE  userEvents' \in Seq(UserCreated)
BY SignupFields, AppendProperties DEF UserTypeOK, UserCreated, Announce

LEMMA UserTypeStep ==
    ASSUME UserTypeOK, Hashed, UserNext
    PROVE  UserTypeOK' /\ Hashed'
<1>1. ASSUME NEW r \in Signup, NEW email \in Email, NEW password \in Password,
             Register(r, email, password)
      PROVE  UserTypeOK' /\ Hashed'
  <2>1. signup' \in [Signup -> SignupTask]
    BY <1>1 DEF Register, UserTypeOK, SignupTask
  <2>2. Hashed'
    BY <1>1 DEF Register, UserTypeOK, Hashed
  <2> QED
    BY <1>1, <2>1, <2>2 DEF Register, UserTypeOK
<1>2. ASSUME NEW r \in Signup, NEW pc \in {"publish", "created", "conflict", "failed", "stopped"},
             signup[r].pc # "new", Go(r, pc)
      PROVE  signup' \in [Signup -> SignupTask] /\ Hashed'
  <2>1. signup' \in [Signup -> SignupTask]
    BY <1>2, GoIsTyped
  <2>2. signup'[r].pc = pc /\ \A q \in Signup \ {r} : signup'[q] = signup[q]
    BY <1>2, SignupFields DEF UserTypeOK, SignupTask, NotSent, Go
  <2> QED
    BY <2>1, <2>2 DEF Hashed
<1>3. ASSUME NEW r \in Signup, InsertUser(r) \/ Conflict(r)
      PROVE  UserTypeOK' /\ Hashed'
  <2>1. signup[r].pc = "insert" /\ users' \subseteq users \cup {NewUser(r)}
    BY <1>3 DEF InsertUser, Conflict
  <2>2. users' \subseteq User
    BY <2>1, NewUserIsTyped DEF UserTypeOK
  <2>3. signup' \in [Signup -> SignupTask] /\ Hashed'
    BY <1>2, <1>3, <2>1 DEF InsertUser, Conflict
  <2> QED
    BY <1>3, <2>2, <2>3 DEF InsertUser, Conflict, UserTypeOK
<1>4. ASSUME NEW r \in Signup, InsertError(r)
      PROVE  UserTypeOK' /\ Hashed'
  BY <1>2, <1>4, NewUserIsTyped, UserFaultIsTyped DEF InsertError, UserTypeOK
<1>5. ASSUME NEW r \in Signup, PublishUserCreated(r)
      PROVE  UserTypeOK' /\ Hashed'
  <2>1. signup[r].pc = "publish"
    BY <1>5 DEF PublishUserCreated
  <2>2. NewToken(NewUser(r), signup[r].password) \in Token
    BY <2>1, SignupFields DEF NewToken, NewUser, Token
  <2>3. userEvents' \in Seq(UserCreated) /\ userFaults' \in 0..MaxUserFaults
    BY <1>5, <2>1, AnnounceIsTyped, UserFaultIsTyped
    DEF PublishUserCreated, UserTypeOK, UserCreated
  <2> QED
    BY <1>2, <1>5, <2>1, <2>2, <2>3 DEF PublishUserCreated, UserTypeOK, UserCreated
<1>6. ASSUME NEW r \in Signup, PublishAgain(r)
      PROVE  UserTypeOK' /\ Hashed'
  BY <1>6, AnnounceIsTyped, UserFaultIsTyped
  DEF PublishAgain, UserTypeOK, UserCreated, Hashed
<1>7. ASSUME NEW r \in Signup, RegisterStop(r)
      PROVE  UserTypeOK' /\ Hashed'
  BY <1>2, <1>7, UserFaultIsTyped DEF RegisterStop, UserTypeOK
<1>8. ASSUME NEW email \in Email, NEW password \in Password, Login(email, password)
      PROVE  UserTypeOK' /\ Hashed'
  <2>1. PICK u \in users : tokens' = tokens \cup {NewToken(u, password)}
    BY <1>8 DEF Login, FindByEmail
  <2>2. NewToken(u, password) \in Token
    BY DEF NewToken, Token, UserTypeOK, User
  <2> QED
    BY <1>8, <2>1, <2>2 DEF Login, UserTypeOK, Hashed
<1> QED
  BY <1>1, <1>3, <1>4, <1>5, <1>6, <1>7, <1>8 DEF UserNext, SignupStep

LEMMA GreetTypeStep ==
    ASSUME AccountsTypeOK, NEW n \in Greeter, GreetStep(n) \/ GreetStop(n)
    PROVE  AccountsTypeOK'
<1> DEFINE GreetTask == {Reading} \cup [pc : {"email", "record"}, event : UserCreated]
<1>1. greet[n].pc # "idle" => greet[n].event \in UserCreated
  BY DEF AccountsTypeOK, Reading
<1>2. CASE GreetRead(n)
  <2>1. greetOffset + 1 \in 1..Len(userEvents)
    BY <1>2 DEF GreetRead, AccountsTypeOK, UserTypeOK
  <2>2. userEvents[greetOffset + 1] \in UserCreated
    BY <2>1, ElementOfSeq DEF AccountsTypeOK, UserTypeOK, UserCreated
  <2>3. greet' \in [Greeter -> GreetTask]
    BY <1>2, <2>2 DEF GreetRead, AccountsTypeOK
  <2> QED
    BY <1>2, <2>3 DEF GreetRead, AccountsTypeOK, UserTypeOK, userVars
<1>3. CASE GreetEmail(n)
  <2>1. welcomed' \in Seq(UserCreated)
    BY <1>1, <1>3, AppendProperties DEF GreetEmail, AccountsTypeOK
  <2>2. greet' \in [Greeter -> GreetTask]
    <3>1. greet[n] \in [pc : {"email", "record"}, event : UserCreated]
      BY <1>3 DEF GreetEmail, AccountsTypeOK, Reading
    <3>2. [greet[n] EXCEPT !.pc = "record"] \in [pc : {"email", "record"}, event : UserCreated]
      BY <3>1
    <3> QED
      BY <1>3, <3>2 DEF GreetEmail, AccountsTypeOK
  <2> QED
    BY <1>3, <2>1, <2>2 DEF GreetEmail, AccountsTypeOK, UserTypeOK, userVars
<1>4. CASE GreetRecord(n)
  <2>1. welcomeRows' \in Seq(UserCreated)
    BY <1>1, <1>4, AppendProperties DEF GreetRecord, AccountsTypeOK
  <2> QED
    BY <1>4, <2>1 DEF GreetRecord, AccountsTypeOK, UserTypeOK, userVars
<1>5. CASE GreetStop(n)
  <2>1. userFaults' \in 0..MaxUserFaults
    BY <1>5, UserFaultIsTyped DEF GreetStop, AccountsTypeOK
  <2> QED
    BY <1>5, <2>1 DEF GreetStop, AccountsTypeOK, UserTypeOK
<1> QED
  BY <1>2, <1>3, <1>4, <1>5 DEF GreetStep

Typed == AccountsTypeOK /\ Hashed

LEMMA TypedStep == Typed /\ [AccountsNext]_accountVars => Typed'
<1> SUFFICES ASSUME Typed, [AccountsNext]_accountVars PROVE Typed'
  OBVIOUS
<1> USE DEF Typed
<1>1. CASE UserNext /\ UNCHANGED <<placed, greetVars>>
  BY <1>1, UserTypeStep DEF AccountsTypeOK, greetVars
<1>2. ASSUME NEW t \in Token, PlaceOrder(t)
      PROVE  Typed'
  BY <1>2 DEF PlaceOrder, requireAuth, AccountsTypeOK, UserTypeOK, Hashed, Token,
              UserCreated, userVars, greetVars
<1>3. ASSUME NEW n \in Greeter, GreetStep(n) \/ GreetStop(n)
      PROVE  Typed'
  <2>1. UNCHANGED signup
    BY <1>3 DEF GreetStep, GreetRead, GreetEmail, GreetRecord, GreetStop, userVars
  <2> QED
    BY <1>3, <2>1, GreetTypeStep DEF Hashed
<1>4. CASE UNCHANGED accountVars
  BY <1>4 DEF accountVars, userVars, greetVars, AccountsTypeOK, UserTypeOK, Hashed
<1> QED
  BY <1>1, <1>2, <1>3, <1>4 DEF AccountsNext, Served

LEMMA TypedInit == AccountsInit => Typed
BY UserFaultAssumption
DEF AccountsInit, UserInit, Typed, AccountsTypeOK, UserTypeOK, Hashed, SignupTask, NotSent, Reading

LEMMA AlwaysTyped == AccountsSpec => []Typed
BY TypedInit, TypedStep, PTL DEF AccountsSpec

(* However requests, logins and consumers interleave and whatever fails,   *)
(* every table, token, event and message keeps its type: in particular no  *)
(* row has the hash of a password bcrypt refuses (user.go:18-25,           *)
(* server.go:57-66).                                                       *)
THEOREM AccountsTypeCorrect == AccountsSpec => []AccountsTypeOK
<1>1. Typed => AccountsTypeOK
  BY DEF Typed
<1> QED
  BY <1>1, AlwaysTyped, PTL

-----------------------------------------------------------------------------
(* What is in a sequence stays where it is when something is appended. *)
LEMMA AppendKeeps ==
    ASSUME NEW S, NEW s \in Seq(S), NEW e \in S
    PROVE  /\ DOMAIN Append(s, e) = DOMAIN s \cup {Len(s) + 1}
           /\ DOMAIN s = 1..Len(s) /\ Len(s) \in Nat
           /\ Append(s, e)[Len(s) + 1] = e
           /\ \A k \in DOMAIN s : Append(s, e)[k] = s[k]
<1>1. Len(s) \in Nat /\ DOMAIN s = 1..Len(s)
  BY LenProperties
<1>2. Append(s, e) \in Seq(S) /\ Len(Append(s, e)) = Len(s) + 1
  BY AppendProperties
<1>3. DOMAIN Append(s, e) = 1..(Len(s) + 1)
  BY <1>2, LenProperties
<1>4. Append(s, e)[Len(s) + 1] = e /\ \A k \in 1..Len(s) : Append(s, e)[k] = s[k]
  BY AppendProperties
<1> QED
  BY <1>1, <1>3, <1>4

(* A request keeps the fields it was sent with. *)
LEMMA FieldsStay ==
    ASSUME Typed, UserNext, NEW q \in Signup, signup[q] # NotSent
    PROVE  signup'[q] # NotSent /\ NewUser(q)' = NewUser(q)
<1>0. signup[q].pc # "new" /\ signup \in [Signup -> SignupTask]
  BY DEF Typed, AccountsTypeOK, UserTypeOK, SignupTask, NotSent
<1>1. ASSUME NEW r \in Signup, NEW email \in Email, NEW password \in Password,
             Register(r, email, password)
      PROVE  signup'[q] = signup[q]
  BY <1>0, <1>1 DEF Register
<1>2. ASSUME NEW r \in Signup, NEW pc \in {"publish", "created", "conflict", "stopped"},
             Go(r, pc)
      PROVE  /\ signup'[q].pc # "new"
             /\ signup'[q].email = signup[q].email
             /\ signup'[q].password = signup[q].password
  BY <1>0, <1>2 DEF Go, SignupTask, NotSent
<1>3. \/ UNCHANGED signup
      \/ \E r \in Signup, email \in Email, password \in Password : Register(r, email, password)
      \/ \E r \in Signup, pc \in {"publish", "created", "conflict", "stopped"} : Go(r, pc)
  BY DEF UserNext, SignupStep, InsertUser, Conflict, InsertError, PublishUserCreated,
         PublishAgain, RegisterStop, Login
<1>4. /\ signup'[q].pc # "new"
      /\ signup'[q].email = signup[q].email
      /\ signup'[q].password = signup[q].password
  BY <1>0, <1>1, <1>2, <1>3
<1> QED
  BY <1>4 DEF NotSent, NewUser

(* A sign-up, log-in or fault changes no row that is there, and adds at    *)
(* most the one of a request about to insert.                              *)
LEMMA UsersGrow ==
    ASSUME Typed, RowsOfSignups, UserNext
    PROVE  users \subseteq users' /\ RowsOfSignups'
<1>1. \/ UNCHANGED users
      \/ \E r \in Signup : signup[r].pc = "insert" /\ users' = users \cup {NewUser(r)}
  BY DEF UserNext, SignupStep, Register, InsertUser, Conflict, InsertError,
         PublishUserCreated, PublishAgain, RegisterStop, Login
<1>2. \A q \in Signup : signup[q] # NotSent => signup'[q] # NotSent /\ NewUser(q)' = NewUser(q)
  BY FieldsStay
<1>3. \A r \in Signup : NewUser(r).id = r
  BY DEF NewUser
<1>4. \A u \in users' : u.id \in Signup /\ signup[u.id] # NotSent /\ u = NewUser(u.id)
  <2>1. \A u \in users : u.id \in Signup
    BY DEF Typed, AccountsTypeOK, UserTypeOK, User
  <2> QED
    BY <1>1, <1>3, <2>1 DEF RowsOfSignups, NotSent
<1>5. \A u \in users' : signup'[u.id] # NotSent /\ u = NewUser(u.id)'
  BY <1>2, <1>4
<1>6. ASSUME NEW r \in Signup, signup'[r].pc \in {"publish", "created"}
      PROVE  NewUser(r)' \in users'
  <2>0. signup \in [Signup -> SignupTask]
    BY DEF Typed, AccountsTypeOK, UserTypeOK
  <2>1. CASE signup[r].pc \in {"publish", "created"}
    BY <1>1, <1>2, <2>1 DEF RowsOfSignups, NotSent
  <2>2. CASE signup[r].pc \notin {"publish", "created"}
    <3>1. InsertUser(r)
      <4>1. ASSUME NEW q \in Signup, NEW pc \in {"conflict", "stopped"}, Go(q, pc)
            PROVE  FALSE
        BY <1>6, <2>0, <2>2, <4>1 DEF Go, SignupTask, NotSent
      <4>2. ASSUME NEW q \in Signup, NEW email \in Email, NEW password \in Password,
                   Register(q, email, password)
            PROVE  FALSE
        BY <1>6, <2>0, <2>2, <4>2 DEF Register
      <4>3. ASSUME NEW q \in Signup, q # r, NEW pc, Go(q, pc)
            PROVE  FALSE
        BY <1>6, <2>0, <2>2, <4>3 DEF Go
      <4>4. ~ UNCHANGED signup
        BY <1>6, <2>2
      <4> QED
        BY <2>2, <4>1, <4>2, <4>3, <4>4
        DEF UserNext, SignupStep, InsertUser, Conflict, InsertError, PublishUserCreated,
            PublishAgain, RegisterStop, Login
    <3>2. signup[r] # NotSent /\ NewUser(r) \in users'
      BY <3>1 DEF InsertUser, NotSent
    <3> QED
      BY <1>2, <3>2
  <2> QED
    BY <2>1, <2>2
<1> QED
  BY <1>1, <1>5, <1>6 DEF RowsOfSignups

(* What a request writes to the topic, and whose token it hands out. *)
LEMMA UserSays ==
    ASSUME Typed, RowsOfSignups, UserNext
    PROVE  /\ \/ UNCHANGED userEvents
              \/ \E c \in UserCreated :
                    HasAccount(c) /\ userEvents' = Append(userEvents, c)
           /\ \A t \in tokens' \ tokens : \E u \in users :
                 u.id = t.userId /\ u.email = t.email /\ checkPassword(u.hash, t.password)
<1>1. ASSUME NEW r \in Signup, signup[r].pc = "publish"
      PROVE  /\ NewUser(r) \in users
             /\ [userId |-> r, email |-> signup[r].email] \in UserCreated
             /\ HasAccount([userId |-> r, email |-> signup[r].email])
  <2>1. NewUser(r) \in users
    BY <1>1 DEF RowsOfSignups
  <2>2. [userId |-> r, email |-> signup[r].email] \in UserCreated
    BY <1>1, SignupFields DEF Typed, AccountsTypeOK
  <2> QED
    BY <2>1, <2>2 DEF HasAccount, NewUser
<1>2. ASSUME NEW r \in Signup, PublishUserCreated(r) \/ PublishAgain(r)
      PROVE  \/ UNCHANGED userEvents
             \/ \E c \in UserCreated : HasAccount(c) /\ userEvents' = Append(userEvents, c)
  BY <1>1, <1>2 DEF PublishUserCreated, PublishAgain, Announce
<1>3. \/ UNCHANGED userEvents
      \/ \E r \in Signup : PublishUserCreated(r) \/ PublishAgain(r)
  BY DEF UserNext, SignupStep, Register, InsertUser, Conflict, InsertError, RegisterStop, Login
<1>4. \/ UNCHANGED tokens
      \/ \E r \in Signup : PublishUserCreated(r)
      \/ \E email \in Email, password \in Password : Login(email, password)
  BY DEF UserNext, SignupStep, Register, InsertUser, Conflict, InsertError, PublishAgain,
         RegisterStop
<1>5. ASSUME NEW r \in Signup, PublishUserCreated(r), NEW t \in tokens' \ tokens
      PROVE  \E u \in users :
                u.id = t.userId /\ u.email = t.email /\ checkPassword(u.hash, t.password)
  <2>1. NewUser(r) \in users
    BY <1>1, <1>5 DEF PublishUserCreated
  <2>2. t = NewToken(NewUser(r), signup[r].password)
    BY <1>5 DEF PublishUserCreated
  <2> QED
    BY <2>1, <2>2 DEF NewToken, NewUser, checkPassword
<1>6. ASSUME NEW email \in Email, NEW password \in Password, Login(email, password),
             NEW t \in tokens' \ tokens
      PROVE  \E u \in users :
                u.id = t.userId /\ u.email = t.email /\ checkPassword(u.hash, t.password)
  BY <1>6 DEF Login, FindByEmail, NewToken
<1> QED
  BY <1>2, <1>3, <1>4, <1>5, <1>6

-----------------------------------------------------------------------------
(* Whatever speaks of an account goes on speaking of one that exists. *)

LEMMA UserKnownStep ==
    ASSUME Typed, RowsOfSignups, Known, UserNext, UNCHANGED <<placed, greetVars>>
    PROVE  Known'
<1> USE DEF Known
<1>1. users \subseteq users'
  BY UsersGrow
<1>2. \A c : HasAccount(c) => HasAccount(c)'
  BY <1>1 DEF HasAccount
<1>3. \A t \in tokens' : \E u \in users' :
          u.id = t.userId /\ u.email = t.email /\ checkPassword(u.hash, t.password)
  BY <1>1, UserSays
<1>4. \A k \in DOMAIN userEvents' : HasAccount(userEvents'[k])
  <2>1. userEvents \in Seq(UserCreated)
    BY DEF Typed, AccountsTypeOK, UserTypeOK, UserCreated
  <2>2. CASE UNCHANGED userEvents
    BY <2>2
  <2>3. ASSUME NEW c \in UserCreated, HasAccount(c), userEvents' = Append(userEvents, c)
        PROVE  \A k \in DOMAIN userEvents' : HasAccount(userEvents'[k])
    BY <2>1, <2>3, AppendKeeps
  <2> QED
    BY <2>2, <2>3, UserSays
<1>5. UNCHANGED <<placed, greet, welcomed, welcomeRows>>
  BY DEF greetVars
<1>6. /\ \A k \in DOMAIN userEvents' : HasAccount(userEvents[k])'
      /\ \A c \in placed' : HasAccount(c)'
      /\ \A n \in Greeter : greet'[n].pc \in {"email", "record"} => HasAccount(greet[n].event)'
      /\ \A i \in DOMAIN welcomed' : HasAccount(welcomed[i])'
  BY <1>1, <1>4, <1>5 DEF HasAccount
<1> QED
  BY <1>3, <1>5, <1>6 DEF checkPassword, hashPassword

LEMMA GreetKnownStep ==
    ASSUME Typed, Known, NEW n \in Greeter, GreetStep(n) \/ GreetStop(n)
    PROVE  Known'
<1> USE DEF Known
<1>0. /\ userEvents \in Seq(UserCreated) /\ welcomed \in Seq(UserCreated)
      /\ welcomeRows \in Seq(UserCreated) /\ greetOffset \in Nat
      /\ greet \in [Greeter -> {Reading} \cup [pc : {"email", "record"}, event : UserCreated]]
  BY DEF Typed, AccountsTypeOK, UserTypeOK, UserCreated
<1>1. UNCHANGED <<users, userEvents, tokens, placed>>
  BY DEF GreetStep, GreetRead, GreetEmail, GreetRecord, GreetStop, userVars
<1>2. \A c : HasAccount(c)' <=> HasAccount(c)
  BY <1>1 DEF HasAccount
<1>3. /\ \A t \in tokens' : \E u \in users' :
            u.id = t.userId /\ u.email = t.email /\ checkPassword(u.hash, t.password)
      /\ \A c \in placed' : HasAccount(c)
      /\ \A k \in DOMAIN userEvents' : HasAccount(userEvents'[k])
  BY <1>1
<1>4. /\ \A m \in Greeter : greet'[m].pc \in {"email", "record"} => HasAccount(greet'[m].event)
      /\ \A i \in DOMAIN welcomed' : HasAccount(welcomed'[i])
      /\ \A m \in Greeter : greet'[m].pc = "record" =>
            \E i \in DOMAIN welcomed' : welcomed'[i] = greet'[m].event
      /\ \A i \in DOMAIN welcomeRows' : \E j \in DOMAIN welcomed' : welcomed'[j] = welcomeRows'[i]
  <2>1. CASE GreetRead(n)
    <3>1. greetOffset + 1 \in DOMAIN userEvents
      BY <1>0, <2>1, LenProperties DEF GreetRead
    <3> QED
      BY <1>0, <2>1, <3>1 DEF GreetRead, Reading
  <2>2. CASE GreetEmail(n)
    <3>1. greet[n].event \in UserCreated /\ HasAccount(greet[n].event)
      BY <1>0, <2>2 DEF GreetEmail, Reading
    <3>2. /\ \A i \in DOMAIN welcomed : i \in DOMAIN welcomed' /\ welcomed'[i] = welcomed[i]
          /\ Len(welcomed) + 1 \in DOMAIN welcomed'
          /\ welcomed'[Len(welcomed) + 1] = greet[n].event
          /\ DOMAIN welcomed' = DOMAIN welcomed \cup {Len(welcomed) + 1}
      BY <1>0, <2>2, <3>1, AppendKeeps DEF GreetEmail
    <3>3. greet'[n].event = greet[n].event /\ \A m \in Greeter \ {n} : greet'[m] = greet[m]
      BY <1>0, <2>2 DEF GreetEmail
    <3>4. UNCHANGED welcomeRows
      BY <2>2 DEF GreetEmail
    <3>5. \A i \in DOMAIN welcomed' : HasAccount(welcomed'[i])
      BY <3>1, <3>2
    <3>6. \A m \in Greeter : greet'[m].pc \in {"email", "record"} => HasAccount(greet'[m].event)
      BY <3>1, <3>3
    <3>7. \A m \in Greeter : greet'[m].pc = "record" =>
            \E i \in DOMAIN welcomed' : welcomed'[i] = greet'[m].event
      BY <3>2, <3>3
    <3>8. \A i \in DOMAIN welcomeRows : \E j \in DOMAIN welcomed' : welcomed'[j] = welcomeRows[i]
      BY <3>2
    <3> QED
      BY <3>4, <3>5, <3>6, <3>7, <3>8
  <2>3. CASE GreetRecord(n)
    <3>1. greet[n].event \in UserCreated /\ \E j \in DOMAIN welcomed : welcomed[j] = greet[n].event
      BY <1>0, <2>3 DEF GreetRecord, Reading
    <3>2. \A i \in DOMAIN welcomeRows' :
              \/ welcomeRows'[i] = greet[n].event
              \/ i \in DOMAIN welcomeRows /\ welcomeRows'[i] = welcomeRows[i]
      BY <1>0, <2>3, <3>1, AppendKeeps DEF GreetRecord
    <3>3. UNCHANGED welcomed /\ \A m \in Greeter : greet'[m].pc # "idle" => greet'[m] = greet[m]
      BY <1>0, <2>3 DEF GreetRecord, Reading
    <3>4. \A i \in DOMAIN welcomeRows' : \E j \in DOMAIN welcomed : welcomed[j] = welcomeRows'[i]
      BY <3>1, <3>2
    <3> QED
      BY <3>3, <3>4
  <2>4. CASE GreetStop(n)
    BY <1>0, <2>4 DEF GreetStop, Reading
  <2> QED
    BY <2>1, <2>2, <2>3, <2>4 DEF GreetStep
<1> QED
  BY <1>2, <1>3, <1>4 DEF checkPassword, hashPassword

(* The gateway believes only tokens. *)
LEMMA PlaceKnownStep ==
    ASSUME Typed, Known, NEW t \in Token, PlaceOrder(t)
    PROVE  Known'
<1>1. \E u \in users : u.id = t.userId /\ u.email = t.email
  BY DEF PlaceOrder, requireAuth, Known
<1>2. UNCHANGED <<users, userEvents, tokens, greet, welcomed, welcomeRows>>
  BY DEF PlaceOrder, userVars, greetVars
<1>3. \A c \in placed' : HasAccount(c)
  BY <1>1 DEF PlaceOrder, HasAccount, Known
<1> QED
  BY <1>2, <1>3 DEF Known, HasAccount, checkPassword, hashPassword

-----------------------------------------------------------------------------
(* No event of user.events is answered by two welcomes. *)

LEMMA UserAnswersStep ==
    ASSUME Typed, RowsOfSignups, AnsweredOnce, UserNext, UNCHANGED greetVars
    PROVE  AnsweredOnce'
<1>1. userEvents \in Seq(UserCreated) /\ greetOffset \in Nat
  BY DEF Typed, AccountsTypeOK, UserTypeOK, UserCreated
<1>2. /\ greetOffset <= Len(userEvents')
      /\ DOMAIN userEvents \subseteq DOMAIN userEvents'
      /\ \A k \in DOMAIN userEvents : userEvents'[k] = userEvents[k]
  <2>1. CASE UNCHANGED userEvents
    BY <2>1 DEF AnsweredOnce
  <2>2. ASSUME NEW c \in UserCreated, userEvents' = Append(userEvents, c)
        PROVE  /\ greetOffset <= Len(userEvents')
               /\ DOMAIN userEvents \subseteq DOMAIN userEvents'
               /\ \A k \in DOMAIN userEvents : userEvents'[k] = userEvents[k]
    BY <1>1, <2>2, AppendKeeps, AppendProperties DEF AnsweredOnce
  <2> QED
    BY <2>1, <2>2, UserSays DEF AnsweredOnce
<1>3. PICK f, g : Answers(f, g)
  BY DEF AnsweredOnce
<1>4. \A n \in Greeter : greet[n].pc = "email" => g[n] \in DOMAIN userEvents
  <2>1. 1..greetOffset \subseteq DOMAIN userEvents
    BY <1>1, LenProperties DEF AnsweredOnce
  <2> QED
    BY <1>3, <2>1 DEF Answers
<1>5. Answers(f, g)'
  BY <1>2, <1>3, <1>4 DEF Answers, greetVars
<1> QED
  BY <1>2, <1>5 DEF AnsweredOnce, greetVars

LEMMA GreetAnswersStep ==
    ASSUME Typed, AnsweredOnce, NEW n \in Greeter, GreetStep(n) \/ GreetStop(n)
    PROVE  AnsweredOnce'
<1>0. /\ userEvents \in Seq(UserCreated) /\ welcomed \in Seq(UserCreated) /\ greetOffset \in Nat
      /\ greet \in [Greeter -> {Reading} \cup [pc : {"email", "record"}, event : UserCreated]]
  BY DEF Typed, AccountsTypeOK, UserTypeOK, UserCreated
<1>1. UNCHANGED userEvents
  BY DEF GreetStep, GreetRead, GreetEmail, GreetRecord, GreetStop, userVars
<1>2. PICK f, g : Answers(f, g)
  BY DEF AnsweredOnce
<1>3. CASE GreetRead(n)
  <2>0. PICK h : h = [g EXCEPT ![n] = greetOffset + 1]
    OBVIOUS
  <2>1. /\ greetOffset + 1 \in DOMAIN userEvents /\ greetOffset' = greetOffset + 1
        /\ greetOffset' <= Len(userEvents)
    BY <1>0, <1>3, LenProperties DEF GreetRead
  <2>2. /\ \A m \in Greeter \ {n} : greet'[m] = greet[m] /\ h[m] = g[m]
        /\ h[n] = greetOffset + 1 /\ h \in [Greeter -> Nat]
        /\ greet'[n].pc = "email" => greet'[n].event = userEvents[greetOffset + 1]
    BY <1>0, <1>2, <1>3, <2>0 DEF GreetRead, Reading, Answers
  <2>3. UNCHANGED welcomed
    BY <1>3 DEF GreetRead
  <2>4. /\ \A m \in Greeter \ {n} : greet'[m].pc = "email" => h[m] \in 1..greetOffset
        /\ \A i \in DOMAIN welcomed : f[i] <= greetOffset /\ f[i] \in Nat
    <3>1. \A m \in Greeter \ {n} : greet'[m].pc = "email" => h[m] \in 1..greetOffset
      BY <1>2, <2>2 DEF Answers
    <3>2. \A i \in DOMAIN welcomed : f[i] <= greetOffset /\ f[i] \in DOMAIN userEvents
      BY <1>2 DEF Answers
    <3>3. DOMAIN userEvents \subseteq Nat
      BY <1>0, LenProperties
    <3> QED
      BY <3>1, <3>2, <3>3
  <2>5. Answers(f, h)'
    <3>1. \A i \in DOMAIN welcomed : f[i] <= greetOffset + 1 /\ userEvents[f[i]] = welcomed[i]
      <4>1. \A i \in DOMAIN welcomed : userEvents[f[i]] = welcomed[i]
        BY <1>2 DEF Answers
      <4> QED
        BY <1>0, <2>4, <4>1
    <3>2. \A m \in Greeter : greet'[m].pc = "email" =>
              h[m] \in 1..(greetOffset + 1) /\ userEvents[h[m]] = greet'[m].event
      <4>1. \A m \in Greeter \ {n} : greet'[m].pc = "email" =>
                h[m] \in 1..greetOffset /\ userEvents[h[m]] = greet'[m].event
        BY <1>2, <2>2 DEF Answers
      <4>2. greet'[n].pc = "email" =>
                h[n] \in 1..(greetOffset + 1) /\ userEvents[h[n]] = greet'[n].event
        BY <1>0, <2>2
      <4> QED
        BY <1>0, <4>1, <4>2
    <3>3. \A l, m \in Greeter : greet'[l].pc = "email" /\ greet'[m].pc = "email" =>
              (h[l] = h[m] => l = m)
      <4>1. \A l, m \in Greeter \ {n} : greet'[l].pc = "email" /\ greet'[m].pc = "email" =>
                (h[l] = h[m] => l = m)
        BY <1>2, <2>2 DEF Answers
      <4>2. \A m \in Greeter \ {n} : greet'[m].pc = "email" => h[m] # h[n]
        BY <1>0, <2>2, <2>4
      <4> QED
        BY <4>1, <4>2
    <3>4. \A i \in DOMAIN welcomed, m \in Greeter : greet'[m].pc = "email" => f[i] # h[m]
      <4>1. \A i \in DOMAIN welcomed, m \in Greeter \ {n} : greet'[m].pc = "email" => f[i] # h[m]
        BY <1>2, <2>2 DEF Answers
      <4>2. \A i \in DOMAIN welcomed : f[i] # h[n]
        BY <1>0, <2>2, <2>4
      <4> QED
        BY <4>1, <4>2
    <3>5. f \in [DOMAIN welcomed -> DOMAIN userEvents]
      BY <1>2 DEF Answers
    <3>6. \A i, j \in DOMAIN welcomed : f[i] = f[j] => i = j
      BY <1>2 DEF Answers
    <3> QED
      BY <1>1, <2>1, <2>2, <2>3, <3>1, <3>2, <3>3, <3>4, <3>5, <3>6 DEF Answers
  <2> QED
    BY <1>1, <2>1, <2>5 DEF AnsweredOnce
<1>4. CASE GreetEmail(n)
  <2> DEFINE last == Len(welcomed) + 1
  <2>0. PICK h : h = [i \in DOMAIN welcomed \cup {last} |-> IF i = last THEN g[n] ELSE f[i]]
    OBVIOUS
  <2>1. greet[n].pc = "email" /\ greet[n].event \in UserCreated
    BY <1>0, <1>4 DEF GreetEmail, Reading
  <2>2. /\ DOMAIN welcomed' = DOMAIN welcomed \cup {last} /\ last \notin DOMAIN welcomed
        /\ welcomed'[last] = greet[n].event
        /\ \A i \in DOMAIN welcomed : welcomed'[i] = welcomed[i]
    BY <1>0, <1>4, <2>1, AppendKeeps DEF GreetEmail
  <2>3. /\ greet'[n].pc = "record" /\ UNCHANGED greetOffset
        /\ \A m \in Greeter \ {n} : greet'[m] = greet[m]
    BY <1>0, <1>4 DEF GreetEmail
  <2>4. g[n] \in DOMAIN userEvents
    BY <1>0, <1>2, <2>1, LenProperties DEF AnsweredOnce, Answers
  <2>5. h[last] = g[n] /\ \A i \in DOMAIN welcomed : h[i] = f[i]
    BY <2>0, <2>2
  <2>6. h \in [DOMAIN welcomed' -> DOMAIN userEvents']
    BY <1>1, <1>2, <2>0, <2>2, <2>4 DEF Answers
  <2>7. Answers(h, g)'
    <3>1. \A i \in DOMAIN welcomed' : h[i] <= greetOffset /\ userEvents[h[i]] = welcomed'[i]
      <4>1. g[n] <= greetOffset /\ userEvents[g[n]] = welcomed'[last]
        BY <1>0, <1>2, <2>1, <2>2 DEF Answers
      <4>2. \A i \in DOMAIN welcomed : f[i] <= greetOffset /\ userEvents[f[i]] = welcomed'[i]
        BY <1>2, <2>2 DEF Answers
      <4> HIDE DEF last
      <4> QED
        BY <2>2, <2>5, <4>1, <4>2
    <3>2. \A i, j \in DOMAIN welcomed' : h[i] = h[j] => i = j
      BY <1>2, <2>1, <2>2, <2>5 DEF Answers
    <3>3. \A i \in DOMAIN welcomed', m \in Greeter : greet'[m].pc = "email" => h[i] # g[m]
      BY <1>2, <2>1, <2>2, <2>3, <2>5 DEF Answers
    <3>4. \A m \in Greeter : greet'[m].pc = "email" =>
              g[m] \in 1..greetOffset /\ userEvents[g[m]] = greet'[m].event
      BY <1>2, <2>3 DEF Answers
    <3>5. \A l, m \in Greeter : greet'[l].pc = "email" /\ greet'[m].pc = "email" =>
              (g[l] = g[m] => l = m)
      BY <1>2, <2>3 DEF Answers
    <3>6. g \in [Greeter -> Nat]
      BY <1>2 DEF Answers
    <3> QED
      BY <1>1, <2>3, <2>6, <3>1, <3>2, <3>3, <3>4, <3>5, <3>6 DEF Answers
  <2> QED
    BY <1>1, <2>3, <2>7 DEF AnsweredOnce
<1>5. CASE GreetRecord(n) \/ GreetStop(n)
  <2>1. UNCHANGED <<welcomed, greetOffset>>
    BY <1>5 DEF GreetRecord, GreetStop
  <2>2. \A m \in Greeter : greet'[m].pc = "email" => greet'[m] = greet[m]
    BY <1>0, <1>5 DEF GreetRecord, GreetStop, Reading
  <2>3. Answers(f, g)'
    BY <1>1, <1>2, <2>1, <2>2 DEF Answers
  <2> QED
    BY <1>1, <2>1, <2>3 DEF AnsweredOnce
<1> QED
  BY <1>3, <1>4, <1>5 DEF GreetStep

-----------------------------------------------------------------------------
AccountsInv == Typed /\ RowsOfSignups /\ Known /\ AnsweredOnce

LEMMA AccountsInvInit == AccountsInit => AccountsInv
<1> SUFFICES ASSUME AccountsInit PROVE AccountsInv
  OBVIOUS
<1>1. RowsOfSignups /\ Known
  BY DEF AccountsInit, UserInit, RowsOfSignups, Known, NotSent, Reading
<1>2. Answers(<<>>, [n \in Greeter |-> 0])
  BY DEF AccountsInit, UserInit, Answers, Reading
<1>3. AnsweredOnce
  BY <1>2 DEF AccountsInit, UserInit, AnsweredOnce
<1> QED
  BY <1>1, <1>3, TypedInit DEF AccountsInv

LEMMA AccountsInvStep == AccountsInv /\ [AccountsNext]_accountVars => AccountsInv'
<1> SUFFICES ASSUME AccountsInv, [AccountsNext]_accountVars PROVE AccountsInv'
  OBVIOUS
<1>0. Typed'
  BY TypedStep DEF AccountsInv
<1>1. CASE UserNext /\ UNCHANGED <<placed, greetVars>>
  BY <1>0, <1>1, UsersGrow, UserKnownStep, UserAnswersStep DEF AccountsInv
<1>2. ASSUME NEW t \in Token, PlaceOrder(t)
      PROVE  AccountsInv'
  <2>1. UNCHANGED <<userVars, greetVars>>
    BY <1>2 DEF PlaceOrder
  <2>2. RowsOfSignups' /\ AnsweredOnce'
    BY <2>1 DEF userVars, greetVars, AccountsInv, RowsOfSignups, NewUser, hashPassword,
                AnsweredOnce, Answers
  <2> QED
    BY <1>0, <1>2, <2>2, PlaceKnownStep DEF AccountsInv
<1>3. ASSUME NEW n \in Greeter, GreetStep(n) \/ GreetStop(n)
      PROVE  AccountsInv'
  <2>1. UNCHANGED <<users, signup>>
    BY <1>3 DEF GreetStep, GreetRead, GreetEmail, GreetRecord, GreetStop, userVars
  <2>2. RowsOfSignups'
    BY <2>1 DEF AccountsInv, RowsOfSignups, NewUser, hashPassword
  <2> QED
    BY <1>0, <1>3, <2>2, GreetKnownStep, GreetAnswersStep DEF AccountsInv
<1>4. CASE UNCHANGED accountVars
  <2>1. UNCHANGED <<users, signup, userEvents, tokens, placed, welcomed, welcomeRows, greet, greetOffset>>
    BY <1>4 DEF accountVars, userVars, greetVars
  <2> QED
    BY <1>0, <2>1 DEF AccountsInv, RowsOfSignups, NewUser, hashPassword, checkPassword,
                      Known, HasAccount, AnsweredOnce, Answers
<1> QED
  BY <1>1, <1>2, <1>3, <1>4 DEF AccountsNext, Served

LEMMA AlwaysAccountsInv == AccountsSpec => []AccountsInv
BY AccountsInvInit, AccountsInvStep, PTL DEF AccountsSpec

(* A token or an order names an account that exists, with its e-mail, and   *)
(* a token was given for that account's password, however many requests    *)
(* for one e-mail race (server.go:70-82, 86-102, auth.ts:19-33,            *)
(* routes.ts:53-65).                                                       *)
THEOREM CustomersHaveAccounts == AccountsSpec => []CustomersAreAccounts
<1>1. AccountsInv => CustomersAreAccounts
  BY DEF AccountsInv, Known, HasAccount, CustomersAreAccounts
<1> QED
  BY <1>1, AlwaysAccountsInv, PTL

(* Who was answered 201 can log in for good with the password sent, into   *)
(* the account made for that very request (server.go:76).                  *)
THEOREM CreatedAccountsWork == AccountsSpec => []CreatedCanLogIn
<1>1. AccountsInv => CreatedCanLogIn
  BY DEF AccountsInv, RowsOfSignups, NewUser, checkPassword, CreatedCanLogIn
<1> QED
  BY <1>1, AlwaysAccountsInv, PTL

(* Welcomes go to e-mails of accounts, at most one for each event that is   *)
(* in the topic, and every row is of a welcome sent (handler.go:85-94).    *)
THEOREM WelcomesAreSound == AccountsSpec => []WelcomedOnce
<1>1. ASSUME AccountsInv PROVE WelcomedOnce
  <2> USE <1>1 DEF AccountsInv
  <2>0. userEvents \in Seq(UserCreated) /\ welcomed \in Seq(UserCreated)
    BY DEF Typed, AccountsTypeOK, UserTypeOK, UserCreated
  <2>1. PICK f, g : Answers(f, g)
    BY DEF AnsweredOnce
  <2>2. ASSUME NEW i \in DOMAIN welcomed, NEW j \in DOMAIN welcomed,
               welcomed[i].userId = welcomed[j].userId, i # j
        PROVE  Cardinality({ k \in DOMAIN userEvents : userEvents[k] = welcomed[i] }) > 1
    <3> DEFINE Same == { k \in DOMAIN userEvents : userEvents[k] = welcomed[i] }
    <3>1. welcomed[i].email = welcomed[j].email
      BY <2>2 DEF Known, HasAccount, RowsOfSignups
    <3>2. welcomed[i] \in UserCreated /\ welcomed[j] \in UserCreated
      BY <2>0, ElementOfSeq, LenProperties
    <3>3. welcomed[i] = welcomed[j]
      BY <2>2, <3>1, <3>2 DEF UserCreated
    <3>4. {f[i], f[j]} \subseteq Same /\ f[i] # f[j]
      BY <2>1, <2>2, <3>3 DEF Answers
    <3>5. IsFiniteSet(Same)
      <4>1. IsFiniteSet(1..Len(userEvents)) /\ DOMAIN userEvents = 1..Len(userEvents)
        BY <2>0, LenProperties, FS_Interval
      <4> QED
        BY <4>1, FS_Subset
    <3>6. Cardinality({f[i], f[j]}) = 2
      <4>1. {f[i], f[j]} = {f[i]} \cup {f[j]}
        OBVIOUS
      <4>2. IsFiniteSet({f[i]}) /\ Cardinality({f[i]}) = 1
        BY FS_Singleton
      <4>3. Cardinality({f[i]} \cup {f[j]}) = 2
        BY <3>4, <4>2, FS_AddElement
      <4> QED
        BY <4>1, <4>3
    <3>7. Cardinality({f[i], f[j]}) <= Cardinality(Same) /\ Cardinality(Same) \in Nat
      BY <3>4, <3>5, FS_Subset, FS_CardinalityType
    <3> QED
      BY <3>6, <3>7
  <2> QED
    BY <2>2 DEF Known, HasAccount, WelcomedOnce
<1> QED
  BY <1>1, AlwaysAccountsInv, PTL
=============================================================================
