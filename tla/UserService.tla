----------------------------- MODULE UserService -----------------------------
(***************************************************************************)
(* user-service: accounts, and the tokens that name them.  Requests run    *)
(* concurrently, in several replicas, over one table; what they have in    *)
(* common is its UNIQUE constraint and the topic user.events.              *)
(***************************************************************************)
EXTENDS Sequences, Naturals

CONSTANTS Email,         \* e-mail addresses
          Password,      \* passwords, those bcrypt cannot tell apart being one
          TooLong,       \* the ones of more than 72 bytes, which it refuses
          Signup,        \* POST /register requests; each makes a user id of its own
          UserFault,     \* the faults that may happen, see UserFails
          MaxUserFaults  \* bound on how many of them happen

ASSUME PasswordAssumption == TooLong \subseteq Password
ASSUME UserFaultAssumption ==
    /\ UserFault \subseteq {"stop", "dberror", "unpublished", "duplicate"}
    /\ MaxUserFaults \in Nat

VARIABLES users,       \* the rows of users
          signup,      \* each request: its fields, and how far it is
          userEvents,  \* the topic user.events
          tokens,      \* the tokens handed out, each with the password it was given for
          userFaults   \* how many faults have happened

userVars == <<users, signup, userEvents, tokens, userFaults>>

(* bcrypt keeps what tells whether a password is the one. *)
hashPassword(password) == [bcrypt |-> password]
checkPassword(hash, password) == hash = hashPassword(password)

User  == [id : Signup, email : Email, hash : { hashPassword(p) : p \in Password \ TooLong }]
Token == [userId : Signup, email : Email, password : Password]

NotSent == [pc |-> "new"]

SignupTask ==
    {NotSent} \cup [pc : {"insert", "publish", "created", "conflict", "failed", "stopped"},
                    email : Email, password : Password]

UserTypeOK ==
    /\ users \subseteq User
    /\ signup \in [Signup -> SignupTask]
    /\ userEvents \in Seq([userId : Signup, email : Email])
    /\ tokens \subseteq Token
    /\ userFaults \in 0..MaxUserFaults

UserInit == /\ users = {}
            /\ signup = [r \in Signup |-> NotSent]
            /\ userEvents = <<>>
            /\ tokens = {}
            /\ userFaults = 0

(* One more fault of kind k:                                                *)
(*   "stop"         a request ends where it is;                             *)
(*   "dberror"      the insert returns an error that is not a duplicate;    *)
(*   "unpublished"  the broker refuses the event;                           *)
(*   "duplicate"    it is appended, and its writer retries.                 *)
UserFails(k) == /\ k \in UserFault
                /\ userFaults < MaxUserFaults
                /\ userFaults' = userFaults + 1

-----------------------------------------------------------------------------
FindByEmail(email) == { u \in users : u.email = email }

(* The e-mail of a row is UNIQUE. *)
Registered(email) == FindByEmail(email) # {}

NewUser(r) == [id |-> r, email |-> signup[r].email, hash |-> hashPassword(signup[r].password)]

NewToken(u, password) == [userId |-> u.id, email |-> u.email, password |-> password]

(* The request is about to make its next call, or returns with an answer. *)
Go(r, pc) == signup' = [signup EXCEPT ![r].pc = pc]

(* Register without a look at the error of hashPassword. *)
RegisterUnchecked(r, email, password) ==
    /\ signup[r] = NotSent
    /\ signup' = [signup EXCEPT ![r] =
                    [pc |-> "insert", email |-> email, password |-> password]]
    /\ UNCHANGED <<users, userEvents, tokens, userFaults>>

(* Register up to the insert.  A body with an empty field gets a 400 and   *)
(* is left out; a password that cannot be hashed gets a 500.               *)
Register(r, email, password) ==
    /\ signup[r] = NotSent
    /\ signup' = [signup EXCEPT ![r] =
                    [pc |-> IF password \in TooLong THEN "failed" ELSE "insert",
                     email |-> email, password |-> password]]
    /\ UNCHANGED <<users, userEvents, tokens, userFaults>>

(* An insert ON CONFLICT (email) DO UPDATE: the later password wins. *)
InsertOrUpdate(r) ==
    /\ signup[r].pc = "insert"
    /\ users' = { IF u.email = signup[r].email
                  THEN [u EXCEPT !.hash = hashPassword(signup[r].password)] ELSE u : u \in users }
                \cup (IF Registered(signup[r].email) THEN {} ELSE {NewUser(r)})
    /\ Go(r, "publish")
    /\ UNCHANGED <<userEvents, tokens, userFaults>>

(* The e-mail is free: the row is there from now on. *)
InsertUser(r) ==
    /\ signup[r].pc = "insert"
    /\ ~ Registered(signup[r].email)
    /\ users' = users \cup {NewUser(r)}
    /\ Go(r, "publish")
    /\ UNCHANGED <<userEvents, tokens, userFaults>>

(* Conflict without its return. *)
ConflictGoesOn(r) ==
    /\ signup[r].pc = "insert"
    /\ Registered(signup[r].email)
    /\ Go(r, "publish")
    /\ UNCHANGED <<users, userEvents, tokens, userFaults>>

(* The UNIQUE constraint refuses the row: 409. *)
Conflict(r) ==
    /\ signup[r].pc = "insert"
    /\ Registered(signup[r].email)
    /\ Go(r, "conflict")
    /\ UNCHANGED <<users, userEvents, tokens, userFaults>>

(* Any other error of the insert is answered alike, whether or not the     *)
(* statement took effect.                                                  *)
InsertError(r) ==
    /\ signup[r].pc = "insert"
    /\ UserFails("dberror")
    /\ \/ UNCHANGED users
       \/ ~ Registered(signup[r].email) /\ users' = users \cup {NewUser(r)}
    /\ Go(r, "conflict")
    /\ UNCHANGED <<userEvents, tokens>>

Announce(r) == userEvents' = Append(userEvents, [userId |-> r, email |-> signup[r].email])

(* PublishUserCreated, then 201 with a token, even if the event was refused. *)
PublishUserCreated(r) ==
    /\ signup[r].pc = "publish"
    /\ \/ Announce(r) /\ UNCHANGED userFaults
       \/ UserFails("unpublished") /\ UNCHANGED userEvents
    /\ tokens' = tokens \cup {NewToken(NewUser(r), signup[r].password)}
    /\ Go(r, "created")
    /\ UNCHANGED users

(* The writer misses the acknowledgement and is about to write again. *)
PublishAgain(r) ==
    /\ signup[r].pc = "publish"
    /\ UserFails("duplicate")
    /\ Announce(r)
    /\ UNCHANGED <<users, signup, tokens>>

RegisterStop(r) ==
    /\ signup[r].pc \in {"insert", "publish"}
    /\ UserFails("stop")
    /\ Go(r, "stopped")
    /\ UNCHANGED <<users, userEvents, tokens>>

(* Login and its one query.  What it refuses changes nothing. *)
Login(email, password) ==
    /\ \E u \in FindByEmail(email) : /\ checkPassword(u.hash, password)
                                     /\ tokens' = tokens \cup {NewToken(u, password)}
    /\ UNCHANGED <<users, signup, userEvents, userFaults>>

-----------------------------------------------------------------------------
(* A request under way, without faults. *)
SignupStep(r) == InsertUser(r) \/ Conflict(r) \/ PublishUserCreated(r)

UserNext ==
    \/ \E r \in Signup, email \in Email, password \in Password : Register(r, email, password)
    \/ \E r \in Signup : SignupStep(r) \/ InsertError(r) \/ PublishAgain(r) \/ RegisterStop(r)
    \/ \E email \in Email, password \in Password : Login(email, password)
=============================================================================
