------------------------------ MODULE Accounts ------------------------------
(***************************************************************************)
(* Accounts and sessions of the gateway: signup, login, logout (the        *)
(* handlers and the service of backend/gateway/auth), the session check in *)
(* front of the protected routes, and two of those, GET /me and            *)
(* GET /orders/{id}, with a checkout as the source of orders.              *)
(*                                                                         *)
(* A session is a signed token in a cookie and the gateway keeps nothing   *)
(* of it.  A browser has one cookie and any number of requests on their    *)
(* way: a request carries the cookie of the moment it was sent, and the    *)
(* answers, with their Set-Cookie, arrive in any order or never.           *)
(*                                                                         *)
(* A token is named by the request it was issued to, and so is an account. *)
(***************************************************************************)
EXTENDS FiniteSets

CONSTANTS
    Requests,
    Browsers,
    Emails,        \* e-mail addresses as typed
    Normal,        \* Normal[e]: e trimmed and in lower case
    Blank,         \* the empty address
    Passwords,
    BadPasswords,  \* the empty one and those bcrypt refuses
    Orders,        \* idempotency keys, which stand for the orders' ids too
    Calls,         \* the requests there may be
    Faults,        \* TRUE: statements and calls may fail, answers get lost
    None           \* no token, no account, no request

Ops == {"signup", "login", "logout", "me", "checkout", "read"}

ASSUME AccountsAssumption ==
    /\ None \notin Requests
    /\ Normal \in [Emails -> Emails] /\ Blank \in Emails
    /\ \A e \in Emails : Normal[Normal[e]] = Normal[e]
    /\ BadPasswords \subseteq Passwords
    /\ Calls \subseteq [browser : Browsers, op : Ops, email : Emails,
                        password : Passwords, order : Orders]
    /\ Faults \in BOOLEAN

VARIABLES
    users,     \* the rows of users
    orders,    \* the rows of orders, as far as they matter here
    cookie,    \* cookie[b]: the token browser b holds
    expired,   \* the tokens that are no longer valid
    sent,      \* the requests that were sent
    call,      \* call[r]: what r asked for
    bearer,    \* bearer[r]: the token it carried
    status,    \* status[r]: the HTTP status it was answered with
    subject,   \* subject[r]: the account its answer is about
    pending,   \* answers with a Set-Cookie that are on their way
    failed     \* the requests during which a statement or a call failed

tables   == <<users, orders>>
requests == <<sent, call, bearer, status, subject, failed>>
vars     == <<tables, cookie, expired, requests, pending>>

Init ==
    /\ users = {}
    /\ orders = {}
    /\ cookie = [b \in Browsers |-> None]
    /\ expired = {}
    /\ sent = {}
    /\ call = [r \in Requests |-> None]
    /\ bearer = [r \in Requests |-> None]
    /\ status = [r \in Requests |-> "none"]
    /\ subject = [r \in Requests |-> None]
    /\ pending = {}
    /\ failed = {}

-----------------------------------------------------------------------------
Waiting(r, op) == r \in sent /\ status[r] = "none" /\ call[r].op = op

Send(r, c) ==
    /\ r \notin sent
    /\ sent' = sent \union {r}
    /\ call' = [call EXCEPT ![r] = c]
    /\ bearer' = [bearer EXCEPT ![r] = cookie[c.browser]]
    /\ UNCHANGED <<tables, cookie, expired, status, subject, failed, pending>>

Answer(r, code, account) ==
    /\ status' = [status EXCEPT ![r] = code]
    /\ subject' = [subject EXCEPT ![r] = account]
    /\ UNCHANGED <<cookie, expired, sent, call, bearer>>

\* An answer without a cookie.
Plain(r, code, account) ==
    /\ Answer(r, code, account)
    /\ UNCHANGED <<pending, failed>>

\* An answer that sets or clears the cookie.
WithCookie(r, code, account) ==
    /\ Answer(r, code, account)
    /\ pending' = pending \union {r}
    /\ UNCHANGED failed

Broken(r, code) ==
    /\ Faults
    /\ Answer(r, code, None)
    /\ failed' = failed \union {r}
    /\ UNCHANGED pending

-----------------------------------------------------------------------------
(* Signup and login.                                                       *)

EmailAsTyped(r) == call[r].email

EmailOf(r) == Normal[call[r].email]

Account(r) == [id |-> r, email |-> EmailOf(r), password |-> call[r].password]

Taken(r) == \E u \in users : u.email = EmailOf(r)

Acceptable(r) == EmailOf(r) # Normal[Blank] /\ call[r].password \notin BadPasswords

\* A body that is no JSON, or a signup without a name.
Malformed(r) ==
    /\ Waiting(r, "signup") \/ Waiting(r, "login")
    /\ Plain(r, "400", None)
    /\ UNCHANGED tables

SignupRefused(r) ==
    /\ Waiting(r, "signup")
    /\ ~Acceptable(r)
    /\ Plain(r, "400", None)
    /\ UNCHANGED tables

\* Mutant: a signup goes on after the INSERT was refused.
SignupDespiteConflict(r) ==
    /\ Waiting(r, "signup")
    /\ Acceptable(r) /\ Taken(r)
    /\ WithCookie(r, "201", r)
    /\ UNCHANGED tables

\* 23505 from the UNIQUE constraint on email.
SignupConflict(r) ==
    /\ Waiting(r, "signup")
    /\ Acceptable(r) /\ Taken(r)
    /\ Plain(r, "409", None)
    /\ UNCHANGED tables

\* Mutant: the address is stored as it was typed.
SignupAsTyped(r) ==
    /\ Waiting(r, "signup")
    /\ Acceptable(r) /\ \A u \in users : u.email # EmailAsTyped(r)
    /\ users' = users \union {[Account(r) EXCEPT !.email = EmailAsTyped(r)]}
    /\ WithCookie(r, "201", r)
    /\ UNCHANGED orders

SignupCreates(r) ==
    /\ Waiting(r, "signup")
    /\ Acceptable(r) /\ ~Taken(r)
    /\ users' = users \union {Account(r)}
    /\ WithCookie(r, "201", r)
    /\ UNCHANGED orders

\* The INSERT fails, or its outcome does not reach the gateway.
SignupFails(r) ==
    /\ Waiting(r, "signup")
    /\ Acceptable(r)
    /\ users' \in {users} \union (IF Taken(r) THEN {} ELSE {users \union {Account(r)}})
    /\ Broken(r, "400")
    /\ UNCHANGED orders

\* Mutant: the password is not looked at.
MatchesEmail(r, u) == u.email = EmailOf(r)

\* Mutant: the address is looked up as it was typed.
MatchesTyped(r, u) == u.email = EmailAsTyped(r) /\ u.password = call[r].password

Matches(r, u) == u.email = EmailOf(r) /\ u.password = call[r].password

LoginAccepted(r) ==
    /\ Waiting(r, "login")
    /\ \E u \in users : Matches(r, u) /\ WithCookie(r, "200", u.id)
    /\ UNCHANGED tables

\* An unknown address and a wrong password answer alike.
LoginRejected(r) ==
    /\ Waiting(r, "login")
    /\ \A u \in users : ~Matches(r, u)
    /\ Plain(r, "401", None)
    /\ UNCHANGED tables

\* GetByEmail fails: every error becomes ErrInvalidCredentials.
LoginFails(r) ==
    /\ Waiting(r, "login")
    /\ Broken(r, "401")
    /\ UNCHANGED tables

Logout(r) ==
    /\ Waiting(r, "logout")
    /\ WithCookie(r, "204", None)
    /\ UNCHANGED tables

\* The browser takes the Set-Cookie of the answer.
Receive(r) ==
    /\ r \in pending
    /\ pending' = pending \ {r}
    /\ cookie' = [cookie EXCEPT ![call[r].browser] =
                      IF call[r].op = "logout" THEN None ELSE r]
    /\ UNCHANGED <<tables, expired, requests>>

Lose(r) ==
    /\ Faults
    /\ r \in pending
    /\ pending' = pending \ {r}
    /\ UNCHANGED <<tables, cookie, expired, requests>>

-----------------------------------------------------------------------------
(* The protected routes.                                                   *)

\* The lifetime of r's token is over, or the gateway has another secret.
Expire(r) ==
    /\ subject[r] # None
    /\ r \notin expired
    /\ expired' = expired \union {r}
    /\ UNCHANGED <<tables, cookie, requests, pending>>

Protected == {"me", "checkout", "read"}

Verified(r) == bearer[r] # None /\ bearer[r] \notin expired

Uid(r) == subject[bearer[r]]

\* The middleware looks at the token on entry; here it is still good at the answer.
Entering(r, op) == Waiting(r, op) /\ Verified(r)

Unauthorized(r) ==
    /\ \E op \in Protected : Waiting(r, op)
    /\ ~Verified(r)
    /\ Plain(r, "401", None)
    /\ UNCHANGED tables

Me(r) ==
    /\ Entering(r, "me")
    /\ \E u \in users : u.id = Uid(r) /\ Plain(r, "200", u.id)
    /\ UNCHANGED tables

\* GetByID fails: every error of GetUser is a 404.
MeFails(r) ==
    /\ Entering(r, "me")
    /\ Broken(r, "404")
    /\ UNCHANGED tables

\* PlaceOrder makes an order, or finds one with the key.
Ordered(r) ==
    IF \E o \in orders : o.id = call[r].order
    THEN orders
    ELSE orders \union {[id |-> call[r].order, user |-> Uid(r)]}

CheckoutPlaces(r) ==
    /\ Entering(r, "checkout")
    /\ orders' = Ordered(r)
    /\ \E o \in orders' : o.id = call[r].order /\ Plain(r, "201", o.user)
    /\ UNCHANGED users

\* Nothing was ordered.
CheckoutFails(r) ==
    /\ Entering(r, "checkout")
    /\ \E code \in {"400", "404", "409", "502"} : Plain(r, code, None)
    /\ UNCHANGED tables

\* A call failed; the order may have been made.
CheckoutUnconfirmed(r) ==
    /\ Entering(r, "checkout")
    /\ orders' \in {orders, Ordered(r)}
    /\ Broken(r, "502")
    /\ UNCHANGED users

\* Mutant: whoever knows the id sees the order.
ReadAnyOrder(r) ==
    /\ Entering(r, "read")
    /\ \E o \in orders : o.id = call[r].order /\ Plain(r, "200", o.user)
    /\ UNCHANGED tables

ReadOrder(r) ==
    /\ Entering(r, "read")
    /\ \E o \in orders :
          o.id = call[r].order /\ o.user = Uid(r) /\ Plain(r, "200", o.user)
    /\ UNCHANGED tables

\* No such order, or the order of somebody else: the answers are the same.
ReadMasked(r) ==
    /\ Entering(r, "read")
    /\ \A o \in orders : o.id = call[r].order => o.user # Uid(r)
    /\ Plain(r, "404", None)
    /\ UNCHANGED tables

\* An id that is no UUID.
ReadInvalid(r) ==
    /\ Entering(r, "read")
    /\ Plain(r, "400", None)
    /\ UNCHANGED tables

ReadFails(r) ==
    /\ Entering(r, "read")
    /\ Broken(r, "502")
    /\ UNCHANGED tables

-----------------------------------------------------------------------------
Handle(r) ==
    \/ Malformed(r) \/ SignupRefused(r) \/ SignupConflict(r) \/ SignupCreates(r)
    \/ SignupFails(r) \/ LoginAccepted(r) \/ LoginRejected(r) \/ LoginFails(r)
    \/ Logout(r) \/ Unauthorized(r) \/ Me(r) \/ MeFails(r)
    \/ CheckoutPlaces(r) \/ CheckoutFails(r) \/ CheckoutUnconfirmed(r)
    \/ ReadOrder(r) \/ ReadMasked(r) \/ ReadInvalid(r) \/ ReadFails(r)

Next ==
    \E r \in Requests :
        \/ \E c \in Calls : Send(r, c)
        \/ Handle(r) \/ Receive(r) \/ Lose(r) \/ Expire(r)

Spec == Init /\ [][Next]_vars

-----------------------------------------------------------------------------
(* What accounts and sessions promise.                                     *)

SetsSession == {"signup", "login"}

\* Browser b sent the address and the password of account u.
Presented(b, u) ==
    \E q \in sent :
        /\ call[q].op \in SetsSession
        /\ call[q].browser = b
        /\ EmailOf(q) = u.email /\ call[q].password = u.password

Proven(b, id) == \E u \in users : u.id = id /\ Presented(b, u)

Served(r) == status[r] \in {"200", "201"}

\* Types.  A session, an answer and an order are about an account that exists,
\* though nothing but the signed token says so (claims carry the id only).
AccountsTypeOK ==
    /\ users \in SUBSET [id : Requests, email : Emails, password : Passwords]
    /\ orders \in SUBSET [id : Orders, user : Requests]
    /\ cookie \in [Browsers -> Requests \union {None}]
    /\ expired \in SUBSET Requests
    /\ sent \in SUBSET Requests /\ pending \in SUBSET sent /\ failed \in SUBSET sent
    /\ call \in [Requests -> Calls \union {None}] /\ \A r \in sent : call[r] \in Calls
    /\ bearer \in [Requests -> Requests \union {None}]
    /\ status \in [Requests -> {"none", "200", "201", "204", "400", "401", "404", "409", "502"}]
    /\ subject \in [Requests -> {None} \union {u.id : u \in users}]
    /\ \A o \in orders : o.user \in {u.id : u \in users}

\* One address is one account: any signup and login that were admitted with the
\* same address, however it was typed and whatever raced, are of the same
\* account (the UNIQUE constraint on the normalised email, auth/repo.go).
OneAccountPerEmail ==
    \A r, q \in sent :
        /\ Served(r) /\ Served(q)
        /\ {call[r].op, call[q].op} \subseteq SetsSession
        /\ EmailOf(r) = EmailOf(q)
        => subject[r] = subject[q]

\* A browser is in the session of an account only if it sent that account's
\* password, in whatever order the answers to its requests came back.
SessionIsEarned ==
    \A b \in Browsers : cookie[b] # None => Proven(b, subject[cookie[b]])

\* The profile and the orders a browser is shown are of accounts whose password
\* it sent, and every order is of an account whose password was sent by the
\* browser that placed it (middleware.Auth, orders.go, me.go, checkout.go).  The
\* order a checkout answers with is left out: it is the order of the key.
ServedToOwner ==
    /\ \A r \in sent :
          Served(r) /\ call[r].op \in {"me", "read"} => Proven(call[r].browser, subject[r])
    /\ \A o \in orders :
          \E r \in sent : /\ call[r].op = "checkout" /\ call[r].order = o.id
                         /\ Proven(call[r].browser, o.user)

\* An account can be used: from the moment the row is there, also when the answer
\* of the signup was lost, a login with its address, however typed, and its
\* password is turned away only when a statement failed.
AccountUsable ==
    [][\A r, q \in Requests :
          /\ status[r] = "none" /\ status'[r] = "401" /\ r \notin failed'
          /\ call[r].op = "login"
          /\ q \in {u.id : u \in users}
          => EmailOf(q) # EmailOf(r) \/ call[q].password # call[r].password]_vars
=============================================================================
