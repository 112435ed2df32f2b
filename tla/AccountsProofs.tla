--------------------------- MODULE AccountsProofs ---------------------------
(***************************************************************************)
(* What accounts and sessions promise, for any requests, browsers,         *)
(* addresses and faults, proved from the inductive invariant IInv.         *)
(***************************************************************************)
EXTENDS Accounts, TLAPS

Codes == {"200", "201", "204", "400", "401", "404", "409", "502"}

(* t is a session that browser b was given. *)
Token(t, b) ==
    t \in sent /\ call[t].op \in SetsSession /\ call[t].browser = b /\ Served(t)

(* A row of users is what a signup sent, and no two have one address. *)
RowsOfSignups ==
    /\ \A u \in users : u.id \in sent /\ u = Account(u.id)
    /\ \A u, v \in users : u.email = v.email => u = v
    /\ \A u \in users : call[u.id].op = "signup" /\ status[u.id] # "none"

(* An admitted signup or login is of the account that its credentials name. *)
AdmittedByCredentials ==
    \A r \in sent : Served(r) /\ call[r].op \in SetsSession =>
        \E u \in users : u.id = subject[r] /\ Matches(r, u)

(* Tokens stay with the browser they were given to: in the cookie, in a     *)
(* request, and on the way.                                                 *)
TokensStay ==
    /\ \A b \in Browsers : cookie[b] # None => Token(cookie[b], b)
    /\ \A r \in sent : bearer[r] # None => Token(bearer[r], call[r].browser)
    /\ \A r \in pending : call[r].op = "logout" \/ (call[r].op \in SetsSession /\ Served(r))

OnlySentAnswered == \A r \in Requests \ sent : status[r] = "none"

IInv ==
    /\ AccountsTypeOK
    /\ OnlySentAnswered
    /\ RowsOfSignups
    /\ AdmittedByCredentials
    /\ TokensStay
    /\ ServedToOwner

-----------------------------------------------------------------------------
(* What every answer has in common: request r is answered with code about   *)
(* the account acc.                                                         *)
Handled(r, code, acc) ==
    /\ r \in sent /\ status[r] = "none" /\ code \in Codes
    /\ Answer(r, code, acc)
    /\ \/ pending' = pending
       \/ /\ pending' = pending \union {r}
          /\ call[r].op = "logout"
             \/ (call[r].op \in SetsSession /\ code \in {"200", "201"})
    /\ \/ users' = users
       \/ users' = users \union {Account(r)} /\ call[r].op = "signup" /\ ~Taken(r)
    /\ \/ orders' = orders
       \/ /\ orders' = orders \union {[id |-> call[r].order, user |-> Uid(r)]}
          /\ call[r].op = "checkout" /\ Verified(r)
    /\ failed' \in {failed, failed \union {r}}
    /\ acc # None => \E u \in users' : u.id = acc
    /\ code \in {"200", "201"} /\ call[r].op \in SetsSession =>
           \E u \in users' : u.id = acc /\ Matches(r, u)
    /\ code \in {"200", "201"} /\ call[r].op \in {"me", "read"} =>
           Verified(r) /\ acc = Uid(r)
    /\ call[r].op = "login" /\ code = "401" /\ r \notin failed' =>
           \A u \in users : ~Matches(r, u)

(* A verified session is of an account whose password the browser sent.     *)
LEMMA SessionIsProven ==
    ASSUME IInv, NEW t, NEW b, Token(t, b)
    PROVE  Proven(b, subject[t])
<1>1. PICK u \in users : u.id = subject[t] /\ Matches(t, u)
    BY DEF IInv, AdmittedByCredentials, Token
<1>2. Presented(b, u)
    BY <1>1 DEF Token, Presented, Matches
<1> QED
    BY <1>1, <1>2 DEF Proven

LEMMA BearerIsProven ==
    ASSUME IInv, NEW r \in sent, Verified(r)
    PROVE  Proven(call[r].browser, Uid(r))
BY SessionIsProven DEF IInv, TokensStay, Verified, Uid

(* Every answer of the gateway has this form. *)
LEMMA HandleForm ==
    ASSUME IInv, NEW r \in Requests, Handle(r)
    PROVE  \E code, acc : Handled(r, code, acc)
<1> USE DEF Waiting, Entering, Plain, WithCookie, Broken, Codes, SetsSession, tables
<1>1. CASE Malformed(r)
    <2>1. Handled(r, "400", None)
        BY <1>1 DEF Malformed, Handled
    <2> QED BY <2>1
<1>2. CASE SignupRefused(r)
    <2>1. Handled(r, "400", None)
        BY <1>2 DEF SignupRefused, Handled
    <2> QED BY <2>1
<1>3. CASE SignupConflict(r)
    <2>1. Handled(r, "409", None)
        BY <1>3 DEF SignupConflict, Handled
    <2> QED BY <2>1
<1>4. CASE SignupCreates(r)
    <2>1. Account(r) \in users' /\ Account(r).id = r /\ Matches(r, Account(r))
        BY <1>4 DEF SignupCreates, Account, Matches
    <2>2. Handled(r, "201", r)
        BY <1>4, <2>1 DEF SignupCreates, Handled
    <2> QED BY <2>2
<1>5. CASE SignupFails(r)
    <2>1. Handled(r, "400", None)
        BY <1>5 DEF SignupFails, Handled
    <2> QED BY <2>1
<1>6. CASE LoginAccepted(r)
    <2>1. PICK u \in users : Matches(r, u) /\ WithCookie(r, "200", u.id)
        BY <1>6 DEF LoginAccepted
    <2>2. Handled(r, "200", u.id)
        BY <1>6, <2>1 DEF LoginAccepted, Handled
    <2> QED BY <2>2
<1>7. CASE LoginRejected(r)
    <2>1. Handled(r, "401", None)
        BY <1>7 DEF LoginRejected, Handled
    <2> QED BY <2>1
<1>8. CASE LoginFails(r)
    <2>1. Handled(r, "401", None)
        BY <1>8 DEF LoginFails, Handled
    <2> QED BY <2>1
<1>9. CASE Logout(r)
    <2>1. Handled(r, "204", None)
        BY <1>9 DEF Logout, Handled
    <2> QED BY <2>1
<1>10. CASE Unauthorized(r)
    <2>1. Handled(r, "401", None)
        BY <1>10 DEF Unauthorized, Protected, Handled
    <2> QED BY <2>1
<1>11. CASE Me(r)
    <2>1. PICK u \in users : u.id = Uid(r) /\ Plain(r, "200", u.id)
        BY <1>11 DEF Me
    <2>2. Handled(r, "200", u.id)
        BY <1>11, <2>1 DEF Me, Handled
    <2> QED BY <2>2
<1>12. CASE MeFails(r)
    <2>1. Handled(r, "404", None)
        BY <1>12 DEF MeFails, Handled
    <2> QED BY <2>1
<1>13. CASE CheckoutPlaces(r)
    <2>1. PICK o \in orders' : o.id = call[r].order /\ Plain(r, "201", o.user)
        BY <1>13 DEF CheckoutPlaces
    <2>2. \E u \in users : u.id = o.user
        <3>1. r \in sent /\ Verified(r)
            BY <1>13 DEF CheckoutPlaces
        <3>2. \E u \in users : u.id = Uid(r)
            BY <3>1, BearerIsProven DEF Proven
        <3>3. o \in orders \/ o = [id |-> call[r].order, user |-> Uid(r)]
            BY <1>13 DEF CheckoutPlaces, Ordered
        <3> QED
            BY <3>2, <3>3 DEF IInv, AccountsTypeOK
    <2>3. Handled(r, "201", o.user)
        BY <1>13, <2>1, <2>2 DEF CheckoutPlaces, Ordered, Handled
    <2> QED BY <2>3
<1>14. CASE CheckoutFails(r)
    <2>1. PICK code \in {"400", "404", "409", "502"} : Plain(r, code, None)
        BY <1>14 DEF CheckoutFails
    <2>2. Handled(r, code, None)
        BY <1>14, <2>1 DEF CheckoutFails, Handled
    <2> QED BY <2>2
<1>15. CASE CheckoutUnconfirmed(r)
    <2>1. Handled(r, "502", None)
        BY <1>15 DEF CheckoutUnconfirmed, Ordered, Handled
    <2> QED BY <2>1
<1>16. CASE ReadOrder(r)
    <2>1. PICK o \in orders : o.user = Uid(r) /\ Plain(r, "200", o.user)
        BY <1>16 DEF ReadOrder
    <2>2. \E u \in users : u.id = o.user
        BY <2>1 DEF IInv, AccountsTypeOK
    <2>3. Handled(r, "200", o.user)
        BY <1>16, <2>1, <2>2 DEF ReadOrder, Handled
    <2> QED BY <2>3
<1>17. CASE ReadMasked(r)
    <2>1. Handled(r, "404", None)
        BY <1>17 DEF ReadMasked, Handled
    <2> QED BY <2>1
<1>18. CASE ReadInvalid(r)
    <2>1. Handled(r, "400", None)
        BY <1>18 DEF ReadInvalid, Handled
    <2> QED BY <2>1
<1>19. CASE ReadFails(r)
    <2>1. Handled(r, "502", None)
        BY <1>19 DEF ReadFails, Handled
    <2> QED BY <2>1
<1> QED
    BY <1>1, <1>2, <1>3, <1>4, <1>5, <1>6, <1>7, <1>8, <1>9, <1>10, <1>11, <1>12,
       <1>13, <1>14, <1>15, <1>16, <1>17, <1>18, <1>19 DEF Handle

-----------------------------------------------------------------------------
(* Nothing a browser has proven is undone by an answer: rows are only added, *)
(* and what a request asked for and was answered stays.                      *)
LEMMA AnswersKeep ==
    ASSUME IInv, NEW r \in Requests, NEW code, NEW acc, Handled(r, code, acc)
    PROVE  /\ users \subseteq users' /\ orders \subseteq orders'
           /\ status'[r] = code /\ subject'[r] = acc
           /\ \A q \in Requests : q # r => status'[q] = status[q] /\ subject'[q] = subject[q]
           /\ \A q \in sent : status[q] # "none" =>
                  q # r /\ status'[q] = status[q] /\ subject'[q] = subject[q]
           /\ \A t, b : Token(t, b) => Token(t, b)' /\ subject'[t] = subject[t]
           /\ \A b, id : Proven(b, id) => Proven(b, id)'
<1>1. /\ users \subseteq users' /\ orders \subseteq orders'
      /\ r \in sent /\ status[r] = "none"
      /\ sent' = sent /\ call' = call
    BY DEF Handled, Answer
<1>2. /\ status'[r] = code /\ subject'[r] = acc
      /\ \A q \in Requests : q # r => status'[q] = status[q] /\ subject'[q] = subject[q]
    BY DEF Handled, Answer, IInv, AccountsTypeOK
<1>3. sent \subseteq Requests
    BY DEF IInv, AccountsTypeOK
<1>4. \A q \in sent : status[q] # "none" =>
          q # r /\ status'[q] = status[q] /\ subject'[q] = subject[q]
    BY <1>1, <1>2, <1>3
<1>5. ASSUME NEW t, NEW b, Token(t, b)
      PROVE  Token(t, b)' /\ subject'[t] = subject[t]
    BY <1>1, <1>4, <1>5 DEF Token, Served
<1>6. ASSUME NEW b, NEW id, Proven(b, id)
      PROVE  Proven(b, id)'
    BY <1>1, <1>6 DEF Proven, Presented, EmailOf
<1> QED
    BY <1>1, <1>2, <1>4, <1>5, <1>6

LEMMA AnswersKeepTypes ==
    ASSUME IInv, NEW r \in Requests, NEW code, NEW acc, Handled(r, code, acc)
    PROVE  AccountsTypeOK'
<1> USE DEF IInv, AccountsTypeOK
<1>0. r \in sent /\ call[r] \in Calls /\ call[r] \in [browser : Browsers, op : Ops,
          email : Emails, password : Passwords, order : Orders]
    BY AccountsAssumption DEF Handled
<1>1. users' \in SUBSET [id : Requests, email : Emails, password : Passwords]
    BY <1>0, AccountsAssumption DEF Handled, Account, EmailOf
<1>2. {u.id : u \in users} \subseteq {u.id : u \in users'}
    BY DEF Handled
<1>3. Verified(r) => Uid(r) \in {u.id : u \in users} /\ Uid(r) \in Requests
    <2>1. SUFFICES ASSUME Verified(r) PROVE \E u \in users : u.id = Uid(r)
        OBVIOUS
    <2> QED
        BY <1>0, <2>1, BearerIsProven DEF Proven
<1>4. orders' \in SUBSET [id : Orders, user : Requests]
    BY <1>0, <1>3 DEF Handled
<1>5. \A o \in orders' : o.user \in {u.id : u \in users'}
    BY <1>2, <1>3 DEF Handled
<1>6. acc \in {None} \union {u.id : u \in users'}
    BY DEF Handled
<1>7. subject' \in [Requests -> {None} \union {u.id : u \in users'}]
    <2>1. subject \in [Requests -> {None} \union {u.id : u \in users'}]
        BY <1>2
    <2> QED
        BY <2>1, <1>6 DEF Handled, Answer
<1>8. status' \in [Requests -> {"none", "200", "201", "204", "400", "401", "404", "409", "502"}]
    BY DEF Handled, Answer, Codes
<1>9. /\ cookie' \in [Browsers -> Requests \union {None}]
      /\ expired' \in SUBSET Requests
      /\ sent' \in SUBSET Requests /\ pending' \in SUBSET sent' /\ failed' \in SUBSET sent'
      /\ call' \in [Requests -> Calls \union {None}] /\ \A q \in sent' : call'[q] \in Calls
      /\ bearer' \in [Requests -> Requests \union {None}]
    BY DEF Handled, Answer
<1> QED
    BY <1>1, <1>4, <1>5, <1>7, <1>8, <1>9

LEMMA AnswersKeepInvariant ==
    ASSUME IInv, NEW r \in Requests, NEW code, NEW acc, Handled(r, code, acc)
    PROVE  IInv'
<1> USE AnswersKeep
<1>0. /\ r \in sent /\ status[r] = "none" /\ code # "none" /\ sent \subseteq Requests
      /\ sent' = sent /\ call' = call /\ cookie' = cookie /\ bearer' = bearer
    BY DEF Handled, Answer, Codes, IInv, AccountsTypeOK
<1>1. AccountsTypeOK'
    BY AnswersKeepTypes
<1>2. RowsOfSignups'
    <2>1. \A q : Account(q)' = Account(q)
        BY <1>0 DEF Account, EmailOf
    <2>2. \A u \in users : u.id \in sent /\ u = Account(u.id) /\ call[u.id].op = "signup"
                           /\ status[u.id] # "none" /\ status'[u.id] # "none"
        BY <1>0 DEF IInv, RowsOfSignups
    <2>3. \A u \in users' : u \in users
              \/ (u = Account(r) /\ call[r].op = "signup" /\ ~Taken(r))
        BY DEF Handled
    <2>4. Account(r).id = r /\ Account(r).email = EmailOf(r)
        BY DEF Account
    <2>5. \A u \in users' : u.id \in sent /\ u = Account(u.id) /\ call[u.id].op = "signup"
                            /\ status'[u.id] # "none"
        BY <1>0, <2>2, <2>3, <2>4
    <2>6. \A u, v \in users' : u.email = v.email => u = v
        BY <2>3, <2>4 DEF IInv, RowsOfSignups, Taken
    <2> QED
        BY <1>0, <2>1, <2>5, <2>6 DEF RowsOfSignups
<1>3. AdmittedByCredentials'
    <2>1. \A q, u : Matches(q, u)' <=> Matches(q, u)
        BY <1>0 DEF Matches, EmailOf
    <2>2. SUFFICES ASSUME NEW q \in sent, Served(q)', call[q].op \in SetsSession
                   PROVE  \E u \in users' : u.id = subject'[q] /\ Matches(q, u)
        BY <1>0, <2>1 DEF AdmittedByCredentials
    <2>3. CASE q = r
        BY <2>2, <2>3 DEF Handled, Served
    <2>4. CASE q # r
        BY <1>0, <2>2, <2>4 DEF IInv, AdmittedByCredentials, Served
    <2> QED BY <2>3, <2>4
<1>4. TokensStay'
    <2>1. \A b \in Browsers : cookie[b] # None => Token(cookie[b], b)'
        BY <1>0 DEF IInv, TokensStay
    <2>2. \A q \in sent : bearer[q] # None => Token(bearer[q], call[q].browser)'
        <3>1. \A q \in sent : bearer[q] # None => Token(bearer[q], call[q].browser)
            BY DEF IInv, TokensStay
        <3> QED
            BY <1>0, <3>1
    <2>3. \A q \in pending' : call[q].op = "logout" \/ (call[q].op \in SetsSession /\ Served(q)')
        BY <1>0 DEF IInv, TokensStay, Served, Handled, AccountsTypeOK
    <2> QED
        BY <1>0, <2>1, <2>2, <2>3 DEF TokensStay
<1>5. ServedToOwner'
    <2>1. Verified(r) =>
              \E b, id : b = call[r].browser /\ id = Uid(r) /\ Proven(b, id)'
        BY <1>0, BearerIsProven
    <2>2. \A q \in sent :
              (Served(q) /\ call[q].op \in {"me", "read"} => Proven(call[q].browser, subject[q]))'
        <3>1. SUFFICES ASSUME NEW q \in sent, Served(q)', call[q].op \in {"me", "read"}
                       PROVE  Proven(call[q].browser, subject[q])'
            BY <1>0
        <3>2. CASE q = r
            <4>1. Verified(r) /\ acc = Uid(r)
                BY <3>1, <3>2 DEF Handled, Served
            <4> QED
                BY <1>0, <2>1, <3>2, <4>1
        <3>3. CASE q # r
            <4>1. status'[q] = status[q] /\ subject'[q] = subject[q]
                BY <1>0, <3>3
            <4>2. Proven(call[q].browser, subject[q])
                BY <3>1, <4>1 DEF IInv, ServedToOwner, Served
            <4>3. PICK b, id : b = call[q].browser /\ id = subject[q] /\ Proven(b, id)'
                BY <4>2
            <4> QED
                BY <1>0, <4>1, <4>3
        <3> QED BY <3>2, <3>3
    <2>3. \A o \in orders' :
              \E q \in sent : call[q].op = "checkout" /\ call[q].order = o.id
                              /\ Proven(call[q].browser, o.user)'
        <3>1. \A o \in orders :
                  \E q \in sent : call[q].op = "checkout" /\ call[q].order = o.id
                                  /\ Proven(call[q].browser, o.user)
            BY DEF IInv, ServedToOwner
        <3>2. \A o \in orders' : o \in orders \/
                  (o = [id |-> call[r].order, user |-> Uid(r)]
                   /\ call[r].op = "checkout" /\ Verified(r))
            BY DEF Handled
        <3> QED
            BY <1>0, <2>1, <3>1, <3>2
    <2> QED
        BY <1>0, <2>2, <2>3 DEF ServedToOwner
<1>6. OnlySentAnswered'
    BY <1>0 DEF IInv, OnlySentAnswered
<1> QED
    BY <1>1, <1>2, <1>3, <1>4, <1>5, <1>6 DEF IInv

-----------------------------------------------------------------------------
(* A new request takes the cookie of its browser along. *)
LEMMA SendKeeps ==
    ASSUME IInv, NEW r \in Requests, NEW c \in Calls, Send(r, c)
    PROVE  IInv'
<1> USE DEF IInv
<1>1. /\ r \notin sent /\ sent' = sent \union {r}
      /\ UNCHANGED <<users, orders, cookie, expired, status, subject, failed, pending>>
      /\ call' = [call EXCEPT ![r] = c]
      /\ bearer' = [bearer EXCEPT ![r] = cookie[c.browser]]
    BY DEF Send, tables
<1>2. /\ c.browser \in Browsers
      /\ cookie[c.browser] \in Requests \union {None}
      /\ call'[r] = c /\ bearer'[r] = cookie[c.browser]
      /\ \A q \in sent : q # r /\ call'[q] = call[q] /\ bearer'[q] = bearer[q]
    BY <1>1, AccountsAssumption DEF AccountsTypeOK
<1>3. AccountsTypeOK'
    BY <1>1, <1>2 DEF AccountsTypeOK
<1>4. \A q \in sent : /\ Account(q)' = Account(q)
                      /\ \A u : Matches(q, u)' <=> Matches(q, u)
    BY <1>2 DEF Account, Matches, EmailOf
<1>5. RowsOfSignups'
    BY <1>1, <1>2, <1>4 DEF RowsOfSignups
<1>6. \A t, b : Token(t, b) => Token(t, b)'
    BY <1>1, <1>2 DEF Token, Served
<1>7. status[r] = "none" /\ OnlySentAnswered'
    BY <1>1 DEF OnlySentAnswered
<1>8. AdmittedByCredentials'
    BY <1>1, <1>2, <1>4, <1>7 DEF AdmittedByCredentials, Served
<1>9. TokensStay'
    <2>1. \A b \in Browsers : cookie[b] # None => Token(cookie[b], b)'
        BY <1>6, <1>1 DEF TokensStay
    <2>2. \A q \in sent : bearer[q] # None => Token(bearer[q], call[q].browser)'
        <3>1. \A q \in sent : bearer[q] # None => Token(bearer[q], call[q].browser)
            BY DEF TokensStay
        <3>2. \A q \in sent : bearer[q] # None =>
                  \E t, b : t = bearer[q] /\ b = call[q].browser /\ Token(t, b)'
            BY <3>1, <1>6
        <3> QED
            BY <3>2, <1>2
    <2>3. bearer'[r] # None => Token(bearer[r], call[r].browser)'
        <3>1. cookie[c.browser] # None =>
                  \E t, b : t = cookie[c.browser] /\ b = c.browser /\ Token(t, b)'
            BY <1>2, <1>6 DEF TokensStay
        <3> QED
            BY <3>1, <1>2
    <2>4. \A q \in pending' : call'[q].op = "logout" \/ (call'[q].op \in SetsSession /\ Served(q)')
        BY <1>1, <1>2 DEF TokensStay, Served, AccountsTypeOK
    <2> QED
        BY <1>1, <1>2, <2>1, <2>2, <2>3, <2>4 DEF TokensStay
<1>10. ServedToOwner'
    <2>1. \A b, id : Proven(b, id) => Proven(b, id)'
        BY <1>1, <1>2 DEF Proven, Presented, EmailOf
    <2>2. \A q \in sent' :
              (Served(q) /\ call[q].op \in {"me", "read"} => Proven(call[q].browser, subject[q]))'
        <3>1. SUFFICES ASSUME NEW q \in sent', Served(q)', (call[q].op \in {"me", "read"})'
                       PROVE  Proven(call[q].browser, subject[q])'
            OBVIOUS
        <3>2. q \in sent /\ Served(q)
            BY <1>1, <1>7, <3>1 DEF Served
        <3>3. \E b, id : b = call[q].browser /\ id = subject[q] /\ Proven(b, id)'
            BY <1>2, <2>1, <3>1, <3>2 DEF ServedToOwner
        <3> QED
            BY <1>1, <1>2, <3>2, <3>3
    <2>3. \A o \in orders :
              \E q \in sent : /\ call[q].op = "checkout" /\ call[q].order = o.id
                              /\ \E b : b = call[q].browser /\ Proven(b, o.user)'
        BY <2>1 DEF ServedToOwner
    <2>4. \A o \in orders' :
              \E q \in sent' : (/\ call[q].op = "checkout" /\ call[q].order = o.id
                                /\ Proven(call[q].browser, o.user))'
        BY <1>1, <1>2, <2>3
    <2> QED
        BY <2>2, <2>4 DEF ServedToOwner
<1> QED
    BY <1>3, <1>5, <1>7, <1>8, <1>9, <1>10

(* The steps that leave the tables and the requests alone. *)
LEMMA RestKeeps ==
    ASSUME IInv, UNCHANGED <<tables, requests>>,
           AccountsTypeOK',
           \A b \in Browsers : cookie'[b] # None => Token(cookie'[b], b),
           pending' \subseteq pending
    PROVE  IInv'
<1> USE DEF IInv, tables, requests
<1>1. UNCHANGED <<users, orders, sent, call, bearer, status, subject>>
    OBVIOUS
<1>2. RowsOfSignups' /\ AdmittedByCredentials' /\ OnlySentAnswered'
    BY <1>1 DEF RowsOfSignups, OnlySentAnswered, AdmittedByCredentials, Account, Matches, EmailOf, Served
<1>3. TokensStay'
    BY <1>1 DEF TokensStay, Token, Served
<1>4. ServedToOwner'
    BY <1>1 DEF ServedToOwner, Served, Proven, Presented, EmailOf
<1> QED
    BY <1>2, <1>3, <1>4

LEMMA InvariantHolds == Spec => []IInv
<1>1. Init => IInv
    BY DEF Init, IInv, AccountsTypeOK, RowsOfSignups, AdmittedByCredentials, TokensStay,
           OnlySentAnswered, ServedToOwner
<1>2. IInv /\ [Next]_vars => IInv'
    <2>1. SUFFICES ASSUME IInv, [Next]_vars PROVE IInv'
        OBVIOUS
    <2>2. ASSUME NEW r \in Requests, Receive(r) PROVE IInv'
        <3>1. call[r].op # "logout" => Token(r, call[r].browser)
            BY <2>1, <2>2 DEF Receive, IInv, TokensStay, Token, AccountsTypeOK
        <3>2. call[r] \in Calls /\ call[r].browser \in Browsers
            BY <2>1, <2>2, AccountsAssumption DEF Receive, IInv, AccountsTypeOK
        <3>3. \A b \in Browsers : cookie'[b] # None => Token(cookie'[b], b)
            BY <2>1, <2>2, <3>1, <3>2 DEF Receive, IInv, TokensStay, AccountsTypeOK
        <3>4. AccountsTypeOK'
            BY <2>1, <2>2, <3>2 DEF Receive, IInv, AccountsTypeOK, tables, requests
        <3> QED
            BY <2>1, <2>2, <3>3, <3>4, RestKeeps DEF Receive
    <2>3. ASSUME NEW r \in Requests, Lose(r) \/ Expire(r) PROVE IInv'
        <3>1. AccountsTypeOK' /\ cookie' = cookie /\ pending' \subseteq pending
              /\ UNCHANGED <<tables, requests>>
            BY <2>1, <2>3 DEF Lose, Expire, IInv, AccountsTypeOK, tables, requests
        <3> QED
            BY <2>1, <3>1, RestKeeps DEF IInv, TokensStay
    <2>4. ASSUME UNCHANGED vars PROVE IInv'
        <3>1. AccountsTypeOK' /\ cookie' = cookie /\ pending' = pending
              /\ UNCHANGED <<tables, requests>>
            BY <2>1, <2>4 DEF IInv, AccountsTypeOK, vars, tables, requests
        <3> QED
            BY <2>1, <3>1, RestKeeps DEF IInv, TokensStay
    <2>5. ASSUME NEW r \in Requests, Handle(r) PROVE IInv'
        BY <2>1, <2>5, HandleForm, AnswersKeepInvariant
    <2> QED
        BY <2>1, <2>2, <2>3, <2>4, <2>5, SendKeeps DEF Next
<1> QED
    BY <1>1, <1>2, PTL DEF Spec

-----------------------------------------------------------------------------
(* Sessions, answers and orders are about accounts that exist. *)
THEOREM AccountsTypeCorrect == Spec => []AccountsTypeOK
<1>1. IInv => AccountsTypeOK
    BY DEF IInv
<1> QED
    BY <1>1, InvariantHolds, PTL

(* However an address was typed, and whatever raced: one address, one account. *)
THEOREM AddressesAreUnique == Spec => []OneAccountPerEmail
<1>1. IInv => OneAccountPerEmail
    <2>1. SUFFICES ASSUME IInv, NEW r \in sent, NEW q \in sent, Served(r), Served(q),
                          call[r].op \in SetsSession, call[q].op \in SetsSession,
                          EmailOf(r) = EmailOf(q)
                   PROVE  subject[r] = subject[q]
        BY DEF OneAccountPerEmail
    <2>2. PICK u \in users : u.id = subject[r] /\ Matches(r, u)
        BY <2>1 DEF IInv, AdmittedByCredentials
    <2>3. PICK v \in users : v.id = subject[q] /\ Matches(q, v)
        BY <2>1 DEF IInv, AdmittedByCredentials
    <2> QED
        BY <2>1, <2>2, <2>3 DEF IInv, RowsOfSignups, Matches
<1> QED
    BY <1>1, InvariantHolds, PTL

(* The cookie of a browser is of an account whose password it sent. *)
THEOREM SessionsAreEarned == Spec => []SessionIsEarned
<1>1. IInv => SessionIsEarned
    BY SessionIsProven DEF IInv, TokensStay, SessionIsEarned
<1> QED
    BY <1>1, InvariantHolds, PTL

(* Nobody is shown the profile or an order of somebody else. *)
THEOREM OwnersOnly == Spec => []ServedToOwner
<1>1. IInv => ServedToOwner
    BY DEF IInv
<1> QED
    BY <1>1, InvariantHolds, PTL

(* A row of users is an account one can log in to. *)
THEOREM AccountsAreUsable == Spec => AccountUsable
<1>1. IInv /\ [Next]_vars =>
        [\A r, q \in Requests :
            /\ status[r] = "none" /\ status'[r] = "401" /\ r \notin failed'
            /\ call[r].op = "login"
            /\ q \in {u.id : u \in users}
            => EmailOf(q) # EmailOf(r) \/ call[q].password # call[r].password]_vars
    <2>1. SUFFICES ASSUME IInv, Next, NEW r \in Requests, NEW u \in users,
                          status[r] = "none", status'[r] = "401", r \notin failed',
                          call[r].op = "login"
                   PROVE  EmailOf(u.id) # EmailOf(r) \/ call[u.id].password # call[r].password
        OBVIOUS
    <2>2. PICK p \in Requests : (\E c \in Calls : Send(p, c)) \/ Handle(p)
                                \/ Receive(p) \/ Lose(p) \/ Expire(p)
        BY <2>1 DEF Next
    <2>3. Handle(p)
        BY <2>1, <2>2 DEF Send, Receive, Lose, Expire, requests
    <2>4. PICK code, acc : Handled(p, code, acc)
        BY <2>1, <2>3, HandleForm
    <2>5. p = r /\ code = "401"
        BY <2>1, <2>4, AnswersKeep
    <2>6. ~Matches(r, u)
        BY <2>1, <2>4, <2>5 DEF Handled
    <2>7. u = Account(u.id)
        BY <2>1 DEF IInv, RowsOfSignups
    <2>8. u.email = EmailOf(u.id) /\ u.password = call[u.id].password
        BY <2>7 DEF Account
    <2> QED
        BY <2>6, <2>8 DEF Matches
<1> QED
    BY <1>1, InvariantHolds, PTL DEF Spec, AccountUsable
=============================================================================
