-------------------------- MODULE StorefrontProofs --------------------------
(***************************************************************************)
(* Theorems about the cart in the pages of the frontend: its types, that   *)
(* the optimistic view comes true, and what a failed action leaves.        *)
(***************************************************************************)
EXTENDS Storefront, SequenceTheorems, TLAPS

Entry == [product : Products, quantity : 1 .. MaxQuantity]

Lines == Seq(Entry)

Once(s) == \A i, j \in DOMAIN s : s[i].product = s[j].product => i = j

\* The quantity of p in a list of lines.
Amount(s, p) ==
    IF Carts!Holds(s, p)
    THEN LET i == CHOOSE j \in DOMAIN s : s[j].product = p IN s[i].quantity
    ELSE 0

\* t is s but for p, of which it has n.
Changed(s, t, p, n) ==
    /\ t \in Lines /\ Once(t)
    /\ Amount(t, p) = n
    /\ \A x \in Products : x # p => Amount(t, x) = Amount(s, x)
-----------------------------------------------------------------------------
(* Lists of lines.                                                         *)

\* The quantity of a product is that of its line.
LEMMA AmountOfLine ==
    ASSUME NEW s, Once(s), NEW i \in DOMAIN s
    PROVE  Amount(s, s[i].product) = s[i].quantity
<1> DEFINE p == s[i].product
           c == CHOOSE j \in DOMAIN s : s[j].product = p
<1>1. c \in DOMAIN s /\ s[c].product = p
  OBVIOUS
<1>2. c = i
  BY <1>1 DEF Once
<1>. QED BY <1>2 DEF Amount, Carts!Holds

\* It is a number, and zero only without a line.
LEMMA AmountShape ==
    ASSUME NEW s \in Lines, Once(s), NEW p
    PROVE  /\ Amount(s, p) \in 0 .. MaxQuantity
           /\ Amount(s, p) = 0 <=> ~Carts!Holds(s, p)
<1>0. MaxQuantity \in Nat
  BY StorefrontAssumption
<1>1. CASE Carts!Holds(s, p)
  <2>1. PICK i \in DOMAIN s : s[i].product = p
    BY <1>1 DEF Carts!Holds
  <2>2. s[i] \in Entry
    BY DEF Lines
  <2>3. Amount(s, p) = s[i].quantity /\ s[i].quantity \in 1 .. MaxQuantity
    BY <2>1, <2>2, AmountOfLine DEF Entry
  <2>. QED BY <1>0, <1>1, <2>3
<1>2. CASE ~Carts!Holds(s, p)
  BY <1>0, <1>2 DEF Amount
<1>. QED BY <1>1, <1>2

\* Two lists with the same line of x have the same of it.
LEMMA SameAmount ==
    ASSUME NEW s, NEW t, Once(s), Once(t), NEW x,
           \A i \in DOMAIN s : s[i].product = x => \E j \in DOMAIN t : t[j] = s[i],
           \A j \in DOMAIN t : t[j].product = x => \E i \in DOMAIN s : s[i].product = x
    PROVE  Amount(t, x) = Amount(s, x)
<1>1. CASE Carts!Holds(s, x)
  <2>1. PICK i \in DOMAIN s : s[i].product = x
    BY <1>1 DEF Carts!Holds
  <2>2. PICK j \in DOMAIN t : t[j] = s[i]
    BY <2>1
  <2>3. Amount(s, x) = s[i].quantity /\ Amount(t, x) = t[j].quantity
    BY <2>1, <2>2, AmountOfLine
  <2>. QED BY <2>2, <2>3
<1>2. CASE ~Carts!Holds(s, x)
  BY <1>2 DEF Amount, Carts!Holds
<1>. QED BY <1>1, <1>2

\* Appending a line.
LEMMA AppendChanges ==
    ASSUME NEW s \in Lines, Once(s), NEW p \in Products, NEW q \in 1 .. MaxQuantity,
           ~Carts!Holds(s, p)
    PROVE  Changed(s, Append(s, Carts!Line(p, q)), p, q)
<1> DEFINE l == Carts!Line(p, q)
           t == Append(s, l)
           n == Len(s)
<1>0. l \in Entry /\ l.product = p /\ l.quantity = q
  BY DEF Carts!Line, Entry
<1>1. /\ n \in Nat /\ DOMAIN s = 1 .. n /\ t \in Lines
      /\ DOMAIN t = 1 .. n + 1 /\ t[n + 1] = l
      /\ \A i \in 1 .. n : t[i] = s[i]
  BY <1>0, AppendProperties, LenProperties DEF Lines
<1>2. \A i \in 1 .. n : s[i].product # p
  BY <1>1 DEF Carts!Holds
<1> HIDE DEF t, l, n
<1>3. \A i \in DOMAIN t : i \in 1 .. n \/ i = n + 1
  BY <1>1
<1>4. Once(t)
  BY <1>0, <1>1, <1>2, <1>3 DEF Once
<1>5. Amount(t, p) = q
  <2>1. n + 1 \in DOMAIN t
    BY <1>1
  <2>. QED BY <1>0, <1>1, <1>4, <2>1, AmountOfLine
<1>6. ASSUME NEW x \in Products, x # p PROVE Amount(t, x) = Amount(s, x)
  <2>1. \A i \in DOMAIN s : i \in DOMAIN t /\ t[i] = s[i]
    BY <1>1
  <2>2. \A j \in DOMAIN t : t[j].product = x => j \in DOMAIN s /\ t[j] = s[j]
    BY <1>0, <1>1, <1>3, <1>6
  <2>. QED BY <1>4, <2>1, <2>2, SameAmount
<1>. QED BY <1>1, <1>4, <1>5, <1>6 DEF Changed, t, l

\* Changing the quantity of a line.
LEMMA QuantityChanges ==
    ASSUME NEW s \in Lines, Once(s), NEW i \in DOMAIN s, NEW q \in 1 .. MaxQuantity
    PROVE  Changed(s, [s EXCEPT ![i].quantity = q], s[i].product, q)
<1> DEFINE t == [s EXCEPT ![i].quantity = q]
<1>1. /\ DOMAIN s = 1 .. Len(s) /\ Len(s) \in Nat /\ DOMAIN t = DOMAIN s
      /\ s \in [1 .. Len(s) -> Entry]
  BY DEF Lines
<1>2. \A j \in DOMAIN s : /\ s[j] \in Entry
                          /\ t[j] = IF j = i THEN [s[i] EXCEPT !.quantity = q] ELSE s[j]
  BY <1>1
<1>3. \A j \in DOMAIN s : /\ t[j] \in Entry
                          /\ t[j].product = s[j].product
                          /\ j = i => t[j].quantity = q
                          /\ j # i => t[j] = s[j]
  BY <1>2 DEF Entry
<1>4. t \in Lines
  <2>1. t \in [1 .. Len(s) -> Entry]
    BY <1>1, <1>3
  <2>. QED BY <1>1, <2>1, IsASeq DEF Lines
<1> HIDE DEF t
<1>5. Once(t)
  BY <1>1, <1>3 DEF Once
<1>6. Amount(t, s[i].product) = q
  BY <1>1, <1>3, <1>5, AmountOfLine
<1>7. ASSUME NEW x \in Products, x # s[i].product PROVE Amount(t, x) = Amount(s, x)
  BY <1>1, <1>3, <1>5, <1>7, SameAmount
<1>. QED BY <1>4, <1>5, <1>6, <1>7 DEF Changed, t

\* Taking a line out.
LEMMA WithoutChanges ==
    ASSUME NEW s \in Lines, Once(s), NEW i \in DOMAIN s
    PROVE  Changed(s, Carts!Without(s, i), s[i].product, 0)
<1> DEFINE t == Carts!Without(s, i)
           n == Len(s)
<1>1. n \in Nat /\ DOMAIN s = 1 .. n /\ i \in 1 .. n
      /\ s \in [1 .. n -> Entry]
  BY DEF Lines
<1>2. DOMAIN t = 1 .. n - 1
  BY DEF Carts!Without
<1>3. \A j \in 1 .. n - 1 : t[j] = IF j < i THEN s[j] ELSE s[j + 1]
  BY DEF Carts!Without
<1>4. t \in Lines
  <2>1. t = [j \in 1 .. n - 1 |-> t[j]]
    BY DEF Carts!Without
  <2>2. \A j \in 1 .. n - 1 : j \in 1 .. n /\ j + 1 \in 1 .. n
    BY <1>1
  <2>3. \A j \in 1 .. n - 1 : t[j] \in Entry
    BY <1>1, <1>3, <2>2
  <2>4. n - 1 \in Nat
    BY <1>1
  <2> HIDE DEF t
  <2>. QED BY <2>1, <2>3, <2>4, IsASeq DEF Lines
<1> HIDE DEF t, n
<1>5. ASSUME NEW j \in DOMAIN t
      PROVE  \E k \in DOMAIN s : t[j] = s[k] /\ k # i /\ k = IF j < i THEN j ELSE j + 1
  <2>1. CASE j < i
    <3>1. j \in DOMAIN s /\ t[j] = s[j] /\ j # i
      BY <1>1, <1>2, <1>3, <2>1
    <3>. QED BY <2>1, <3>1
  <2>2. CASE ~(j < i)
    <3>1. j + 1 \in DOMAIN s /\ t[j] = s[j + 1] /\ j + 1 # i
      BY <1>1, <1>2, <1>3, <2>2
    <3>. QED BY <2>2, <3>1
  <2>. QED BY <2>1, <2>2
<1>6. ASSUME NEW k \in DOMAIN s, k # i PROVE \E j \in DOMAIN t : t[j] = s[k]
  <2>1. CASE k < i
    <3>1. k \in 1 .. n - 1
      BY <1>1, <2>1
    <3>. QED BY <1>2, <1>3, <2>1, <3>1
  <2>2. CASE k > i
    <3>1. k - 1 \in 1 .. n - 1 /\ (k - 1) + 1 = k /\ ~(k - 1 < i)
      BY <1>1, <2>2
    <3>. QED BY <1>2, <1>3, <3>1
  <2>. QED BY <1>1, <1>6, <2>1, <2>2
<1>7. Once(t)
  <2>. SUFFICES ASSUME NEW j \in DOMAIN t, NEW m \in DOMAIN t, t[j].product = t[m].product
                PROVE  j = m
    BY DEF Once
  <2>1. (IF j < i THEN j ELSE j + 1) = (IF m < i THEN m ELSE m + 1)
    BY <1>5 DEF Once
  <2>. QED BY <1>1, <1>2, <2>1
<1>8. Amount(t, s[i].product) = 0
  BY <1>5 DEF Amount, Carts!Holds, Once
<1>9. ASSUME NEW x \in Products, x # s[i].product PROVE Amount(t, x) = Amount(s, x)
  BY <1>5, <1>6, <1>7, <1>9, SameAmount
<1>. QED BY <1>4, <1>7, <1>8, <1>9 DEF Changed, t
-----------------------------------------------------------------------------
(* The carts.                                                              *)

CartsInv ==
    /\ cart \in [Users -> Lines] /\ \A u \in Users : Once(cart[u])
    /\ DOMAIN edit = {"page"}

\* Only u has another quantity, and only of p.
OnlyOf(u, p) ==
    \A v \in Users, x \in Products : v # u \/ x # p => Quantity(v, x)' = Quantity(v, x)

\* The quantity that Storefront speaks of.
LEMMA QuantityIsAmount ==
    /\ \A u, p : Quantity(u, p) = Amount(cart[u], p)
    /\ \A u, p : Quantity(u, p)' = Amount(cart'[u], p)
BY DEF Quantity, Amount

\* A number of units that a cart can hold.
LEMMA QuantityShape ==
    ASSUME CartsInv, NEW u \in Users, NEW p
    PROVE  /\ Quantity(u, p) \in 0 .. MaxQuantity
           /\ Quantity(u, p) = 0 <=> ~Carts!Holds(cart[u], p)
<1>1. cart[u] \in Lines /\ Once(cart[u])
  BY DEF CartsInv
<1>. QED BY <1>1, QuantityIsAmount, AmountShape

\* A cart that changes in one line.
LEMMA CartChanges ==
    ASSUME CartsInv, NEW u \in Users, NEW p \in Products, NEW t, NEW n,
           Changed(cart[u], t, p, n), cart' = [cart EXCEPT ![u] = t]
    PROVE  /\ cart' \in [Users -> Lines] /\ \A v \in Users : Once(cart'[v])
           /\ Quantity(u, p)' = n /\ OnlyOf(u, p)
<1>1. \A v \in Users : cart'[v] = IF v = u THEN t ELSE cart[v]
  BY DEF CartsInv
<1>2. cart' \in [Users -> Lines] /\ \A v \in Users : Once(cart'[v])
  BY <1>1 DEF CartsInv, Changed
<1>3. Quantity(u, p)' = n
  BY <1>1, QuantityIsAmount DEF Changed
<1>4. ASSUME NEW v \in Users, NEW x \in Products, v # u \/ x # p
      PROVE  Quantity(v, x)' = Quantity(v, x)
  BY <1>1, <1>4, QuantityIsAmount DEF Changed
<1>. QED BY <1>2, <1>3, <1>4 DEF OnlyOf

\* A cart that does not change.
LEMMA CartStays ==
    ASSUME UNCHANGED cart
    PROVE  \A u, p : Quantity(u, p)' = Quantity(u, p)
BY QuantityIsAmount

Amounts == 0 .. MaxQuantity + 1

\* What the page asks for.
IsCall(c) ==
    /\ c.user \in Users /\ c.product \in Products
    /\ c.op \in {"add", "remove"} /\ c.quantity \in Amounts

\* A call of the page keeps the carts and does to the line what it says, or fails and
\* does nothing; one that did it may have failed as well.
LEMMA CallHandled ==
    ASSUME CartsInv, NEW c, IsCall(c),
           \/ c.quantity <= MaxQuantity /\ Carts!Handle("page", c)
           \/ Carts!Refuse("page", c, "invalid")
    PROVE  /\ CartsInv' /\ OnlyOf(c.user, c.product)
           /\ \/ Failed' /\ Quantity(c.user, c.product)' = Quantity(c.user, c.product)
              \/ c.op = "remove" /\ Quantity(c.user, c.product)' = 0
              \/ /\ c.op = "add"
                 /\ Quantity(c.user, c.product)' = Quantity(c.user, c.product) + c.quantity
<1> DEFINE u == c.user
           p == c.product
           s == cart[u]
<1>0. /\ u \in Users /\ p \in Products /\ c.op \in {"add", "remove"} /\ c.quantity \in Int
      /\ c.quantity <= MaxQuantity + 1 /\ MaxQuantity \in Nat
      /\ s \in Lines /\ Once(s)
  BY StorefrontAssumption DEF IsCall, Amounts, CartsInv
<1>1. ASSUME NEW x, edit' = [edit EXCEPT !["page"] = [call |-> c, answer |-> x]]
      PROVE  DOMAIN edit' = {"page"} /\ (Failed' <=> x \notin {"none", "ok"})
  BY <1>1 DEF CartsInv, Failed
<1>2. ASSUME NEW x, Carts!Refuse("page", c, x)
      PROVE  /\ CartsInv' /\ OnlyOf(u, p) /\ Quantity(u, p)' = Quantity(u, p)
             /\ Failed' <=> x \notin {"none", "ok"}
  BY <1>1, <1>2, CartStays DEF Carts!Refuse, CartsInv, OnlyOf
<1>3. ASSUME Carts!Accept("page", c) PROVE DOMAIN edit' = {"page"}
  BY <1>1, <1>3 DEF Carts!Accept
<1>4. ASSUME NEW t, NEW n, Changed(s, t, p, n), cart' = [cart EXCEPT ![u] = t],
             Carts!Accept("page", c)
      PROVE  CartsInv' /\ OnlyOf(u, p) /\ Quantity(u, p)' = n
  BY <1>0, <1>3, <1>4, CartChanges DEF CartsInv
<1>5. CASE c.quantity <= MaxQuantity /\ Carts!AddLine("page", c)
  <2>1. /\ c.op = "add" /\ c.quantity >= 1 /\ ~Carts!Holds(s, p) /\ Carts!Accept("page", c)
        /\ cart' = [cart EXCEPT ![u] = Append(s, Carts!Line(p, c.quantity))]
    BY <1>5 DEF Carts!AddLine
  <2>2. Quantity(u, p) = 0
    BY <1>0, <2>1, QuantityShape
  <2>3. c.quantity \in 1 .. MaxQuantity /\ 0 + c.quantity = c.quantity
    BY <1>0, <1>5, <2>1
  <2>4. Changed(s, Append(s, Carts!Line(p, c.quantity)), p, c.quantity)
    BY <1>0, <2>1, <2>3, AppendChanges
  <2>. QED BY <1>4, <2>1, <2>2, <2>3, <2>4
<1>6. CASE Carts!AddToLine("page", c)
  <2>1. PICK i \in DOMAIN s :
           /\ c.op = "add" /\ c.quantity >= 1 /\ Carts!Accept("page", c)
           /\ s[i].product = p /\ s[i].quantity + c.quantity <= MaxQuantity
           /\ cart' = [cart EXCEPT ![u] = [s EXCEPT ![i].quantity = s[i].quantity + c.quantity]]
    BY <1>6 DEF Carts!AddToLine
  <2>2. s[i].quantity = Quantity(u, p) /\ Quantity(u, p) \in 0 .. MaxQuantity
    BY <1>0, <2>1, AmountOfLine, QuantityIsAmount, QuantityShape
  <2>3. Quantity(u, p) + c.quantity \in 1 .. MaxQuantity
    BY <1>0, <2>1, <2>2
  <2>4. Changed(s, [s EXCEPT ![i].quantity = s[i].quantity + c.quantity], p,
                s[i].quantity + c.quantity)
    BY <1>0, <2>1, <2>2, <2>3, QuantityChanges
  <2>. QED BY <1>4, <2>1, <2>2, <2>4
<1>7. CASE Carts!RemoveItem("page", c)
  <2>1. PICK i \in DOMAIN s :
           /\ c.op = "remove" /\ s[i].product = p /\ Carts!Accept("page", c)
           /\ cart' = [cart EXCEPT ![u] = Carts!Without(s, i)]
    BY <1>7 DEF Carts!RemoveItem
  <2>2. Changed(s, Carts!Without(s, i), p, 0)
    BY <1>0, <2>1, WithoutChanges
  <2>. QED BY <1>4, <2>1, <2>2
<1>8. CASE Carts!RemoveNothing("page", c)
  <2>1. c.op = "remove" /\ ~Carts!Holds(s, p) /\ Carts!Refuse("page", c, "ok")
    BY <1>8 DEF Carts!RemoveNothing
  <2>2. Quantity(u, p) = 0
    BY <1>0, <2>1, QuantityShape
  <2>. QED BY <1>2, <2>1, <2>2
<1>9. CASE \/ Carts!AddUnknown("page", c) \/ Carts!AddOverflows("page", c)
           \/ Carts!InvalidQuantity("page", c) \/ Carts!EditFails("page", c)
           \/ Carts!Refuse("page", c, "invalid")
  <2>1. \E x \in {"not_found", "error", "invalid"} : Carts!Refuse("page", c, x)
    BY <1>9 DEF Carts!AddUnknown, Carts!AddOverflows, Carts!InvalidQuantity, Carts!EditFails
  <2>. QED BY <1>2, <2>1
<1>10. ~Carts!SetItemQuantity("page", c) /\ ~Carts!SetUnknown("page", c) /\ ~Carts!Clear("page", c)
  BY <1>0 DEF Carts!SetItemQuantity, Carts!SetUnknown, Carts!Clear
<1>. QED BY <1>5, <1>6, <1>7, <1>8, <1>9, <1>10 DEF Carts!Handle
-----------------------------------------------------------------------------
(* The page.                                                               *)

Calls == [op : {"add", "remove"}, product : Products, quantity : Amounts]

Plans == Seq(Calls)

Actions == [product : Products, calls : Plans]

\* All the calls are about p.
AllFor(calls, p) == \A i \in DOMAIN calls : calls[i].product = p

\* The action that runs is the first one.
RunningInv ==
    \/ running = Nobody
    \/ /\ running \in [user : Users, calls : Plans]
       /\ todo # <<>> /\ AllFor(running.calls, todo[1].product)

PageInv ==
    /\ session \in Users
    /\ view \in [Products -> Amounts] /\ fresh \in [Products -> 0 .. MaxQuantity]
    /\ todo \in Seq(Actions) /\ Len(todo) <= Pending
    /\ \A i \in DOMAIN todo : AllFor(todo[i].calls, todo[i].product)
    /\ doubt \in SUBSET Products
    /\ RunningInv

TypeInv == CartsInv /\ PageInv

\* A bound that is a number has numbers below it.
LEMMA Numbers ==
    /\ MaxQuantity \in Nat /\ Pending \in Nat
    /\ \A q \in Amounts : q \in Int /\ 0 <= q /\ q <= MaxQuantity + 1
    /\ 0 .. MaxQuantity \subseteq Amounts
BY StorefrontAssumption DEF Amounts

\* The first of a list and what is left without it.
LEMMA FirstAndRest ==
    ASSUME NEW S, NEW s \in Seq(S), s # <<>>
    PROVE  /\ Len(s) \in Nat /\ Len(s) >= 1 /\ DOMAIN s = 1 .. Len(s)
           /\ 1 \in DOMAIN s /\ Head(s) = s[1] /\ s[1] \in S
           /\ Tail(s) \in Seq(S) /\ Len(Tail(s)) = Len(s) - 1
           /\ DOMAIN Tail(s) = 1 .. Len(s) - 1
           /\ \A i \in 1 .. Len(s) - 1 : i + 1 \in DOMAIN s /\ Tail(s)[i] = s[i + 1]
<1>1. Len(s) \in Nat /\ DOMAIN s = 1 .. Len(s) /\ Len(s) >= 1
  BY EmptySeq, LenProperties
<1>2. 1 \in DOMAIN s /\ s[1] \in S /\ Head(s) = s[1]
  BY <1>1, ElementOfSeq
<1>3. /\ Tail(s) \in Seq(S) /\ Len(Tail(s)) = Len(s) - 1
      /\ \A i \in 1 .. Len(Tail(s)) : Tail(s)[i] = s[i + 1]
  BY HeadTailProperties
<1>4. DOMAIN Tail(s) = 1 .. Len(s) - 1
  BY <1>3, LenProperties
<1>. QED BY <1>1, <1>2, <1>3, <1>4

\* One call, and two.
LEMMA ShortPlans ==
    ASSUME NEW p, NEW c \in Calls, c.product = p, NEW d \in Calls, d.product = p
    PROVE  /\ <<c>> \in Plans /\ <<c>> # <<>> /\ AllFor(<<c>>, p)
           /\ <<c, d>> \in Plans /\ <<c, d>> # <<>> /\ AllFor(<<c, d>>, p)
<1>1. \A i \in DOMAIN <<c>> : <<c>>[i].product = p
  OBVIOUS
<1>2. \A i \in DOMAIN <<c, d>> : <<c, d>>[i].product = p
  OBVIOUS
<1>3. <<c>> \in Plans /\ <<c, d>> \in Plans
  BY DEF Plans
<1>. QED BY <1>1, <1>2, <1>3 DEF AllFor

\* The first action.
LEMMA FirstAction ==
    ASSUME PageInv, todo # <<>>
    PROVE  /\ todo \in Seq(Actions) /\ Len(todo) \in Nat /\ Len(todo) >= 1
           /\ DOMAIN todo = 1 .. Len(todo) /\ 1 \in DOMAIN todo
           /\ Head(todo) = todo[1] /\ todo[1].product \in Products
           /\ todo[1].calls \in Plans /\ AllFor(todo[1].calls, todo[1].product)
<1>1. todo \in Seq(Actions)
  BY DEF PageInv
<1>2. /\ Len(todo) \in Nat /\ Len(todo) >= 1 /\ DOMAIN todo = 1 .. Len(todo)
      /\ 1 \in DOMAIN todo /\ Head(todo) = todo[1] /\ todo[1] \in Actions
  BY <1>1, FirstAndRest
<1>. QED BY <1>1, <1>2 DEF PageInv, Actions

\* The calls of an action are never none, and all for its product.
LEMMA CallsOfShape ==
    ASSUME NEW p \in Products, NEW a \in Amounts, NEW b \in Amounts
    PROVE  /\ CallsOf(p, a, b) \in Plans /\ CallsOf(p, a, b) # <<>>
           /\ AllFor(CallsOf(p, a, b), p)
           /\ b = 0 => CallsOf(p, a, b) = <<Call("remove", p, 0)>>
           /\ b # 0 /\ b > a => CallsOf(p, a, b) = <<Call("add", p, b - a)>>
           /\ b # 0 /\ ~(b > a) =>
                 CallsOf(p, a, b) = <<Call("remove", p, 0), Call("add", p, b)>>
<1>1. MaxQuantity \in Nat /\ a \in Int /\ b \in Int /\ 0 <= a /\ 0 <= b /\ b <= MaxQuantity + 1
  BY Numbers
<1>2. /\ Call("remove", p, 0) \in Calls /\ Call("add", p, b) \in Calls
      /\ b > a => Call("add", p, b - a) \in Calls
      /\ \A op, q : Call(op, p, q).product = p
  BY <1>1 DEF Call, Calls, Amounts
<1>3. CASE b = 0
  <2>1. CallsOf(p, a, b) = <<Call("remove", p, 0)>>
    BY <1>1, <1>3 DEF CallsOf
  <2>. QED BY <1>1, <1>2, <1>3, <2>1, ShortPlans
<1>4. CASE b # 0 /\ b > a
  <2>1. CallsOf(p, a, b) = <<Call("add", p, b - a)>>
    BY <1>1, <1>4 DEF CallsOf
  <2>. QED BY <1>1, <1>2, <1>4, <2>1, ShortPlans
<1>5. CASE b # 0 /\ ~(b > a)
  <2>1. CallsOf(p, a, b) = <<Call("remove", p, 0), Call("add", p, b)>>
    BY <1>1, <1>5 DEF CallsOf, Shrink
  <2>. QED BY <1>1, <1>2, <1>5, <2>1, ShortPlans
<1>. QED BY <1>3, <1>4, <1>5

\* They are to make of it what the page showed after the click.
LEMMA GoalOfCalls ==
    ASSUME NEW p \in Products, NEW a \in Amounts, NEW b \in Amounts
    PROVE  Goal(a, CallsOf(p, a, b)) = b
<1>1. a \in Int /\ b \in Int /\ 0 <= a /\ 0 <= b
  BY Numbers
<1>2. ASSUME NEW c PROVE Goal(a, <<c>>) = Result(a, c)
  BY DEF Goal
<1>3. ASSUME NEW c, NEW d PROVE Goal(a, <<c, d>>) = Result(Result(a, c), d)
  BY DEF Goal
<1>4. CASE b = 0
  BY <1>2, <1>4, CallsOfShape DEF Result, Call
<1>5. CASE b # 0 /\ b > a
  BY <1>1, <1>2, <1>5, CallsOfShape DEF Result, Call
<1>6. CASE b # 0 /\ ~(b > a)
  BY <1>1, <1>3, <1>6, CallsOfShape DEF Result, Call
<1>. QED BY <1>1, <1>4, <1>5, <1>6

\* The request of an action that runs is one of the page's, for its product.
LEMMA RequestIsCall ==
    ASSUME PageInv, Busy, running.calls # <<>>
    PROVE  /\ IsCall(Request) /\ Request.user = running.user
           /\ todo # <<>> /\ Request.product = todo[1].product
           /\ Request.op = running.calls[1].op
           /\ Request.quantity = running.calls[1].quantity
<1>1. /\ running.user \in Users /\ running.calls \in Seq(Calls)
      /\ todo # <<>> /\ AllFor(running.calls, todo[1].product)
  BY DEF PageInv, RunningInv, Busy, Plans
<1>2. /\ 1 \in DOMAIN running.calls /\ running.calls[1] \in Calls
      /\ Head(running.calls) = running.calls[1]
  BY <1>1, FirstAndRest
<1>. QED BY <1>1, <1>2 DEF Request, IsCall, Calls, AllFor

\* What the server renders are numbers of units that a cart can hold.
LEMMA RenderedShape ==
    ASSUME CartsInv
    PROVE  /\ Nothing \in [Products -> 0 .. MaxQuantity]
           /\ \A u \in Users : Stored(u) \in [Products -> 0 .. MaxQuantity]
BY Numbers, QuantityShape DEF Nothing, Stored

\* The page and the carts have their types at the start.
LEMMA InitTypes == Init => TypeInv
<1>. SUFFICES ASSUME Init PROVE TypeInv
  OBVIOUS
<1>1. CartsInv
  BY DEF Init, Carts!Init, CartsInv, Lines, Once
<1>2. view \in [Products -> Amounts] /\ fresh \in [Products -> 0 .. MaxQuantity]
  BY Numbers DEF Init, Nothing, Amounts
<1>3. PageInv
  BY <1>2, Numbers DEF Init, PageInv, RunningInv
<1>. QED BY <1>1, <1>3 DEF TypeInv

\* A click asks for a number of units that the page can show, and adds an action.
LEMMA ClickAppends ==
    ASSUME PageInv, NEW p \in Products, Add(p) \/ Minus(p) \/ Trash(p)
    PROVE  \E after \in Amounts :
              /\ view' = [view EXCEPT ![p] = after] /\ view[p] \in Amounts
              /\ todo' = Append(todo, [product |-> p, calls |-> CallsOf(p, view[p], after)])
              /\ Len(todo) < Pending
              /\ UNCHANGED <<cart, edit, session, fresh, running, doubt>>
<1>1. view[p] \in Amounts /\ view[p] \in Int /\ 0 <= view[p] /\ MaxQuantity \in Nat
  BY Numbers DEF PageInv
<1>2. CASE Add(p)
  <2>1. view[p] + 1 \in Amounts
    BY <1>1, <1>2 DEF Add, Click, Amounts
  <2>. QED BY <1>1, <1>2, <2>1 DEF Add, Click
<1>3. CASE Minus(p)
  <2>1. view[p] - 1 \in Amounts
    BY <1>1, <1>3 DEF Minus, Click, Amounts
  <2>. QED BY <1>1, <1>3, <2>1 DEF Minus, Click
<1>4. CASE Trash(p)
  <2>1. 0 \in Amounts
    BY <1>1 DEF Amounts
  <2>. QED BY <1>1, <1>4, <2>1 DEF Trash, Click
<1>. QED BY <1>2, <1>3, <1>4

\* A click keeps the types.
LEMMA ClickTypes ==
    ASSUME TypeInv, NEW p \in Products, Add(p) \/ Minus(p) \/ Trash(p)
    PROVE  TypeInv'
<1>1. PICK after \in Amounts :
         /\ view' = [view EXCEPT ![p] = after] /\ view[p] \in Amounts
         /\ todo' = Append(todo, [product |-> p, calls |-> CallsOf(p, view[p], after)])
         /\ Len(todo) < Pending
         /\ UNCHANGED <<cart, edit, session, fresh, running, doubt>>
  BY ClickAppends DEF TypeInv
<1> DEFINE a == [product |-> p, calls |-> CallsOf(p, view[p], after)]
<1>2. a \in Actions /\ AllFor(a.calls, a.product)
  BY <1>1, CallsOfShape DEF Actions
<1> HIDE DEF a
<1>3. /\ todo' \in Seq(Actions) /\ todo' # <<>>
      /\ Len(todo) \in Nat /\ Len(todo') = Len(todo) + 1
      /\ DOMAIN todo = 1 .. Len(todo) /\ DOMAIN todo' = 1 .. Len(todo) + 1
      /\ \A i \in 1 .. Len(todo) : todo'[i] = todo[i]
      /\ todo'[Len(todo) + 1] = a
  BY <1>1, <1>2, AppendProperties, LenProperties DEF a, TypeInv, PageInv
<1>4. \A i \in DOMAIN todo' : AllFor(todo'[i].calls, todo'[i].product)
  <2>1. \A i \in DOMAIN todo' : i \in DOMAIN todo \/ i = Len(todo) + 1
    BY <1>3
  <2>. QED BY <1>2, <1>3, <2>1 DEF TypeInv, PageInv
<1>5. RunningInv'
  <2>1. todo # <<>> => todo'[1] = todo[1]
    BY <1>3, FirstAndRest DEF TypeInv, PageInv
  <2>. QED BY <1>1, <1>3, <2>1 DEF TypeInv, PageInv, RunningInv, Nobody
<1>6. Len(todo') <= Pending
  BY <1>1, <1>3, Numbers
<1>7. view' \in [Products -> Amounts]
  BY <1>1 DEF TypeInv, PageInv
<1>8. CartsInv'
  BY <1>1 DEF TypeInv, CartsInv
<1>. QED BY <1>1, <1>3, <1>4, <1>5, <1>6, <1>7, <1>8 DEF TypeInv, PageInv

\* The end of an action keeps the types.
LEMMA EndTypes ==
    ASSUME TypeInv, Busy, NEW r \in [Products -> 0 .. MaxQuantity], ActionEnds(r),
           doubt' \in SUBSET Products
    PROVE  TypeInv'
<1>0. todo # <<>> /\ todo \in Seq(Actions)
  BY DEF TypeInv, PageInv, RunningInv, Busy
<1>1. /\ todo' \in Seq(Actions) /\ Len(todo') <= Pending
      /\ \A i \in DOMAIN todo' : i + 1 \in DOMAIN todo /\ todo'[i] = todo[i + 1]
  BY <1>0, FirstAndRest, Numbers DEF ActionEnds, TypeInv, PageInv
<1>2. \A i \in DOMAIN todo' : AllFor(todo'[i].calls, todo'[i].product)
  BY <1>1 DEF TypeInv, PageInv
<1>3. fresh' \in [Products -> 0 .. MaxQuantity] /\ view' \in [Products -> Amounts]
  BY Numbers DEF ActionEnds, TypeInv, PageInv
<1>4. CartsInv'
  BY DEF ActionEnds, TypeInv, CartsInv
<1>5. session' \in Users /\ running' = Nobody /\ Nobody' = Nobody
  BY DEF ActionEnds, TypeInv, PageInv, Nobody
<1>. QED BY <1>1, <1>2, <1>3, <1>4, <1>5 DEF TypeInv, PageInv, RunningInv

\* A call keeps the types.
LEMMA CallTypes ==
    ASSUME TypeInv, CallMade
    PROVE  TypeInv'
<1>1. IsCall(Request)
  BY RequestIsCall DEF TypeInv, CallMade
<1>2. CartsInv'
  BY <1>1, CallHandled DEF TypeInv, CallMade
<1>3. /\ running \in [user : Users, calls : Plans] /\ running.calls # <<>>
      /\ todo # <<>> /\ AllFor(running.calls, todo[1].product)
      /\ running' = [running EXCEPT !.calls = Tail(running.calls)]
  BY DEF TypeInv, PageInv, RunningInv, CallMade, Busy
<1>4. Tail(running.calls) \in Plans /\ AllFor(Tail(running.calls), todo[1].product)
  BY <1>3, FirstAndRest DEF Plans, AllFor
<1>5. running' \in [user : Users, calls : Plans] /\ running'.calls = Tail(running.calls)
  BY <1>3, <1>4
<1>6. UNCHANGED <<session, view, fresh, todo, doubt>>
  BY DEF CallMade
<1>7. RunningInv'
  BY <1>3, <1>4, <1>5, <1>6 DEF RunningInv
<1>. QED BY <1>2, <1>6, <1>7 DEF TypeInv, PageInv

\* Another page that changes a cart changes one line of it.
LEMMA ElsewhereChanges ==
    ASSUME CartsInv, NEW u \in Users, NEW p \in Products, NEW q \in 0 .. MaxQuantity,
           Elsewhere(u, p, q)
    PROVE  CartsInv' /\ OnlyOf(u, p)
<1> DEFINE s == cart[u]
<1>1. s \in Lines /\ Once(s) /\ edit' = edit
  BY DEF CartsInv, Elsewhere
<1>2. q = 0 \/ q \in 1 .. MaxQuantity
  BY Numbers
<1>3. ASSUME NEW t, NEW n, Changed(s, t, p, n), cart' = [cart EXCEPT ![u] = t]
      PROVE  CartsInv' /\ OnlyOf(u, p)
  BY <1>1, <1>3, CartChanges DEF CartsInv
<1>4. CASE /\ q > 0 /\ ~Carts!Holds(s, p)
           /\ cart' = [cart EXCEPT ![u] = Append(s, Carts!Line(p, q))]
  <2>1. Changed(s, Append(s, Carts!Line(p, q)), p, q)
    BY <1>1, <1>2, <1>4, AppendChanges
  <2>. QED BY <1>3, <1>4, <2>1
<1>5. CASE \E i \in DOMAIN s :
              /\ s[i].product = p
              /\ cart' = [cart EXCEPT ![u] = IF q = 0 THEN Carts!Without(s, i)
                                            ELSE [s EXCEPT ![i].quantity = q]]
  <2>1. PICK i \in DOMAIN s :
           /\ s[i].product = p
           /\ cart' = [cart EXCEPT ![u] = IF q = 0 THEN Carts!Without(s, i)
                                         ELSE [s EXCEPT ![i].quantity = q]]
    BY <1>5
  <2>2. CASE q = 0
    <3>1. Changed(s, Carts!Without(s, i), p, 0)
      BY <1>1, <2>1, WithoutChanges
    <3>. QED BY <1>3, <2>1, <2>2, <3>1
  <2>3. CASE q # 0
    <3>1. Changed(s, [s EXCEPT ![i].quantity = q], p, q)
      BY <1>1, <1>2, <2>1, <2>3, QuantityChanges
    <3>. QED BY <1>3, <2>1, <2>3, <3>1
  <2>. QED BY <2>2, <2>3
<1>. QED BY <1>4, <1>5 DEF Elsewhere

\* Every step keeps the types.
LEMMA NextTypes == TypeInv /\ [Next]_vars => TypeInv'
<1>. SUFFICES ASSUME TypeInv, [Next]_vars PROVE TypeInv'
  OBVIOUS
<1>0. CartsInv /\ PageInv
  BY DEF TypeInv
<1>1. CASE UNCHANGED vars
  BY <1>0, <1>1 DEF vars, page, TypeInv, CartsInv, PageInv, RunningInv, Nobody
<1>2. CASE \E p \in Products : Add(p) \/ Minus(p) \/ Trash(p)
  BY <1>2, ClickTypes
<1>3. CASE ActionStarts
  <2>1. todo # <<>> /\ todo \in Seq(Actions) /\ session \in Users
    BY <1>0, <1>3 DEF PageInv, ActionStarts
  <2>2. 1 \in DOMAIN todo /\ Head(todo) = todo[1] /\ todo[1] \in Actions
    BY <2>1, FirstAndRest
  <2>3. AllFor(todo[1].calls, todo[1].product) /\ todo[1].calls \in Plans
    BY <1>0, <2>2 DEF PageInv, Actions
  <2>4. RunningInv'
    BY <1>3, <2>1, <2>2, <2>3 DEF ActionStarts, RunningInv
  <2>. QED BY <1>0, <1>3, <2>4 DEF TypeInv, ActionStarts, CartsInv, PageInv
<1>4. CASE CallMade
  BY <1>4, CallTypes
<1>5. CASE ActionSucceeds
  <2>1. running.user \in Users
    BY <1>0, <1>5 DEF ActionSucceeds, PageInv, RunningInv, Busy
  <2>2. Stored(running.user) \in [Products -> 0 .. MaxQuantity]
    BY <1>0, <2>1, RenderedShape
  <2>. QED BY <1>0, <1>5, <2>2, EndTypes DEF ActionSucceeds, PageInv
<1>6. CASE ActionFails
  <2>1. /\ Busy /\ ActionEnds(fresh) /\ fresh \in [Products -> 0 .. MaxQuantity]
        /\ todo # <<>> /\ todo \in Seq(Actions) /\ doubt \in SUBSET Products
    BY <1>0, <1>6 DEF ActionFails, PageInv, RunningInv, Busy
  <2>2. Head(todo).product \in Products
    BY <1>0, <2>1, FirstAction
  <2>. QED BY <1>6, <2>1, <2>2, EndTypes DEF ActionFails
<1>7. CASE RenderedEmpty
  BY <1>0, <1>7, RenderedShape, EndTypes DEF RenderedEmpty
<1>8. ASSUME NEW r \in [Products -> 0 .. MaxQuantity], Load(r), doubt' \in SUBSET Products
      PROVE  TypeInv'
  <2>1. view' \in [Products -> Amounts] /\ fresh' \in [Products -> 0 .. MaxQuantity]
    BY <1>8, Numbers DEF Load
  <2>2. UNCHANGED <<cart, edit, session, todo, running>>
    BY <1>8 DEF Load
  <2>. QED BY <1>0, <1>8, <2>1, <2>2 DEF TypeInv, CartsInv, PageInv, RunningInv, Nobody
<1>9. CASE Loaded \/ LoadedEmpty
  BY <1>0, <1>8, <1>9, RenderedShape DEF Loaded, LoadedEmpty, PageInv
<1>10. CASE \E u \in Users, p \in Products, q \in 0 .. MaxQuantity : Elsewhere(u, p, q)
  <2>1. PICK u \in Users, p \in Products, q \in 0 .. MaxQuantity : Elsewhere(u, p, q)
    BY <1>10
  <2>2. CartsInv'
    BY <1>0, <2>1, ElsewhereChanges
  <2>. QED BY <1>0, <2>1, <2>2 DEF Elsewhere, TypeInv, PageInv, RunningInv, Nobody
<1>11. CASE \E u \in Users : Switch(u)
  BY <1>0, <1>11 DEF Switch, TypeInv, CartsInv, PageInv, RunningInv, Nobody
<1>. QED BY <1>1, <1>2, <1>3, <1>4, <1>5, <1>6, <1>7, <1>9, <1>10, <1>11 DEF Next, Action

\* The types and shapes of the page and the carts are an invariant.
LEMMA TypeInvIsInvariant == Spec => []TypeInv
BY InitTypes, NextTypes, PTL DEF Spec

\* The page shows numbers of units, its list of actions is bounded, an action
\* runs for one user, and no cart holds an empty line or a product twice, however
\* the clicks, the calls, the other pages and the failures fall together.
THEOREM StorefrontIsTyped == Spec => []StorefrontTypeOK
<1>. SUFFICES TypeInv => StorefrontTypeOK
  BY TypeInvIsInvariant, PTL
<1>. SUFFICES ASSUME TypeInv PROVE StorefrontTypeOK
  OBVIOUS
<1>1. cart \in [Users -> Seq([product : Products, quantity : 1 .. MaxQuantity])]
  BY DEF TypeInv, CartsInv, Lines, Entry
<1>2. \A u \in Users : \A i, j \in DOMAIN cart[u] :
         cart[u][i].product = cart[u][j].product => i = j
  BY DEF TypeInv, CartsInv, Once
<1>3. running.user \in Users \union {"nobody"}
  BY DEF TypeInv, PageInv, RunningInv, Nobody
<1>4. /\ session \in Users /\ Len(todo) <= Pending /\ doubt \in SUBSET Products
      /\ view \in [Products -> 0 .. MaxQuantity + 1]
      /\ fresh \in [Products -> 0 .. MaxQuantity]
  BY DEF TypeInv, PageInv, Amounts
<1>. QED BY <1>1, <1>2, <1>3, <1>4 DEF StorefrontTypeOK
-----------------------------------------------------------------------------
(* What becomes of the view.                                               *)

\* f[i] is what the cart will have of p after i more actions: each action of p
\* was made to take f[i - 1] to f[i], the others leave it alone.
Steps(p, f) ==
    /\ f[0] = fresh[p] /\ f[Len(todo)] = view[p]
    /\ \A i \in DOMAIN todo :
          IF todo[i].product = p THEN todo[i].calls = CallsOf(p, f[i - 1], f[i])
                                 ELSE f[i] = f[i - 1]

\* How far the action that takes p from a to b has come.
Underway(p, a, b) ==
    \/ running.calls = CallsOf(p, a, b) /\ Quantity(session, p) = a
    \/ running.calls = <<Call("add", p, b)>> /\ Quantity(session, p) = 0 /\ b <= a
    \/ running.calls = <<>> /\ Quantity(session, p) = b

\* What it has left behind when it failed.
Contained(p, a, b) ==
    \/ Quantity(session, p) \in {a, b}
    \/ Quantity(session, p) = 0 /\ b <= a

Stands(p, a, b) ==
    IF Busy /\ todo[1].product = p
    THEN IF Failed THEN Contained(p, a, b) ELSE Underway(p, a, b)
    ELSE Quantity(session, p) = a

Expected(p) ==
    \E f \in [0 .. Len(todo) -> Amounts] : Steps(p, f) /\ Stands(p, f[0], f[1])

ChainInv == \A p \in Products \ doubt : Expected(p)

SessionInv == Busy /\ doubt # Products => running.user = session

StorefrontInv == TypeInv /\ ChainInv /\ SessionInv

\* What is expected of p depends on nothing else.
LEMMA ExpectationStays ==
    ASSUME NEW p, Expected(p), UNCHANGED <<view, fresh, todo, running, edit>>,
           (Quantity(session, p))' = Quantity(session, p)
    PROVE  Expected(p)'
<1>1. PICK f \in [0 .. Len(todo) -> Amounts] : Steps(p, f) /\ Stands(p, f[0], f[1])
  BY DEF Expected
<1>2. Steps(p, f)'
  BY <1>1 DEF Steps
<1>3. Stands(p, f[0], f[1])'
  BY <1>1 DEF Stands, Underway, Contained, Busy, Nobody, Failed
<1>. QED BY <1>1, <1>2, <1>3 DEF Expected

IdleExpects ==
    TypeInv /\ todo = <<>> /\ running = Nobody =>
        \A p \in Products :
            view[p] = fresh[p] /\ fresh[p] = Quantity(session, p) => Expected(p)

\* A page without actions, and with what the cart has, expects what it shows.
LEMMA NothingPending == IdleExpects
<1>. SUFFICES ASSUME TypeInv, todo = <<>>, running = Nobody, NEW p \in Products,
                     view[p] = fresh[p], fresh[p] = Quantity(session, p)
              PROVE  Expected(p)
  BY DEF IdleExpects
<1> DEFINE f == [i \in 0 .. Len(todo) |-> fresh[p]]
<1>1. Len(todo) = 0 /\ 0 .. Len(todo) = {0} /\ DOMAIN todo = {}
  BY EmptySeq, LenProperties
<1>2. f \in [0 .. Len(todo) -> Amounts]
  BY Numbers DEF TypeInv, PageInv
<1>3. f[0] = fresh[p]
  BY <1>1
<1> HIDE DEF f
<1>4. Steps(p, f)
  BY <1>1, <1>3 DEF Steps
<1>5. Stands(p, f[0], f[1])
  BY <1>3 DEF Stands, Busy
<1>. QED BY <1>2, <1>4, <1>5 DEF Expected

\* A click adds a step that ends in what the page now shows.
LEMMA ClickChain ==
    ASSUME StorefrontInv, NEW p \in Products, Add(p) \/ Minus(p) \/ Trash(p)
    PROVE  ChainInv' /\ SessionInv'
<1>0. TypeInv /\ ChainInv /\ SessionInv /\ PageInv /\ TypeInv'
  BY ClickTypes DEF StorefrontInv, TypeInv
<1>1. PICK after \in Amounts :
         /\ view' = [view EXCEPT ![p] = after] /\ view[p] \in Amounts
         /\ todo' = Append(todo, [product |-> p, calls |-> CallsOf(p, view[p], after)])
         /\ Len(todo) < Pending
         /\ UNCHANGED <<cart, edit, session, fresh, running, doubt>>
  BY <1>0, ClickAppends
<1> DEFINE n == Len(todo)
           a == [product |-> p, calls |-> CallsOf(p, view[p], after)]
<1>2. a \in Actions /\ a.product = p /\ a.calls = CallsOf(p, view[p], after)
  BY <1>1, CallsOfShape DEF Actions
<1> HIDE DEF a
<1>3. /\ n \in Nat /\ Len(todo') = n + 1
      /\ DOMAIN todo = 1 .. n /\ DOMAIN todo' = 1 .. n + 1
      /\ \A i \in 1 .. n : todo'[i] = todo[i]
      /\ todo'[n + 1] = a
  BY <1>0, <1>1, <1>2, AppendProperties, LenProperties DEF a, TypeInv, PageInv
<1> HIDE DEF n
<1>4. Busy => n >= 1 /\ todo'[1] = todo[1]
  BY <1>0, <1>3, FirstAction DEF PageInv, RunningInv, Busy, n
<1>5. (Busy <=> Busy') /\ (Failed <=> Failed')
  BY <1>1 DEF Busy, Nobody, Failed
<1>6. ASSUME NEW x \in Products \ doubt PROVE Expected(x)'
  <2>1. PICK f \in [0 .. n -> Amounts] : Steps(x, f) /\ Stands(x, f[0], f[1])
    BY <1>0, <1>6 DEF ChainInv, Expected, n
  <2>2. PICK g \in [0 .. n + 1 -> Amounts] :
           /\ \A i \in 0 .. n : g[i] = f[i]
           /\ g[n + 1] = IF x = p THEN after ELSE f[n]
    <3> DEFINE h == [i \in 0 .. n + 1 |->
                        IF i = n + 1 THEN (IF x = p THEN after ELSE f[n]) ELSE f[i]]
    <3>1. /\ n + 1 \in 0 .. n + 1 /\ n \in 0 .. n
          /\ \A i \in 0 .. n + 1 : i # n + 1 => i \in 0 .. n
          /\ \A i \in 0 .. n : i \in 0 .. n + 1 /\ i # n + 1
      BY <1>3
    <3>2. /\ h \in [0 .. n + 1 -> Amounts]
          /\ \A i \in 0 .. n : h[i] = f[i]
          /\ h[n + 1] = IF x = p THEN after ELSE f[n]
      BY <2>1, <3>1
    <3>. QED BY <3>2
  <2>3. f[0] = fresh[x] /\ f[n] = view[x]
    BY <2>1 DEF Steps, n
  <2>4. g[0] = fresh'[x] /\ g[Len(todo')] = view'[x]
    <3>1. 0 \in 0 .. n
      BY <1>3
    <3>2. view'[x] = IF x = p THEN after ELSE view[x]
      BY <1>0, <1>1, <1>6 DEF PageInv
    <3>. QED BY <1>1, <1>3, <2>2, <2>3, <3>1, <3>2
  <2>5. ASSUME NEW i \in 1 .. n + 1
        PROVE  IF todo'[i].product = x THEN todo'[i].calls = CallsOf(x, g[i - 1], g[i])
                                       ELSE g[i] = g[i - 1]
    <3>1. CASE i \in 1 .. n
      <4>1. i \in 0 .. n /\ i - 1 \in 0 .. n
        BY <1>3, <3>1
      <4>2. g[i] = f[i] /\ g[i - 1] = f[i - 1] /\ todo'[i] = todo[i]
        BY <1>3, <2>2, <3>1, <4>1
      <4>3. IF todo[i].product = x THEN todo[i].calls = CallsOf(x, f[i - 1], f[i])
                                   ELSE f[i] = f[i - 1]
        BY <1>3, <2>1, <3>1 DEF Steps
      <4>. QED BY <4>2, <4>3
    <3>2. CASE i = n + 1
      <4>1. i - 1 = n /\ n \in 0 .. n
        BY <1>3, <3>2
      <4>2. g[i - 1] = f[n] /\ todo'[i] = a /\ g[i] = IF x = p THEN after ELSE f[n]
        BY <1>3, <2>2, <3>2, <4>1
      <4>. QED BY <1>2, <2>3, <4>2
    <3>. QED BY <1>3, <3>1, <3>2
  <2>6. Steps(x, g)'
    BY <1>3, <2>4, <2>5 DEF Steps
  <2>7. g[0] = f[0] /\ (Busy => g[1] = f[1])
    BY <1>3, <1>4, <2>2
  <2>8. Stands(x, f[0], f[1])
    BY <2>1
  <2>9. Stands(x, g[0], g[1])'
    BY <1>1, <1>4, <1>5, <2>7, <2>8, CartStays DEF Stands, Underway, Contained
  <2>. QED BY <1>3, <2>2, <2>6, <2>9 DEF Expected
<1>7. ChainInv'
  BY <1>1, <1>6 DEF ChainInv
<1>8. SessionInv'
  BY <1>0, <1>1, <1>5 DEF SessionInv
<1>. QED BY <1>7, <1>8

\* When an action starts nothing has been done of it yet.
LEMMA StartChain ==
    ASSUME StorefrontInv, ActionStarts
    PROVE  ChainInv' /\ SessionInv'
<1>0. TypeInv /\ ChainInv /\ PageInv /\ todo # <<>> /\ ~Busy
  BY DEF StorefrontInv, TypeInv, ActionStarts
<1>1. /\ running' = [user |-> session, calls |-> todo[1].calls]
      /\ UNCHANGED <<cart, edit, session, view, fresh, todo, doubt>>
      /\ 1 \in DOMAIN todo /\ 1 - 1 = 0
  BY <1>0, FirstAction DEF ActionStarts
<1>2. running'.user = session /\ running'.calls = todo[1].calls
  BY <1>1
<1>3. ASSUME NEW x \in Products \ doubt PROVE Expected(x)'
  <2>1. PICK f \in [0 .. Len(todo) -> Amounts] : Steps(x, f) /\ Stands(x, f[0], f[1])
    BY <1>0, <1>3 DEF ChainInv, Expected
  <2>2. Steps(x, f)'
    BY <1>1, <2>1 DEF Steps
  <2>3. Quantity(session, x)' = f[0]
    BY <1>0, <1>1, <2>1, CartStays DEF Stands
  <2>4. todo[1].product = x => todo[1].calls = CallsOf(x, f[0], f[1])
    BY <1>1, <2>1 DEF Steps
  <2>5. Stands(x, f[0], f[1])'
    BY <1>1, <1>2, <2>3, <2>4 DEF Stands, Underway, Contained
  <2>. QED BY <1>1, <2>1, <2>2, <2>5 DEF Expected
<1>. QED BY <1>1, <1>2, <1>3 DEF ChainInv, SessionInv

\* A call that succeeds takes its action one call further, and one that fails leaves
\* what it found or what it was to do.
LEMMA CallTakesFurther ==
    ASSUME TypeInv, CallMade, NEW p \in Products, NEW a \in Amounts, NEW b \in Amounts,
           running.user = session, todo[1].product = p, Underway(p, a, b)
    PROVE  IF Failed' THEN Contained(p, a, b)' ELSE Underway(p, a, b)'
<1> DEFINE s == running.calls
<1>0. PICK c : c = Request
  OBVIOUS
<1>1. /\ s # <<>> /\ running' = [running EXCEPT !.calls = Tail(s)] /\ session' = session
      /\ \/ c.quantity <= MaxQuantity /\ Carts!Handle("page", c)
         \/ Carts!Refuse("page", c, "invalid")
      /\ IsCall(c) /\ c.user = session /\ c.product = p
      /\ c.op = s[1].op /\ c.quantity = s[1].quantity
  BY <1>0, RequestIsCall DEF CallMade, TypeInv
<1>2. running'.calls = Tail(s)
  BY DEF CallMade, TypeInv, PageInv, RunningInv, Busy
<1>3. /\ CartsInv
      /\ \/ Failed' /\ Quantity(session, p)' = Quantity(session, p)
         \/ c.op = "remove" /\ Quantity(session, p)' = 0
         \/ c.op = "add" /\ Quantity(session, p)' = Quantity(session, p) + c.quantity
  <2>1. CartsInv
    BY DEF TypeInv
  <2> HIDE DEF s
  <2>2. \/ Failed' /\ Quantity(c.user, c.product)' = Quantity(c.user, c.product)
        \/ c.op = "remove" /\ Quantity(c.user, c.product)' = 0
        \/ /\ c.op = "add"
           /\ Quantity(c.user, c.product)' = Quantity(c.user, c.product) + c.quantity
    BY <1>1, <2>1, CallHandled
  <2>3. /\ Quantity(c.user, c.product)' = Amount(cart'[c.user], c.product)
        /\ Quantity(session, p)' = Amount(cart'[session'], p)
    BY QuantityIsAmount
  <2>. QED BY <1>1, <2>1, <2>2, <2>3
<1>4. a \in Int /\ b \in Int /\ 0 <= a /\ 0 <= b
  BY Numbers
<1> HIDE DEF s
<1>5. ASSUME NEW d, s = <<d>> PROVE s[1] = d /\ Tail(s) = <<>>
  BY <1>5
<1>6. ASSUME NEW d, NEW e, s = <<d, e>> PROVE s[1] = d /\ Tail(s) = <<e>>
  BY <1>6
<1>7. CASE s = CallsOf(p, a, b) /\ Quantity(session, p) = a
  <2>1. CASE b = 0
    <3>1. s = <<Call("remove", p, 0)>>
      BY <1>7, <2>1, CallsOfShape
    <3>2. Tail(s) = <<>> /\ c.op = "remove"
      BY <1>1, <1>5, <3>1 DEF Call
    <3>. QED BY <1>2, <1>3, <1>7, <2>1, <3>2 DEF Underway, Contained
  <2>2. CASE b # 0 /\ b > a
    <3>1. s = <<Call("add", p, b - a)>>
      BY <1>7, <2>2, CallsOfShape
    <3>2. Tail(s) = <<>> /\ c.op = "add" /\ c.quantity = b - a
      BY <1>1, <1>5, <3>1 DEF Call
    <3>3. \/ Failed' /\ Quantity(session, p)' = a
          \/ Quantity(session, p)' = b
      BY <1>3, <1>4, <1>7, <3>2
    <3>. QED BY <1>2, <3>2, <3>3 DEF Underway, Contained
  <2>3. CASE b # 0 /\ ~(b > a)
    <3>1. s = <<Call("remove", p, 0), Call("add", p, b)>>
      BY <1>7, <2>3, CallsOfShape
    <3>2. Tail(s) = <<Call("add", p, b)>> /\ c.op = "remove" /\ b <= a
      BY <1>1, <1>4, <1>6, <2>3, <3>1 DEF Call
    <3>. QED BY <1>2, <1>3, <1>7, <3>2 DEF Underway, Contained
  <2>. QED BY <2>1, <2>2, <2>3
<1>8. CASE s = <<Call("add", p, b)>> /\ Quantity(session, p) = 0 /\ b <= a
  <2>1. Tail(s) = <<>> /\ c.op = "add" /\ c.quantity = b
    BY <1>1, <1>5, <1>8 DEF Call
  <2>2. \/ Failed' /\ Quantity(session, p)' = 0
        \/ Quantity(session, p)' = b
    BY <1>3, <1>4, <1>8, <2>1
  <2>. QED BY <1>2, <1>8, <2>1, <2>2 DEF Underway, Contained
<1>. QED BY <1>1, <1>7, <1>8 DEF Underway, s

\* A call touches the line of the running action only, and that as expected.
LEMMA CallChain ==
    ASSUME StorefrontInv, CallMade
    PROVE  ChainInv' /\ SessionInv'
<1>0. /\ TypeInv /\ ChainInv /\ SessionInv /\ PageInv /\ CartsInv
      /\ Busy /\ ~Failed /\ running.calls # <<>>
  BY DEF StorefrontInv, TypeInv, CallMade
<1>1. /\ running' = [running EXCEPT !.calls = Tail(running.calls)]
      /\ UNCHANGED <<session, view, fresh, todo, doubt>>
      /\ todo # <<>> /\ running \in [user : Users, calls : Plans]
  BY <1>0 DEF CallMade, PageInv, RunningInv, Busy
<1>2. Busy' /\ running'.user = running.user
  BY <1>1, StorefrontAssumption DEF Busy, Nobody
<1>3. /\ OnlyOf(running.user, todo[1].product) /\ todo[1].product \in Products
      /\ session \in Users
  BY <1>0, <1>1, RequestIsCall, CallHandled, FirstAction DEF CallMade, PageInv
<1>4. ASSUME NEW x \in Products \ doubt PROVE Expected(x)'
  <2>1. PICK f \in [0 .. Len(todo) -> Amounts] : Steps(x, f) /\ Stands(x, f[0], f[1])
    BY <1>0, <1>4 DEF ChainInv, Expected
  <2>2. Steps(x, f)'
    BY <1>1, <2>1 DEF Steps
  <2>3. running.user = session
    BY <1>0, <1>4 DEF SessionInv
  <2>4. f[0] \in Amounts /\ f[1] \in Amounts
    <3>1. 0 \in 0 .. Len(todo) /\ 1 \in 0 .. Len(todo)
      BY <1>0, <1>1, FirstAction
    <3>. QED BY <2>1, <3>1
  <2>5. CASE todo[1].product = x
    <3>1. Underway(x, f[0], f[1])
      BY <1>0, <2>1, <2>5 DEF Stands
    <3>2. IF Failed' THEN Contained(x, f[0], f[1])' ELSE Underway(x, f[0], f[1])'
      BY <1>0, <2>3, <2>4, <2>5, <3>1, CallTakesFurther
    <3>3. Stands(x, f[0], f[1])'
      BY <1>1, <1>2, <2>5, <3>2 DEF Stands
    <3>. QED BY <1>1, <2>1, <2>2, <3>3 DEF Expected
  <2>6. CASE todo[1].product # x
    <3>1. Quantity(session, x) = f[0]
      BY <2>1, <2>6 DEF Stands
    <3>2. Quantity(session, x)' = f[0]
      <4>1. (Quantity(session, x))' = Amount(cart'[session], x)
        BY <1>1, QuantityIsAmount
      <4>2. Amount(cart'[session], x) = Quantity(session, x)
        BY <1>3, <2>6, QuantityIsAmount DEF OnlyOf
      <4>. QED BY <3>1, <4>1, <4>2
    <3>3. Stands(x, f[0], f[1])'
      BY <1>1, <2>6, <3>2 DEF Stands
    <3>. QED BY <1>1, <2>1, <2>2, <3>3 DEF Expected
  <2>. QED BY <2>5, <2>6
<1>. QED BY <1>0, <1>1, <1>2, <1>4 DEF ChainInv, SessionInv

\* An action that ends has rendered what was expected of each line that the page
\* can know of, and that is also in the cart.
LEMMA EndIsExpected ==
    ASSUME StorefrontInv, ActionSucceeds \/ ActionFails, NEW p \in Products \ doubt',
           NEW f \in [0 .. Len(todo) -> Amounts], Steps(p, f), Stands(p, f[0], f[1])
    PROVE  \E r \in [Products -> 0 .. MaxQuantity] :
              ActionEnds(r) /\ r[p] = f[1] /\ Quantity(session, p) = f[1]
<1>0. /\ TypeInv /\ SessionInv /\ PageInv /\ CartsInv /\ Busy /\ todo # <<>>
      /\ running.user \in Users
  BY DEF StorefrontInv, TypeInv, PageInv, RunningInv, ActionSucceeds, ActionFails, Busy
<1>1. /\ Head(todo) = todo[1] /\ 1 \in DOMAIN todo /\ 1 - 1 = 0
      /\ 0 \in 0 .. Len(todo) /\ 1 \in 0 .. Len(todo)
  BY <1>0, FirstAction
<1>2. todo[1].product # p => f[1] = f[0]
  BY <1>1 DEF Steps
<1>3. CASE ActionSucceeds
  <2>1. p \notin doubt /\ running.user = session
    BY <1>0, <1>3 DEF ActionSucceeds, SessionInv
  <2>2. Quantity(session, p) = f[1]
    <3>1. CASE todo[1].product = p
      <4>1. ~Failed /\ running.calls = <<>>
        BY <1>3 DEF ActionSucceeds
      <4>2. Underway(p, f[0], f[1])
        BY <1>0, <3>1, <4>1 DEF Stands
      <4>3. CallsOf(p, f[0], f[1]) # <<>>
        BY <1>1, CallsOfShape
      <4>. QED BY <4>1, <4>2, <4>3 DEF Underway
    <3>2. CASE todo[1].product # p
      BY <1>2, <3>2 DEF Stands
    <3>. QED BY <3>1, <3>2
  <2>3. Stored(running.user)[p] = Quantity(session, p)
    BY <2>1 DEF Stored
  <2>4. Stored(running.user) \in [Products -> 0 .. MaxQuantity]
    BY <1>0, RenderedShape
  <2>. QED BY <1>3, <2>2, <2>3, <2>4 DEF ActionSucceeds
<1>4. CASE ActionFails
  <2>1. p \notin doubt /\ todo[1].product # p /\ ActionEnds(fresh)
    BY <1>1, <1>4 DEF ActionFails
  <2>2. Quantity(session, p) = f[1] /\ fresh[p] = f[1]
    BY <1>2, <2>1 DEF Stands, Steps
  <2>3. fresh \in [Products -> 0 .. MaxQuantity]
    BY <1>0 DEF PageInv
  <2>. QED BY <2>1, <2>2, <2>3
<1>. QED BY <1>3, <1>4

\* After the end of an action the steps that are left lead on from there.
LEMMA EndChain ==
    ASSUME StorefrontInv, ActionSucceeds \/ ActionFails
    PROVE  ChainInv' /\ SessionInv'
<1>0. /\ TypeInv /\ ChainInv /\ PageInv /\ todo # <<>> /\ doubt \subseteq doubt'
      /\ running' = Nobody /\ UNCHANGED <<cart, session>>
  BY DEF StorefrontInv, TypeInv, PageInv, RunningInv, ActionSucceeds, ActionFails, ActionEnds, Busy
<1> DEFINE n == Len(todo)
<1>1. /\ n \in Nat /\ n >= 1 /\ DOMAIN todo = 1 .. n
      /\ Len(todo') = n - 1 /\ DOMAIN todo' = 1 .. n - 1
      /\ \A i \in 1 .. n - 1 : todo'[i] = todo[i + 1]
  <2>1. todo \in Seq(Actions) /\ todo' = Tail(todo)
    BY <1>0 DEF PageInv, ActionSucceeds, ActionFails, ActionEnds
  <2>. QED BY <1>0, <2>1, FirstAndRest
<1> HIDE DEF n
<1>2. ~Busy'
  BY <1>0 DEF Busy, Nobody
<1>3. ASSUME NEW x \in Products \ doubt' PROVE Expected(x)'
  <2>1. PICK f \in [0 .. n -> Amounts] : Steps(x, f) /\ Stands(x, f[0], f[1])
    BY <1>0, <1>3 DEF ChainInv, Expected, n
  <2>2. PICK r \in [Products -> 0 .. MaxQuantity] :
           ActionEnds(r) /\ r[x] = f[1] /\ Quantity(session, x) = f[1]
    BY <1>3, <2>1, EndIsExpected DEF n
  <2>3. PICK g \in [0 .. n - 1 -> Amounts] : \A i \in 0 .. n - 1 : g[i] = f[i + 1]
    <3> DEFINE h == [i \in 0 .. n - 1 |-> f[i + 1]]
    <3>1. \A i \in 0 .. n - 1 : i + 1 \in 0 .. n
      BY <1>1
    <3>2. h \in [0 .. n - 1 -> Amounts] /\ \A i \in 0 .. n - 1 : h[i] = f[i + 1]
      BY <2>1, <3>1
    <3>. QED BY <3>2
  <2>4. f[n] = view[x]
    BY <2>1 DEF Steps, n
  <2>5. /\ 0 \in 0 .. n - 1 /\ 0 + 1 = 1
        /\ n - 1 \in 0 .. n - 1 /\ (n - 1) + 1 = n
    BY <1>1
  <2>6. g[0] = fresh'[x] /\ g[0] = f[1]
    BY <2>2, <2>3, <2>5 DEF ActionEnds
  <2>7. g[Len(todo')] = view'[x]
    <3>1. g[n - 1] = f[n]
      BY <2>3, <2>5
    <3>2. view'[x] = IF n = 1 THEN f[1] ELSE view[x]
      BY <2>2 DEF ActionEnds, n
    <3>. QED BY <1>1, <2>4, <3>1, <3>2
  <2>8. ASSUME NEW i \in 1 .. n - 1
        PROVE  IF todo'[i].product = x THEN todo'[i].calls = CallsOf(x, g[i - 1], g[i])
                                       ELSE g[i] = g[i - 1]
    <3>1. /\ i \in 0 .. n - 1 /\ i - 1 \in 0 .. n - 1 /\ i + 1 \in 1 .. n
          /\ (i - 1) + 1 = i /\ (i + 1) - 1 = i
      BY <1>1
    <3>2. g[i] = f[i + 1] /\ g[i - 1] = f[i] /\ todo'[i] = todo[i + 1]
      BY <1>1, <2>3, <3>1
    <3>3. IF todo[i + 1].product = x
          THEN todo[i + 1].calls = CallsOf(x, f[(i + 1) - 1], f[i + 1])
          ELSE f[i + 1] = f[(i + 1) - 1]
      BY <1>1, <2>1, <3>1 DEF Steps
    <3>. QED BY <3>1, <3>2, <3>3
  <2>9. Steps(x, g)'
    BY <1>1, <2>6, <2>7, <2>8 DEF Steps
  <2>10. Quantity(session, x)' = g[0]
    BY <1>0, <2>2, <2>6, QuantityIsAmount
  <2>11. Stands(x, g[0], g[1])'
    BY <1>2, <2>10 DEF Stands
  <2>. QED BY <1>1, <2>3, <2>9, <2>11 DEF Expected
<1>. QED BY <1>2, <1>3 DEF ChainInv, SessionInv

\* A change elsewhere leaves the lines alone that the page can still know of.
LEMMA ElsewhereChain ==
    ASSUME StorefrontInv, NEW u \in Users, NEW p \in Products, NEW q \in 0 .. MaxQuantity,
           Elsewhere(u, p, q)
    PROVE  ChainInv' /\ SessionInv'
<1>1. OnlyOf(u, p) /\ ChainInv /\ SessionInv /\ session \in Users /\ doubt \in SUBSET Products
  BY ElsewhereChanges DEF StorefrontInv, TypeInv, PageInv
<1>2. /\ UNCHANGED <<edit, session, view, fresh, todo, running>>
      /\ doubt' = doubt \union {p}
  BY DEF Elsewhere
<1>3. ASSUME NEW x \in Products \ doubt' PROVE Expected(x)'
  <2>1. x \notin doubt /\ x # p
    BY <1>2, <1>3
  <2>2. Amount(cart'[session], x) = Quantity(session, x)
    BY <1>1, <2>1, QuantityIsAmount DEF OnlyOf
  <2>3. (Quantity(session, x))' = Quantity(session, x)
    BY <1>2, <2>2, QuantityIsAmount
  <2>. QED BY <1>1, <1>2, <2>1, <2>3, ExpectationStays DEF ChainInv
<1>4. SessionInv'
  BY <1>1, <1>2 DEF SessionInv, Busy, Nobody
<1>. QED BY <1>3, <1>4 DEF ChainInv

\* A page that was loaded shows what the cart has.
LEMMA LoadedChain ==
    ASSUME StorefrontInv, Loaded
    PROVE  ChainInv' /\ SessionInv'
<1>1. /\ TypeInv' /\ todo' = <<>> /\ running' = Nobody /\ Nobody' = Nobody
      /\ UNCHANGED <<cart, session>>
      /\ view' = Stored(session) /\ fresh' = Stored(session)
  <2>1. TypeInv'
    BY NextTypes DEF StorefrontInv, Next
  <2>. QED BY <2>1 DEF StorefrontInv, TypeInv, PageInv, RunningInv, Loaded, Load, Nobody
<1>2. ASSUME NEW x \in Products PROVE Expected(x)'
  <2>1. view'[x] = Quantity(session, x) /\ fresh'[x] = Quantity(session, x)
    BY <1>1 DEF Stored
  <2>2. (Quantity(session, x))' = Quantity(session, x)
    BY <1>1, QuantityIsAmount
  <2>3. IdleExpects'
    BY NothingPending, PTL
  <2>. QED BY <1>1, <2>1, <2>2, <2>3 DEF IdleExpects
<1>. QED BY <1>1, <1>2 DEF ChainInv, SessionInv, Busy

\* No page knows anything at the start but that all is empty.
LEMMA InitChain == Init => StorefrontInv
<1>. SUFFICES ASSUME Init PROVE StorefrontInv
  OBVIOUS
<1>1. TypeInv /\ session \in Users
  BY InitTypes DEF Init
<1>2. ASSUME NEW p \in Products PROVE Expected(p)
  <2>1. cart[session] = <<>>
    BY <1>1 DEF Init, Carts!Init
  <2>2. Quantity(session, p) = 0
    BY <2>1 DEF Quantity, Carts!Holds
  <2>. QED BY <1>1, <2>2, NothingPending DEF Init, Nothing, IdleExpects
<1>. QED BY <1>1, <1>2 DEF Init, StorefrontInv, ChainInv, SessionInv, Busy

\* Every step keeps what is expected of the lines the page can know of.
LEMMA NextChain == StorefrontInv /\ [Next]_vars => StorefrontInv'
<1>. SUFFICES ASSUME StorefrontInv, [Next]_vars PROVE StorefrontInv'
  OBVIOUS
<1>0. TypeInv /\ TypeInv'
  BY NextTypes DEF StorefrontInv
<1>. SUFFICES ChainInv' /\ SessionInv'
  BY <1>0 DEF StorefrontInv
<1>1. CASE UNCHANGED vars
  <2>1. UNCHANGED <<cart, edit, session, view, fresh, todo, running, doubt>>
    BY <1>1 DEF vars, page
  <2>. QED BY <2>1, CartStays, ExpectationStays
           DEF StorefrontInv, ChainInv, SessionInv, Busy, Nobody
<1>2. CASE \E p \in Products : Add(p) \/ Minus(p) \/ Trash(p)
  BY <1>2, ClickChain
<1>3. CASE ActionStarts
  BY <1>3, StartChain
<1>4. CASE CallMade
  BY <1>4, CallChain
<1>5. CASE ActionSucceeds \/ ActionFails
  BY <1>5, EndChain
<1>6. CASE RenderedEmpty \/ LoadedEmpty \/ \E u \in Users : Switch(u)
  <2>1. doubt' = Products
    BY <1>6 DEF RenderedEmpty, LoadedEmpty, Switch
  <2>. QED BY <2>1 DEF ChainInv, SessionInv
<1>7. CASE Loaded
  BY <1>7, LoadedChain
<1>8. CASE \E u \in Users, p \in Products, q \in 0 .. MaxQuantity : Elsewhere(u, p, q)
  BY <1>8, ElsewhereChain
<1>. QED BY <1>1, <1>2, <1>3, <1>4, <1>5, <1>6, <1>7, <1>8 DEF Next, Action

\* What is expected of each line the page can know of is an invariant.
LEMMA StorefrontInvIsInvariant == Spec => []StorefrontInv
BY InitChain, NextChain, PTL DEF Spec

\* When the actions that were clicked are done, each line in which no failed
\* action, other page or other session had a part has the quantity that the page
\* showed before, in the page and in the cart, whatever was clicked in whatever
\* order, and although shrinking a line takes two calls.
THEOREM OptimismIsConfirmed == Spec => OptimismConfirmed
<1>1. ASSUME StorefrontInv, [Next]_vars, todo # <<>>, todo' = <<>>,
             NEW p \in Products \ doubt'
      PROVE  view'[p] = view[p] /\ view[p] = Quantity(session, p)
  <2>0. TypeInv /\ ChainInv /\ PageInv
    BY <1>1 DEF StorefrontInv, TypeInv
  <2>1. ActionSucceeds \/ ActionFails
    <3>1. ASSUME NEW x \in Products, Add(x) \/ Minus(x) \/ Trash(x) PROVE FALSE
      <4>1. \E a : todo' = Append(todo, a)
        BY <3>1 DEF Add, Minus, Trash, Click
      <4>. QED BY <1>1, <2>0, <4>1 DEF PageInv
    <3>2. ~RenderedEmpty /\ ~LoadedEmpty /\ ~\E u \in Users : Switch(u)
      BY <1>1 DEF RenderedEmpty, LoadedEmpty, Switch
    <3>3. ~ActionStarts /\ ~CallMade /\ ~Loaded
      BY <1>1 DEF ActionStarts, CallMade, Loaded, Load
    <3>4. ASSUME NEW u, NEW x, NEW q, Elsewhere(u, x, q) PROVE FALSE
      BY <1>1, <3>4 DEF Elsewhere
    <3>5. ~UNCHANGED vars
      BY <1>1 DEF vars, page
    <3>. QED BY <1>1, <3>1, <3>2, <3>3, <3>4, <3>5 DEF Next, Action
  <2>2. Len(todo) = 1 /\ p \notin doubt
    <3>1. todo' = Tail(todo) /\ todo \in Seq(Actions) /\ doubt \subseteq doubt'
      BY <2>0, <2>1 DEF ActionSucceeds, ActionFails, ActionEnds, PageInv
    <3>2. Len(todo') = Len(todo) - 1 /\ Len(todo) \in Nat /\ Len(todo') = 0
      BY <1>1, <3>1, FirstAndRest, EmptySeq
    <3>. QED BY <1>1, <3>1, <3>2
  <2>3. PICK f \in [0 .. Len(todo) -> Amounts] : Steps(p, f) /\ Stands(p, f[0], f[1])
    BY <1>1, <2>0, <2>2 DEF ChainInv, Expected
  <2>4. PICK r \in [Products -> 0 .. MaxQuantity] :
           ActionEnds(r) /\ r[p] = f[1] /\ Quantity(session, p) = f[1]
    BY <1>1, <2>1, <2>3, EndIsExpected
  <2>5. view' = r
    BY <2>2, <2>4 DEF ActionEnds
  <2>6. view[p] = f[1]
    BY <2>2, <2>3 DEF Steps
  <2>. QED BY <2>4, <2>5, <2>6
<1>2. StorefrontInv /\ [Next]_vars =>
         [todo # <<>> /\ todo' = <<>> =>
            \A p \in Products \ doubt' :
                view'[p] = view[p] /\ view[p] = Quantity(session, p)]_vars
  BY <1>1
<1>. QED BY <1>2, StorefrontInvIsInvariant, PTL DEF Spec, OptimismConfirmed

\* A failed action of a line that the page can know of has left it as it was or as
\* it was to be, and cleared it only on the way to a smaller quantity: adding and
\* removing take one call.
THEOREM FailuresAreContained == Spec => FailureIsContained
<1> DEFINE p == Head(todo).product
           goal == Goal(fresh[p], Head(todo).calls)
<1>1. ASSUME StorefrontInv, Busy, Failed, p \notin doubt
      PROVE  \/ Quantity(session, p) \in {fresh[p], goal}
             \/ Quantity(session, p) = 0 /\ goal <= fresh[p]
  <2>1. /\ TypeInv /\ ChainInv /\ PageInv /\ todo # <<>>
    BY <1>1 DEF StorefrontInv, TypeInv, PageInv, RunningInv, Busy
  <2>2. /\ Head(todo) = todo[1] /\ p = todo[1].product /\ p \in Products
        /\ 1 \in DOMAIN todo /\ 1 - 1 = 0
        /\ 0 \in 0 .. Len(todo) /\ 1 \in 0 .. Len(todo)
    BY <2>1, FirstAction
  <2> HIDE DEF p
  <2>3. PICK f \in [0 .. Len(todo) -> Amounts] : Steps(p, f) /\ Stands(p, f[0], f[1])
    BY <1>1, <2>1, <2>2 DEF ChainInv, Expected
  <2>4. Contained(p, f[0], f[1])
    BY <1>1, <2>2, <2>3 DEF Stands
  <2>5. f[0] = fresh[p] /\ Head(todo).calls = CallsOf(p, f[0], f[1])
    BY <2>2, <2>3 DEF Steps
  <2>6. f[0] \in Amounts /\ f[1] \in Amounts
    BY <2>2, <2>3
  <2>7. goal = f[1]
    BY <2>2, <2>5, <2>6, GoalOfCalls
  <2>. QED BY <2>4, <2>5, <2>7 DEF Contained
<1>2. StorefrontInv /\ [Next]_vars =>
         [Busy /\ Failed /\ running' = Nobody =>
            LET q == Head(todo).product
                was == fresh[q]
                aim == Goal(was, Head(todo).calls)
                now == Quantity(session, q)
            IN  q \in doubt \/ now \in {was, aim} \/ (now = 0 /\ aim <= was)]_vars
  BY <1>1
<1>. QED BY <1>2, StorefrontInvIsInvariant, PTL DEF Spec, FailureIsContained
=============================================================================
