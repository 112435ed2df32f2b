--------------------------- MODULE CheckoutProofs ---------------------------
(***************************************************************************)
(* The checkout implements the order service, so that the theorems of      *)
(* OrderServiceProofs hold of the shop.                                    *)
(***************************************************************************)
EXTENDS CheckoutProperties, OrderServiceProofs

\* UNIQUE (cart_id, product_id)
Distinct(lines) ==
    \A i, j \in DOMAIN lines : lines[i].product = lines[j].product => i = j

\* The carts are lists of well-formed lines, one for a product.
CartInv ==
    \A u \in Users : cart[u] \in Seq(CartLine) /\ Distinct(cart[u])

CartsTyped == cart \in [Users -> Seq(CartLine)]
-----------------------------------------------------------------------------
(* Lists of lines.                                                         *)

\* A well-formed line without its type.
LEMMA LineShape ==
    ASSUME NEW p \in Products \ Missing, NEW q \in 1 .. MaxQuantity
    PROVE  Carts!Line(p, q) \in CartLine
BY DEF Carts!Line, CartLine

\* Appending a line for a new product.
LEMMA AppendKeepsDistinct ==
    ASSUME NEW s \in Seq(CartLine), Distinct(s), NEW l \in CartLine,
           ~Carts!Holds(s, l.product)
    PROVE  Append(s, l) \in Seq(CartLine) /\ Distinct(Append(s, l))
<1> DEFINE t == Append(s, l)
<1>1. /\ t \in Seq(CartLine) /\ Len(s) \in Nat
      /\ DOMAIN t = 1 .. Len(s) + 1 /\ DOMAIN s = 1 .. Len(s)
      /\ t[Len(s) + 1] = l
      /\ \A i \in 1 .. Len(s) : t[i] = s[i]
  OBVIOUS
<1>2. \A i \in 1 .. Len(s) : s[i].product # l.product
  BY <1>1 DEF Carts!Holds
<1> HIDE DEF t
<1>3. Distinct(t)
  BY <1>1, <1>2 DEF Distinct
<1>. QED BY <1>1, <1>3 DEF t

\* Changing the quantity of a line.
LEMMA QuantityKeepsDistinct ==
    ASSUME NEW s \in Seq(CartLine), Distinct(s), NEW i \in DOMAIN s,
           NEW q \in 1 .. MaxQuantity
    PROVE  LET t == [s EXCEPT ![i].quantity = q]
           IN  t \in Seq(CartLine) /\ Distinct(t)
<1> DEFINE t == [s EXCEPT ![i].quantity = q]
<1>1. DOMAIN t = DOMAIN s /\ DOMAIN s = 1 .. Len(s) /\ Len(s) \in Nat
  OBVIOUS
<1>2. \A j \in DOMAIN s : t[j] \in CartLine /\ t[j].product = s[j].product
  <2>1. \A j \in DOMAIN s : /\ s[j] \in CartLine
                           /\ t[j] = IF j = i THEN [s[i] EXCEPT !.quantity = q] ELSE s[j]
    BY <1>1
  <2>2. \A l \in CartLine : /\ [l EXCEPT !.quantity = q] \in CartLine
                            /\ [l EXCEPT !.quantity = q].product = l.product
    BY DEF CartLine
  <2>. QED BY <2>1, <2>2
<1>3. t \in [1 .. Len(s) -> CartLine]
  BY <1>1, <1>2
<1>4. t \in Seq(CartLine)
  BY <1>1, <1>3
<1>5. Distinct(t)
  BY <1>1, <1>2 DEF Distinct
<1>. QED BY <1>4, <1>5

\* Taking a line out.
LEMMA WithoutKeepsDistinct ==
    ASSUME NEW s \in Seq(CartLine), Distinct(s), NEW i \in DOMAIN s
    PROVE  Carts!Without(s, i) \in Seq(CartLine) /\ Distinct(Carts!Without(s, i))
<1> DEFINE t == Carts!Without(s, i)
<1>1. Len(s) \in Nat /\ DOMAIN s = 1 .. Len(s) /\ Len(s) - 1 \in Nat
  OBVIOUS
<1>2. DOMAIN t = 1 .. Len(s) - 1
  BY DEF Carts!Without
<1>3. \A j \in 1 .. Len(s) - 1 : t[j] = IF j < i THEN s[j] ELSE s[j + 1]
  BY DEF Carts!Without
<1>4. t \in [1 .. Len(s) - 1 -> CartLine]
  BY <1>1, <1>3 DEF Carts!Without
<1>5. t \in Seq(CartLine)
  BY <1>1, <1>4
<1> HIDE DEF t
<1>6. ASSUME NEW j \in DOMAIN t, NEW m \in DOMAIN t, t[j].product = t[m].product
      PROVE  j = m
  <2>1. /\ j \in 1 .. Len(s) - 1 /\ m \in 1 .. Len(s) - 1 /\ i \in 1 .. Len(s)
        /\ t[j] = IF j < i THEN s[j] ELSE s[j + 1]
        /\ t[m] = IF m < i THEN s[m] ELSE s[m + 1]
    BY <1>1, <1>2, <1>3
  <2>2. /\ j \in DOMAIN s /\ j + 1 \in DOMAIN s
        /\ m \in DOMAIN s /\ m + 1 \in DOMAIN s
    BY <1>1, <2>1
  <2>. QED BY <1>1, <1>6, <2>1, <2>2 DEF Distinct
<1>7. Distinct(t)
  BY <1>6 DEF Distinct
<1>. QED BY <1>5, <1>7 DEF t

\* A cart that is not empty is a list that PlaceOrder accepts, and one of Calls.
LEMMA CartIsCall ==
    ASSUME NEW s \in Seq(CartLine), Distinct(s), s # <<>>, NEW k \in Keys
    PROVE  Valid(s) /\ [key |-> k, items |-> s] \in Calls
<1> DEFINE f == [i \in 1 .. Len(s) |-> s[i].product]
<1>1. Len(s) \in Nat \ {0} /\ DOMAIN s = 1 .. Len(s)
  OBVIOUS
<1>2. \A i \in 1 .. Len(s) : /\ s[i] \in CartLine
                             /\ s[i].product \in Products
                             /\ s[i].quantity \in 1 .. MaxQuantity
  <2>1. \A i \in 1 .. Len(s) : s[i] \in CartLine
    BY <1>1
  <2>2. \A l \in CartLine : l.product \in Products /\ l.quantity \in 1 .. MaxQuantity
    BY DEF CartLine
  <2>. QED BY <2>1, <2>2
<1>3. Valid(s)
  <2>1. \A i \in DOMAIN s : s[i].quantity >= 1
    BY <1>1, <1>2, EditsAssumption
  <2>. QED BY <2>1, Zenon DEF Valid, Distinct
<1>4. f \in Injection(1 .. Len(s), Products)
  <2>1. f \in [1 .. Len(s) -> Products]
    BY <1>2
  <2>2. \A i, j \in 1 .. Len(s) : f[i] = f[j] => i = j
    BY <1>1 DEF Distinct
  <2>. QED BY <2>1, <2>2 DEF Injection, IsInjective
<1>5. IsFiniteSet(Products)
  BY CartsAreCalls
<1>6. Cardinality(1 .. Len(s)) <= Cardinality(Products)
  BY <1>4, <1>5, FS_Injection
<1>7. Cardinality(1 .. Len(s)) = Len(s)
  BY <1>1, FS_Interval
<1>8. Len(s) \in 1 .. Cardinality(Products)
  BY <1>1, <1>5, <1>6, <1>7, FS_CardinalityType
<1>9. s \in [1 .. Len(s) -> [product : Products, quantity : 1 .. MaxQuantity]]
  BY <1>1, <1>2 DEF CartLine
<1>. QED BY <1>3, <1>8, <1>9, CartsAreCalls
-----------------------------------------------------------------------------
(* The carts.                                                              *)

\* A request to a cart route keeps the carts well formed.
LEMMA HandleKeepsCarts ==
    ASSUME CartsTyped, CartInv, NEW e \in Edits, NEW c \in EditCalls, Carts!Handle(e, c)
    PROVE  CartsTyped' /\ CartInv'
<1>1. /\ c.user \in Users /\ c.product \in Products /\ c.quantity \in Int
      /\ c.quantity <= MaxQuantity /\ MaxQuantity \in Nat
  BY EditsAssumption
<1> DEFINE s == cart[c.user]
<1>2. s \in Seq(CartLine) /\ Distinct(s)
  BY <1>1 DEF CartInv
<1>3. ASSUME NEW t \in Seq(CartLine), Distinct(t), cart' = [cart EXCEPT ![c.user] = t]
      PROVE  CartsTyped' /\ CartInv'
  BY <1>1, <1>3 DEF CartsTyped, CartInv
<1>4. ASSUME UNCHANGED cart PROVE CartsTyped' /\ CartInv'
  BY <1>4 DEF CartsTyped, CartInv
<1>5. CASE Carts!AddLine(e, c)
  <2>1. /\ Carts!Line(c.product, c.quantity) \in CartLine
        /\ Carts!Line(c.product, c.quantity).product = c.product
    BY <1>1, <1>5, LineShape DEF Carts!AddLine, Carts!Line
  <2>. QED BY <1>2, <1>3, <1>5, <2>1, AppendKeepsDistinct DEF Carts!AddLine
<1>6. CASE Carts!AddToLine(e, c)
  <2>1. PICK i \in DOMAIN s :
           /\ s[i].quantity + c.quantity <= MaxQuantity
           /\ cart' = [cart EXCEPT ![c.user][i].quantity = @ + c.quantity]
    BY <1>6 DEF Carts!AddToLine
  <2>2. s[i] \in CartLine /\ c.quantity >= 1
    BY <1>2, <1>6 DEF Carts!AddToLine
  <2>3. s[i].quantity + c.quantity \in 1 .. MaxQuantity
    BY <1>1, <2>1, <2>2 DEF CartLine
  <2>. QED BY <1>2, <1>3, <2>1, <2>3, QuantityKeepsDistinct
<1>7. CASE Carts!SetItemQuantity(e, c)
  <2>1. PICK i \in DOMAIN s : cart' = [cart EXCEPT ![c.user][i].quantity = c.quantity]
    BY <1>7 DEF Carts!SetItemQuantity
  <2>2. c.quantity \in 1 .. MaxQuantity
    BY <1>1, <1>7 DEF Carts!SetItemQuantity
  <2>. QED BY <1>2, <1>3, <2>1, <2>2, QuantityKeepsDistinct
<1>8. CASE Carts!RemoveItem(e, c)
  BY <1>2, <1>3, <1>8, WithoutKeepsDistinct DEF Carts!RemoveItem
<1>9. CASE Carts!Clear(e, c)
  <2>1. <<>> \in Seq(CartLine) /\ Distinct(<<>>)
    BY DEF Distinct
  <2>. QED BY <1>3, <1>9, <2>1 DEF Carts!Clear, Carts!Empty
<1>10. CASE \/ Carts!AddUnknown(e, c) \/ Carts!AddOverflows(e, c) \/ Carts!SetUnknown(e, c)
            \/ Carts!InvalidQuantity(e, c) \/ Carts!RemoveNothing(e, c) \/ Carts!EditFails(e, c)
  BY <1>4, <1>10 DEF Carts!AddUnknown, Carts!AddOverflows, Carts!SetUnknown,
       Carts!InvalidQuantity, Carts!RemoveNothing, Carts!EditFails, Carts!Refuse
<1>. QED BY <1>5, <1>6, <1>7, <1>8, <1>9, <1>10 DEF Carts!Handle

\* The carts are well formed in every reachable state.
LEMMA CartsAreWellFormed == CheckoutSpec => [](CartsTyped /\ CartInv)
<1>1. CheckoutInit => CartsTyped /\ CartInv
  BY DEF CheckoutInit, Carts!Init, CartsTyped, CartInv, Distinct
<1>2. CartsTyped /\ CartInv /\ [CheckoutNext]_checkoutVars => (CartsTyped /\ CartInv)'
  <2>. SUFFICES ASSUME CartsTyped, CartInv, [CheckoutNext]_checkoutVars
                PROVE  CartsTyped' /\ CartInv'
    OBVIOUS
  <2>1. ASSUME UNCHANGED cart PROVE CartsTyped' /\ CartInv'
    BY <2>1 DEF CartsTyped, CartInv
  <2>2. ASSUME NEW r \in Requests, ClearCart(r) PROVE CartsTyped' /\ CartInv'
    <3>1. <<>> \in Seq(CartLine) /\ Distinct(<<>>)
      BY DEF Distinct
    <3>. QED BY <2>2, <3>1 DEF ClearCart, Carts!Empty, CartsTyped, CartInv
  <2>3. ASSUME NEW r \in Requests,
               CheckoutArrival(r) \/ PlaceSucceeds(r) \/ PlaceFails(r) \/ CheckoutFault(r)
        PROVE  UNCHANGED cart
    BY <2>3 DEF CheckoutArrival, KeyRefused, CartUnavailable, EmptyCart, ReadCart,
         PlaceSucceeds, PlaceFails, CheckoutFault, PlaceUnconfirmed, ClearFails
  <2>4. ASSUME Carts!Next PROVE CartsTyped' /\ CartInv'
    BY <2>4, HandleKeepsCarts DEF Carts!Next
  <2>. QED BY <2>1, <2>2, <2>3, <2>4 DEF CheckoutNext, CheckoutStep, checkoutVars
<1>. QED BY <1>1, <1>2, PTL DEF CheckoutSpec
-----------------------------------------------------------------------------
(* The refinement.                                                         *)

\* A step of the shop is a step of the order service or leaves it alone.
LEMMA CheckoutStepIsServiceStep ==
    CartInv /\ [CheckoutNext]_checkoutVars => [Next]_vars
<1>. SUFFICES ASSUME CartInv, [CheckoutNext]_checkoutVars PROVE [Next]_vars
  OBVIOUS
<1>1. ASSUME NEW r \in Requests, NEW k \in Keys, ReadCart(r, k) PROVE Next
  <2> DEFINE c == [key |-> k, items |-> cart[Owner[k]]]
  <2>1. Owner[k] \in Users
    BY OwnerAssumption
  <2>2. c \in Calls
    BY <1>1, <2>1, CartIsCall DEF ReadCart, CartInv
  <2>3. Start(r, c) \/ Reject(r, c)
    BY <1>1 DEF ReadCart
  <2>. QED BY <2>2, <2>3 DEF Next, Arrival
<1>2. ASSUME NEW r \in Requests,
             \/ KeyRefused(r) \/ CartUnavailable(r) \/ \E k \in Keys : EmptyCart(r, k)
             \/ CheckoutStep(r) \/ CheckoutFault(r)
      PROVE  UNCHANGED vars
  BY <1>2 DEF KeyRefused, CartUnavailable, EmptyCart, CheckoutStep, PlaceSucceeds,
       PlaceFails, ClearCart, CheckoutFault, PlaceUnconfirmed, ClearFails
<1>. QED BY <1>1, <1>2 DEF CheckoutNext, CheckoutArrival, Next, checkoutVars

\* The gateway and the carts implement the order service: nothing they do is
\* more than a client of PlaceOrder may do.
THEOREM CheckoutImplementsOrderService == CheckoutSpec => ImplementsOrderService
<1>1. CheckoutInit => Init
  BY DEF CheckoutInit
<1>. QED
  BY <1>1, CheckoutStepIsServiceStep, CartsAreWellFormed, PTL
  DEF CheckoutSpec, ImplementsOrderService, Spec

\* The shop as a whole neither leaks nor oversells stock.
THEOREM ShopConservesStock == CheckoutSpec => []StockConserved
BY CheckoutImplementsOrderService, StockIsConserved DEF ImplementsOrderService
-----------------------------------------------------------------------------
(* What the carts accept, the order service accepts.                       *)

Refusals == {"invalid", "product_not_found"}

OrderableInv ==
    \A r \in Requests :
        /\ outcome[r] \notin Refusals
        /\ pc[r] # "idle" => \A i \in DOMAIN ItemsOf(r) : ItemsOf(r)[i].product \notin Missing

\* The handlers of requests for existing products never refuse them.
LEMMA ServiceStepRefusesNothing ==
    ASSUME Inv, OrderableInv, ServiceStep
    PROVE  OrderableInv'
<1>0. outcome \in [Requests -> Outcomes] /\ pc \in [Requests -> Labels]
  BY DEF Inv, TypeOK
<1>1. ASSUME NEW r \in Requests, NEW res, UNCHANGED call,
             res \notin Refusals, pc[r] # "idle",
             \E l : pc' = [pc EXCEPT ![r] = l],
             outcome' = [outcome EXCEPT ![r] = res] \/ UNCHANGED outcome
      PROVE  OrderableInv'
  BY <1>0, <1>1 DEF OrderableInv, ItemsOf
<1>2. ASSUME UNCHANGED locals PROVE OrderableInv'
  BY <1>2 DEF OrderableInv, ItemsOf, locals
<1>3. ASSUME NEW r \in Requests, pc[r] \in {"price", "check", "insert", "refetch"}
      PROVE  NextItem(r).product \notin Missing
  <2>1. /\ reserved[r] \in Nat /\ reserved[r] < Len(ItemsOf(r)) /\ call[r] \in Calls
    BY <1>3 DEF Inv, TypeOK, HandlerInv
  <2>2. ItemsOf(r) \in Seq(Item)
    BY <2>1, CallShape DEF ItemsOf
  <2>3. reserved[r] + 1 \in DOMAIN ItemsOf(r)
    BY <2>1, <2>2
  <2>. QED BY <1>3, <2>3 DEF OrderableInv, NextItem
<1>4. ASSUME NEW r \in Requests, HandlerStep(r) PROVE OrderableInv'
  <2>1. CASE Replay(r)
    <3>1. pc[r] # "idle" /\ Return(r, "replay")
      BY <2>1 DEF Replay
    <3>2. "replay" \notin Refusals
      BY DEF Refusals
    <3>. QED BY <1>1, <3>1, <3>2 DEF Return
  <2>2. CASE Finalize(r) \/ FinalizeLinesLost(r) \/ FinalizeDuplicate(r)
    BY <1>1, <2>2 DEF Finalize, FinalizeLinesLost, FinalizeDuplicate, Return, Refusals
  <2>3. CASE MixedCurrency(r) \/ OutOfStock(r) \/ RefetchNotActive(r)
    BY <1>1, <2>3 DEF MixedCurrency, OutOfStock, RefetchNotActive, Abort, Refusals
  <2>4. CASE ChargeDeclined(r) \/ ChargeTimesOut(r) \/ ChargeInvalid(r)
    BY <1>1, <2>4 DEF ChargeDeclined, ChargeTimesOut, ChargeInvalid, Abort, Refusals
  <2>5. CASE \/ LookupMiss(r) \/ PriceFound(r) \/ CheckFindsRow(r) \/ CheckPasses(r)
             \/ ReserveConflict(r) \/ ChargeAccepted(r)
    BY <1>1, <2>5 DEF LookupMiss, PriceFound, CheckFindsRow, CheckPasses, ReserveConflict,
         ChargeAccepted, GoTo, Refusals
  <2>6. CASE Reserve(r) \/ Refetch(r)
    <3>1. pc[r] # "idle" /\ AppendLine(r)
      BY <2>6 DEF Reserve, Refetch
    <3>2. "reserved" \notin Refusals /\ "ok" \notin Refusals
      BY DEF Refusals
    <3>3. CASE Return(r, "reserved")
      BY <1>1, <3>1, <3>2, <3>3 DEF Return
    <3>4. CASE /\ UNCHANGED <<call, outcome>>
               /\ pc' = [pc EXCEPT ![r] = IF reserved[r] + 1 = Len(ItemsOf(r))
                                          THEN "charge" ELSE "price"]
      BY <1>1, <3>1, <3>2, <3>4
    <3>. QED BY <3>1, <3>3, <3>4 DEF AppendLine
  <2>7. CASE ReleaseLine(r)
    BY <1>1, <2>7 DEF ReleaseLine, NextLine, Refusals
  <2>8. ~PriceMissing(r) /\ ~CheckFindsNoProduct(r)
    BY <1>3 DEF PriceMissing, CheckFindsNoProduct
  <2>. QED BY <1>4, <2>1, <2>2, <2>3, <2>4, <2>5, <2>6, <2>7, <2>8 DEF HandlerStep
<1>5. ASSUME NEW r \in Requests, HandlerFault(r) PROVE OrderableInv'
  <2>1. CASE StatementFails(r) \/ ReserveUnconfirmed(r)
    BY <1>1, <2>1 DEF StatementFails, ReserveUnconfirmed, Abort, Refusals
  <2>2. CASE FinalizeFails(r) \/ FinalizeUnconfirmed(r)
    BY <1>1, <2>2 DEF FinalizeFails, FinalizeUnconfirmed, Return, Refusals
  <2>3. CASE ReleaseLineFails(r)
    BY <1>1, <2>3 DEF ReleaseLineFails, NextLine, Refusals
  <2>. QED BY <1>5, <2>1, <2>2, <2>3 DEF HandlerFault
<1>6. ASSUME Crash PROVE OrderableInv'
  BY <1>0, <1>6 DEF Crash, InFlight, OrderableInv, Refusals, ItemsOf
<1>7. ASSUME \/ \E k \in ResKeys : Expire(k)
             \/ \E w \in Workers : WorkerStep(w) \/ WorkerFault(w)
      PROVE  UNCHANGED locals
  BY <1>7 DEF Expire, WorkerStep, ListExpired, ReleaseExpired, WorkerFault,
       ReleaseExpiredFails, WorkerRestart
<1>. QED BY <1>2, <1>4, <1>5, <1>6, <1>7 DEF ServiceStep

\* A checkout starts the order service with a list it accepts.
LEMMA ReadCartStartsOrderable ==
    ASSUME Inv, OrderableInv, CartInv, NEW r \in Requests, NEW k \in Keys, ReadCart(r, k)
    PROVE  OrderableInv'
<1> DEFINE s == cart[Owner[k]]
           c == [key |-> k, items |-> s]
<1>1. s \in Seq(CartLine) /\ Distinct(s) /\ s # <<>>
  BY OwnerAssumption DEF ReadCart, CartInv
<1>2. Start(r, c)
  <2>1. Valid(c.items)
    BY <1>1, CartIsCall
  <2>. QED BY <2>1 DEF ReadCart, Reject
<1>3. \A i \in DOMAIN s : s[i].product \notin Missing
  <2>1. \A i \in DOMAIN s : s[i] \in CartLine
    BY <1>1
  <2>2. \A l \in CartLine : l.product \notin Missing
    BY DEF CartLine
  <2>. QED BY <2>1, <2>2
<1>4. call \in [Requests -> Calls \cup {NoCall}] /\ pc \in [Requests -> Labels]
  BY DEF Inv, TypeOK
<1> HIDE DEF s
<1>. QED BY <1>2, <1>3, <1>4 DEF Start, OrderableInv, ItemsOf

\* OrderableInv holds in every reachable state.
LEMMA OrderableInvIsInvariant == CheckoutSpec => []OrderableInv
<1>1. CheckoutSpec => []Inv
  BY CheckoutImplementsOrderService, InvIsInvariant DEF ImplementsOrderService
<1>2. CheckoutInit => OrderableInv
  BY DEF CheckoutInit, Init, OrderableInv, Refusals
<1>3. Inv /\ CartInv /\ OrderableInv /\ [CheckoutNext]_checkoutVars => OrderableInv'
  <2>. SUFFICES ASSUME Inv, CartInv, OrderableInv, [CheckoutNext]_checkoutVars
                PROVE  OrderableInv'
    OBVIOUS
  <2>1. ASSUME UNCHANGED vars PROVE OrderableInv'
    BY <2>1 DEF vars, locals, OrderableInv, ItemsOf
  <2>2. ASSUME NEW r \in Requests,
               \/ KeyRefused(r) \/ CartUnavailable(r) \/ \E k \in Keys : EmptyCart(r, k)
               \/ CheckoutStep(r) \/ CheckoutFault(r)
        PROVE  UNCHANGED vars
    BY <2>2 DEF KeyRefused, CartUnavailable, EmptyCart, CheckoutStep, PlaceSucceeds,
         PlaceFails, ClearCart, CheckoutFault, PlaceUnconfirmed, ClearFails
  <2>. QED
    BY <2>1, <2>2, ReadCartStartsOrderable, ServiceStepRefusesNothing
    DEF CheckoutNext, CheckoutArrival, checkoutVars
<1>. QED BY <1>1, <1>2, <1>3, CartsAreWellFormed, PTL DEF CheckoutSpec

\* The order service never turns a checkout away as malformed, nor for a product
\* that does not exist.
THEOREM CartsAreOrderable == CheckoutSpec => []CartIsOrderable
<1>1. OrderableInv => CartIsOrderable
  BY DEF OrderableInv, CartIsOrderable, Refusals
<1>. QED BY <1>1, OrderableInvIsInvariant, PTL
=============================================================================
