----------------------------- MODULE ShopProofs -----------------------------
(***************************************************************************)
(* Theorems about what a checkout answers and what it does to the cart.    *)
(***************************************************************************)
EXTENDS CheckoutProofs, OutcomeProofs

Stages == {"idle", "placing", "clear", "answered"}
Codes  == {"none", "201", "400", "404", "409", "502"}

\* The status of an error is one of the codes.
LEMMA StatusOfShape ==
    ASSUME NEW res
    PROVE  /\ StatusOf(res) \in Codes \ {"none", "201"}
           /\ StatusOf(res) = "409" => res \in {"insufficient_inventory", "payment_declined",
                                                "reservation_not_active", "lines_lost"}
           /\ StatusOf(res) \in {"400", "404"} => res \in Refusals
BY DEF StatusOf, Codes, Refusals

\* The carts and the handler's variables have their types.
THEOREM CheckoutIsTyped == CheckoutSpec => []CheckoutTypeOK
<1> DEFINE G == /\ stage \in [Requests -> Stages]
                /\ status \in [Requests -> Codes]
<1>1. CheckoutInit => G
  BY DEF CheckoutInit, Stages, Codes
<1>2. G /\ [CheckoutNext]_checkoutVars => G'
  <2>. SUFFICES ASSUME G, [CheckoutNext]_checkoutVars PROVE G'
    OBVIOUS
  <2>1. ASSUME NEW r \in Requests, NEW s \in Stages, MoveTo(r, s) PROVE G'
    BY <2>1 DEF MoveTo
  <2>2. ASSUME NEW r \in Requests, NEW c \in Codes, Answer(r, c) PROVE G'
    BY <2>2 DEF Answer, Stages
  <2>3. ASSUME NEW r \in Requests,
               CheckoutArrival(r) \/ CheckoutStep(r) \/ CheckoutFault(r)
        PROVE  G'
    <3>1. \/ \E s \in {"placing", "clear"} : MoveTo(r, s)
          \/ \E c \in {"201", "400", "502"} : Answer(r, c)
          \/ Answer(r, StatusOf(outcome[r]))
      BY <2>3 DEF CheckoutArrival, CheckoutStep, CheckoutFault, KeyRefused, CartUnavailable,
         EmptyCart, ReadCart, PlaceSucceeds, PlaceFails, ClearCart, PlaceUnconfirmed,
         ClearFails
    <3>2. /\ {"placing", "clear"} \subseteq Stages /\ {"201", "400", "502"} \subseteq Codes
          /\ StatusOf(outcome[r]) \in Codes
      BY StatusOfShape DEF Stages, Codes
    <3>. QED BY <2>1, <2>2, <3>1, <3>2
  <2>4. ASSUME UNCHANGED gateway PROVE G'
    BY <2>4 DEF gateway
  <2>. QED BY <2>3, <2>4 DEF CheckoutNext, checkoutVars
<1>3. CartsTyped /\ G => CheckoutTypeOK
  BY DEF CartsTyped, CheckoutTypeOK, Stages, Codes
<1>. QED BY <1>1, <1>2, <1>3, CartsAreWellFormed, PTL DEF CheckoutSpec
-----------------------------------------------------------------------------
(* What one step of the shop may do to one checkout.                       *)

Rests(r) ==
    /\ UNCHANGED <<stage[r], status[r]>>
    /\ pc[r] = "idle" => pc'[r] = "idle"

Refuses(r) ==
    /\ stage[r] = "idle" /\ stage'[r] = "answered" /\ status'[r] \in {"400", "502"}
    /\ UNCHANGED vars

Begins(r) ==
    /\ stage[r] = "idle" /\ stage'[r] = "placing" /\ UNCHANGED status[r]

Confirms(r) ==
    /\ stage[r] = "placing" /\ stage'[r] = "clear" /\ UNCHANGED status[r]
    /\ Confirmed(r) /\ UNCHANGED vars

ReportsError(r) ==
    /\ stage[r] = "placing" /\ stage'[r] = "answered"
    /\ \/ pc[r] = "done" /\ status'[r] = StatusOf(outcome[r])
       \/ status'[r] = "502"
    /\ UNCHANGED vars

ReportsOrder(r) ==
    /\ stage[r] = "clear" /\ stage'[r] = "answered" /\ status'[r] = "201"
    /\ UNCHANGED vars

CheckoutMove(r) ==
    \/ Rests(r) \/ Refuses(r) \/ Begins(r) \/ Confirms(r) \/ ReportsError(r) \/ ReportsOrder(r)

\* A handler of the order service does not begin by itself.
LEMMA NobodyBegins ==
    ASSUME Inv, ServiceStep, NEW r \in Requests, pc[r] = "idle"
    PROVE  pc'[r] = "idle"
<1>1. ASSUME HandlerStep(r) \/ HandlerFault(r) PROVE FALSE
  BY <1>1 DEF HandlerStep, Replay, LookupMiss, PriceFound, PriceMissing, MixedCurrency,
     CheckFindsRow, CheckFindsNoProduct, CheckPasses, Reserve, OutOfStock, ReserveConflict,
     Refetch, RefetchNotActive, ChargeAccepted, ChargeDeclined, ChargeTimesOut,
     ChargeInvalid, Finalize, FinalizeLinesLost, FinalizeDuplicate, ReleaseLine,
     HandlerFault, StatementFails, ReserveUnconfirmed, FinalizeFails, FinalizeUnconfirmed,
     ReleaseLineFails
<1>2. ASSUME NEW s \in Requests, s # r, HandlerStep(s) \/ HandlerFault(s)
      PROVE  pc'[r] = "idle"
  BY <1>2, OthersStay DEF Stays, Local
<1>3. ASSUME Crash PROVE pc'[r] = "idle"
  BY <1>3 DEF Crash, InFlight
<1>4. ASSUME \/ \E k \in ResKeys : Expire(k)
             \/ \E w \in Workers : WorkerStep(w) \/ WorkerFault(w)
      PROVE  pc'[r] = "idle"
  BY <1>4, BackgroundStays DEF Stays, Local
<1>. QED BY <1>1, <1>2, <1>3, <1>4 DEF ServiceStep

\* Every step of the shop is a move of every checkout.
LEMMA CheckoutMoves ==
    ASSUME Inv, CheckoutTypeOK, [CheckoutNext]_checkoutVars, NEW r \in Requests
    PROVE  CheckoutMove(r)
<1>0. /\ stage \in [Requests -> Stages] /\ status \in [Requests -> Codes]
      /\ pc \in [Requests -> Labels]
  BY DEF CheckoutTypeOK, Stages, Codes, Inv, TypeOK
<1>1. ASSUME NEW s \in Requests, s # r, NEW x, MoveTo(s, x) \/ Answer(s, x)
      PROVE  UNCHANGED <<stage[r], status[r]>>
  BY <1>0, <1>1 DEF MoveTo, Answer
<1>2. ASSUME UNCHANGED pc PROVE pc[r] = "idle" => pc'[r] = "idle"
  BY <1>2
<1>3. ASSUME NEW s \in Requests, s # r,
             CheckoutArrival(s) \/ CheckoutStep(s) \/ CheckoutFault(s)
      PROVE  Rests(r)
  <2>1. \E x : MoveTo(s, x) \/ Answer(s, x)
    BY <1>3 DEF CheckoutArrival, CheckoutStep, CheckoutFault, KeyRefused, CartUnavailable,
       EmptyCart, ReadCart, PlaceSucceeds, PlaceFails, ClearCart, PlaceUnconfirmed, ClearFails
  <2>2. pc'[r] = pc[r]
    BY <1>0, <1>3 DEF CheckoutArrival, CheckoutStep, CheckoutFault, KeyRefused,
       CartUnavailable, EmptyCart, ReadCart, Start, Reject, PlaceSucceeds, PlaceFails, ClearCart,
       PlaceUnconfirmed, ClearFails, vars, locals
  <2>. QED BY <1>1, <1>3, <2>1, <2>2 DEF Rests
<1>4. ASSUME NEW x, MoveTo(r, x) PROVE stage'[r] = x /\ UNCHANGED status[r]
  BY <1>0, <1>4 DEF MoveTo
<1>5. ASSUME NEW x, Answer(r, x) PROVE stage'[r] = "answered" /\ status'[r] = x
  BY <1>0, <1>5 DEF Answer
<1>6. ASSUME CheckoutArrival(r) PROVE Refuses(r) \/ Begins(r)
  BY <1>4, <1>5, <1>6 DEF CheckoutArrival, KeyRefused, CartUnavailable, EmptyCart, ReadCart,
     Refuses, Begins
<1>7. ASSUME CheckoutStep(r) PROVE Confirms(r) \/ ReportsError(r) \/ ReportsOrder(r)
  BY <1>4, <1>5, <1>7 DEF CheckoutStep, PlaceSucceeds, PlaceFails, ClearCart, Confirms,
     ReportsError, ReportsOrder
<1>8. ASSUME CheckoutFault(r) PROVE ReportsError(r) \/ ReportsOrder(r)
  BY <1>5, <1>8 DEF CheckoutFault, PlaceUnconfirmed, ClearFails, ReportsError, ReportsOrder
<1>9. ASSUME ServiceStep, UNCHANGED gateway PROVE Rests(r)
  BY <1>9, NobodyBegins DEF Rests, gateway
<1>10. ASSUME UNCHANGED <<vars, gateway>> PROVE Rests(r)
  BY <1>10 DEF Rests, gateway, vars, locals
<1>. QED BY <1>3, <1>6, <1>7, <1>8, <1>9, <1>10 DEF CheckoutNext, CheckoutMove, checkoutVars
-----------------------------------------------------------------------------
(* The status.                                                             *)

\* What a checkout knows at each stage, and what its status stands for.
StatusInv ==
    \A r \in Requests :
        /\ stage[r] = "idle" => pc[r] = "idle"
        /\ stage[r] # "answered" => status[r] = "none"
        /\ stage[r] = "clear" \/ status[r] = "201" =>
              pc[r] # "idle" /\ KeyOf(r) \in Keys /\ HasOrder(KeyOf(r))
        /\ status[r] \in {"400", "404"} => pc[r] = "idle"
        /\ status[r] = "409" =>
              /\ pc[r] = "done"
              /\ outcome[r] \in {"insufficient_inventory", "payment_declined",
                                 "reservation_not_active", "lines_lost"}

\* The invariants of the order service hold of the shop.
LEMMA ServiceInvariants ==
    CheckoutSpec => [](Inv /\ HandInv /\ AnswerInv /\ EndInv)
BY CheckoutImplementsOrderService, InvIsInvariant, HandInvIsInvariant, AnswerInvIsInvariant,
   EndInvIsInvariant, PTL DEF ImplementsOrderService

\* An order stays, and so does the key of a request that has one.
LEMMA OrderIsKept ==
    ASSUME Inv, HandInv, [Next]_vars, NEW r \in Requests, pc[r] # "idle",
           KeyOf(r) \in Keys, HasOrder(KeyOf(r))
    PROVE  pc'[r] # "idle" /\ KeyOf(r)' \in Keys /\ orders'[KeyOf(r)'] # NoOrder
<1>1. Move(r) /\ ~Arrives(r)
  BY NextMoves DEF Arrives
<1>2. KeyOf(r)' = KeyOf(r)
  BY <1>1, CallIsKept
<1>3. pc'[r] # "idle"
  BY <1>1 DEF Move, Stays, Local, MovesOn, FindsRow, AddsLine, Pays, Fails, Answers,
     LosesOrder, LetsGo, IsStopped
<1>. QED BY <1>2, <1>3, TablesGrow DEF HasOrder

\* StatusInv holds in every reachable state.
LEMMA StatusInvIsInvariant == CheckoutSpec => []StatusInv
<1>1. CheckoutInit => StatusInv
  BY DEF CheckoutInit, Init, StatusInv
<1>2. /\ Inv /\ HandInv /\ AnswerInv /\ CheckoutTypeOK /\ CartInv /\ OrderableInv
      /\ StatusInv /\ [CheckoutNext]_checkoutVars
      => StatusInv'
  <2>. SUFFICES ASSUME Inv, HandInv, AnswerInv, CheckoutTypeOK, CartInv, OrderableInv,
                       StatusInv, [CheckoutNext]_checkoutVars, NEW r \in Requests
                PROVE  /\ stage'[r] = "idle" => pc'[r] = "idle"
                       /\ stage'[r] # "answered" => status'[r] = "none"
                       /\ stage'[r] = "clear" \/ status'[r] = "201" =>
                             /\ pc'[r] # "idle"
                             /\ KeyOf(r)' \in Keys /\ orders'[KeyOf(r)'] # NoOrder
                       /\ status'[r] \in {"400", "404"} => pc'[r] = "idle"
                       /\ status'[r] = "409" =>
                             /\ pc'[r] = "done"
                             /\ outcome'[r] \in {"insufficient_inventory", "payment_declined",
                                                 "reservation_not_active", "lines_lost"}
    BY DEF StatusInv, HasOrder
  <2>0. CheckoutMove(r) /\ [Next]_vars
    BY CheckoutMoves, CheckoutStepIsServiceStep
  <2>1. Move(r)
    BY <2>0, NextMoves
  <2>2. stage[r] = "clear" \/ status[r] = "201" =>
            /\ pc'[r] # "idle"
            /\ KeyOf(r)' \in Keys /\ orders'[KeyOf(r)'] # NoOrder
    BY <2>0, OrderIsKept DEF StatusInv
  <2>3. CASE Rests(r)
    <3>1. pc[r] = "done" => pc'[r] = "done" /\ outcome'[r] = outcome[r]
      BY <2>1, EndIsKept DEF Stays, Local
    <3>. QED BY <2>2, <2>3, <3>1 DEF Rests, StatusInv
  <2>4. CASE Refuses(r)
    BY <2>4 DEF Refuses, StatusInv, vars, locals
  <2>5. CASE Begins(r)
    BY <2>5 DEF Begins, StatusInv
  <2>6. CASE Confirms(r)
    <3>1. KeyOf(r) \in Keys /\ HasOrder(KeyOf(r)) /\ pc[r] # "idle"
      BY <2>6 DEF Confirms, Confirmed, AnswerInv
    <3>. QED BY <2>0, <2>6, <3>1, OrderIsKept DEF Confirms, StatusInv
  <2>7. CASE ReportsError(r)
    <3>1. UNCHANGED <<pc, outcome>>
      BY <2>7 DEF ReportsError, vars, locals
    <3>2. outcome[r] \notin Refusals
      BY DEF OrderableInv
    <3>. QED BY <2>7, <3>1, <3>2, StatusOfShape DEF ReportsError, Codes
  <2>8. CASE ReportsOrder(r)
    BY <2>2, <2>8 DEF ReportsOrder
  <2>. QED BY <2>0, <2>3, <2>4, <2>5, <2>6, <2>7, <2>8 DEF CheckoutMove
<1>. QED BY <1>1, <1>2, ServiceInvariants, CheckoutIsTyped, CartsAreWellFormed,
            OrderableInvIsInvariant, PTL DEF CheckoutSpec

\* 201 means that the order exists, 400 and 404 that nothing was charged, and 409
\* after a charge that a line was taken away.
THEOREM StatusesAreTruthful == CheckoutSpec => []StatusTruthful
<1>1. EndInv /\ StatusInv => StatusTruthful
  <2>. SUFFICES ASSUME EndInv, StatusInv, NEW r \in Requests
                PROVE  /\ status[r] = "201" => HasOrder(KeyOf(r))
                       /\ status[r] \in {"400", "404"} => r \notin charges
                       /\ status[r] = "409" /\ r \in charges =>
                              \/ pc[r] = "done" /\ outcome[r] = "payment_declined"
                              \/ \E k \in LineKeys(r) : ~IsActive(k)
    BY DEF StatusTruthful
  <2>1. status[r] = "201" => HasOrder(KeyOf(r))
    BY DEF StatusInv
  <2>2. status[r] \in {"400", "404"} => r \notin charges
    BY DEF StatusInv, EndInv
  <2>3. ASSUME status[r] = "409", r \in charges
        PROVE  \/ pc[r] = "done" /\ outcome[r] = "payment_declined"
               \/ \E k \in LineKeys(r) : ~IsActive(k)
    BY <2>3 DEF StatusInv, EndInv
  <2>. QED BY <2>1, <2>2, <2>3
<1>. QED BY <1>1, ServiceInvariants, StatusInvIsInvariant, PTL
-----------------------------------------------------------------------------
(* The cart.                                                               *)

\* A request to a cart route changes the cart of its user and no other, and
\* is on record from then on.
LEMMA HandleIsOnRecord ==
    ASSUME CartsTyped, DOMAIN edit = Edits,
           NEW e \in Edits, NEW c \in EditCalls, edit[e] = Carts!NoEdit, Carts!Handle(e, c)
    PROVE  /\ edit'[e] # edit[e] /\ edit'[e].call = c
           /\ \A u \in Users : cart'[u] # cart[u] => u = c.user
<1>1. ASSUME NEW x, x # "none", edit' = [edit EXCEPT ![e] = [call |-> c, answer |-> x]]
      PROVE  edit'[e] # edit[e] /\ edit'[e].call = c
  BY <1>1 DEF Carts!NoEdit
<1>2. ASSUME NEW t, cart' = [cart EXCEPT ![c.user] = t]
      PROVE  \A u \in Users : cart'[u] # cart[u] => u = c.user
  BY <1>2 DEF CartsTyped
<1>3. ASSUME Carts!Accept(e, c) PROVE edit'[e] # edit[e] /\ edit'[e].call = c
  BY <1>1, <1>3 DEF Carts!Accept
<1>4. ASSUME NEW x, x # "none", Carts!Refuse(e, c, x)
      PROVE  /\ edit'[e] # edit[e] /\ edit'[e].call = c
             /\ \A u \in Users : cart'[u] # cart[u] => u = c.user
  BY <1>1, <1>4 DEF Carts!Refuse
<1>5. CASE \/ Carts!AddLine(e, c) \/ Carts!AddToLine(e, c) \/ Carts!SetItemQuantity(e, c)
           \/ Carts!RemoveItem(e, c) \/ Carts!Clear(e, c)
  <2>1. Carts!Accept(e, c) /\ \E t : cart' = [cart EXCEPT ![c.user] = t]
    BY <1>5 DEF Carts!AddLine, Carts!AddToLine, Carts!SetItemQuantity, Carts!RemoveItem,
       Carts!Clear, Carts!Empty
  <2>. QED BY <1>2, <1>3, <2>1
<1>6. CASE \/ Carts!AddUnknown(e, c) \/ Carts!AddOverflows(e, c) \/ Carts!SetUnknown(e, c)
           \/ Carts!InvalidQuantity(e, c) \/ Carts!RemoveNothing(e, c) \/ Carts!EditFails(e, c)
  BY <1>4, <1>6 DEF Carts!AddUnknown, Carts!AddOverflows, Carts!SetUnknown,
       Carts!InvalidQuantity, Carts!RemoveNothing, Carts!EditFails
<1>. QED BY <1>5, <1>6 DEF Carts!Handle

\* What makes a cart change.
LEMMA CartChangesBy ==
    ASSUME CartsTyped, DOMAIN edit = Edits, CheckoutTypeOK, StatusInv,
           [CheckoutNext]_checkoutVars, NEW u \in Users, cart'[u] # cart[u]
    PROVE  \/ \E e \in Edits : edit'[e] # edit[e] /\ edit'[e].call.user = u
           \/ /\ cart'[u] = <<>>
              /\ \E r \in Requests : /\ stage[r] = "clear" /\ stage'[r] = "answered"
                                     /\ HasOrder(KeyOf(r)) /\ Owner[KeyOf(r)] = u
<1>1. CASE Carts!Next
  BY <1>1, HandleIsOnRecord DEF Carts!Next
<1>2. ASSUME NEW r \in Requests, ClearCart(r)
      PROVE  /\ cart'[u] = <<>>
             /\ stage[r] = "clear" /\ stage'[r] = "answered"
             /\ HasOrder(KeyOf(r)) /\ Owner[KeyOf(r)] = u
  <2>1. stage[r] = "clear" /\ stage' = [stage EXCEPT ![r] = "answered"]
        /\ cart' = [cart EXCEPT ![Owner[KeyOf(r)]] = <<>>]
    BY <1>2 DEF ClearCart, Answer, Carts!Empty
  <2>2. stage'[r] = "answered"
    BY <2>1 DEF CheckoutTypeOK
  <2>3. u = Owner[KeyOf(r)] /\ cart'[u] = <<>>
    BY <2>1 DEF CartsTyped
  <2>. QED BY <2>1, <2>2, <2>3 DEF StatusInv
<1>3. ASSUME NEW r \in Requests,
             CheckoutArrival(r) \/ PlaceSucceeds(r) \/ PlaceFails(r) \/ CheckoutFault(r)
      PROVE  FALSE
  BY <1>3 DEF CheckoutArrival, KeyRefused, CartUnavailable, EmptyCart, ReadCart,
     PlaceSucceeds, PlaceFails, CheckoutFault, PlaceUnconfirmed, ClearFails
<1>. QED BY <1>1, <1>2, <1>3 DEF CheckoutNext, CheckoutStep, checkoutVars

\* Every request to a cart route has its record.
EditsKnown == DOMAIN edit = Edits

\* A cart changes by an edit of its user or by a checkout whose order exists.
THEOREM CartsAreKeptForRetry == CheckoutSpec => CartKeptForRetry
<1>1. CheckoutInit => EditsKnown
  BY DEF CheckoutInit, Carts!Init, EditsKnown
<1>2. EditsKnown /\ [CheckoutNext]_checkoutVars => EditsKnown'
  <2>. SUFFICES ASSUME DOMAIN edit = Edits, [CheckoutNext]_checkoutVars
                PROVE  DOMAIN edit' = Edits
    BY DEF EditsKnown
  <2>1. CASE UNCHANGED edit
    BY <2>1
  <2>2. CASE Carts!Next
    <3>1. PICK e \in Edits, c \in EditCalls : Carts!Handle(e, c)
      BY <2>2 DEF Carts!Next
    <3>2. ASSUME Carts!Accept(e, c) \/ \E x : Carts!Refuse(e, c, x) PROVE DOMAIN edit' = Edits
      BY <3>2 DEF Carts!Accept, Carts!Refuse
    <3>3. CASE \/ Carts!AddLine(e, c) \/ Carts!AddToLine(e, c) \/ Carts!SetItemQuantity(e, c)
               \/ Carts!RemoveItem(e, c) \/ Carts!Clear(e, c)
      <4>1. Carts!Accept(e, c)
        BY <3>3 DEF Carts!AddLine, Carts!AddToLine, Carts!SetItemQuantity, Carts!RemoveItem,
           Carts!Clear
      <4>. QED BY <3>2, <4>1
    <3>4. CASE \/ Carts!AddUnknown(e, c) \/ Carts!AddOverflows(e, c) \/ Carts!SetUnknown(e, c)
               \/ Carts!InvalidQuantity(e, c) \/ Carts!RemoveNothing(e, c)
               \/ Carts!EditFails(e, c)
      BY <3>2, <3>4 DEF Carts!AddUnknown, Carts!AddOverflows, Carts!SetUnknown,
         Carts!InvalidQuantity, Carts!RemoveNothing, Carts!EditFails
    <3>. QED BY <3>1, <3>3, <3>4 DEF Carts!Handle
  <2>. QED
    BY <2>1, <2>2 DEF CheckoutNext, CheckoutArrival, KeyRefused, CartUnavailable, EmptyCart,
       ReadCart, CheckoutStep, PlaceSucceeds, PlaceFails, ClearCart, CheckoutFault,
       PlaceUnconfirmed, ClearFails, checkoutVars
<1>3. /\ CartsTyped /\ EditsKnown /\ CheckoutTypeOK /\ StatusInv
      /\ [CheckoutNext]_checkoutVars
      => [\A u \in Users : cart'[u] # cart[u] =>
            \/ \E e \in Edits : edit'[e] # edit[e] /\ edit'[e].call.user = u
            \/ /\ cart'[u] = <<>>
               /\ \E r \in Requests : /\ stage[r] = "clear" /\ stage'[r] = "answered"
                                      /\ HasOrder(KeyOf(r)) /\ Owner[KeyOf(r)] = u
           ]_checkoutVars
  BY CartChangesBy DEF EditsKnown
<1>. QED BY <1>1, <1>2, <1>3, CartsAreWellFormed, CheckoutIsTyped, StatusInvIsInvariant, PTL
         DEF CheckoutSpec, CartKeptForRetry
=============================================================================
