------------------------------ MODULE Checkout ------------------------------
(***************************************************************************)
(* POST /checkout of the gateway (backend/gateway/handlers/checkout.go)    *)
(* between the cart service and the order service: GetCart, PlaceOrder and *)
(* ClearCart are three calls, and the carts and everything else may change *)
(* between them.  A request of OrderService is a checkout here.            *)
(*                                                                         *)
(* A client that goes away and a gateway that stops cancel the handler's   *)
(* context: the running call fails for the handler, whatever it does at    *)
(* the other end (PlaceUnconfirmed, ClearFails).                           *)
(***************************************************************************)
EXTENDS OrderService

CONSTANTS
    Users, MaxQuantity, Edits, EditCalls,   \* as in Cart
    Owner                                   \* Owner[k]: the user whose client made key k

VARIABLES
    cart, edit,   \* as in Cart
    stage,        \* where the checkout handler stands
    status        \* the HTTP status it wrote

Carts == INSTANCE Cart WITH CartFaults <- Faults

gateway      == <<stage, status>>
checkoutVars == <<vars, cart, edit, gateway>>

ASSUME OwnerAssumption == Owner \in [Keys -> Users]

\* The quantity of an edit is an int32 on the wire.
ASSUME EditsAssumption ==
    /\ MaxQuantity \in Nat \ {0}
    /\ EditCalls \subseteq [user : Users, op : {"add", "remove", "set", "clear"},
                            product : Products,
                            quantity : -MaxQuantity - 1 .. MaxQuantity]

\* Every cart there can be is a call there can be.
ASSUME CartsAreCalls ==
    /\ IsFiniteSet(Products)
    /\ \A k \in Keys, n \in 1 .. Cardinality(Products) :
       \A its \in [1 .. n -> [product : Products, quantity : 1 .. MaxQuantity]] :
           Valid(its) => [key |-> k, items |-> its] \in Calls

CheckoutInit ==
    /\ Init
    /\ Carts!Init
    /\ stage = [r \in Requests |-> "idle"]
    /\ status = [r \in Requests |-> "none"]

MoveTo(r, s) ==
    /\ stage' = [stage EXCEPT ![r] = s]
    /\ UNCHANGED status

Answer(r, code) ==
    /\ stage' = [stage EXCEPT ![r] = "answered"]
    /\ status' = [status EXCEPT ![r] = code]
-----------------------------------------------------------------------------
\* No Idempotency-Key header, or one that PlaceOrder cannot parse.
KeyRefused(r) ==
    /\ stage[r] = "idle"
    /\ Answer(r, "400")
    /\ UNCHANGED <<vars, cart, edit>>

CartUnavailable(r) ==
    /\ Faults
    /\ stage[r] = "idle"
    /\ Answer(r, "502")
    /\ UNCHANGED <<vars, cart, edit>>

EmptyCart(r, k) ==
    /\ stage[r] = "idle"
    /\ cart[Owner[k]] = <<>>
    /\ Answer(r, "400")
    /\ UNCHANGED <<vars, cart, edit>>

\* Mutant: an empty cart is not noticed.
ReadAnyCart(r, k) ==
    /\ stage[r] = "idle"
    /\ LET c == [key |-> k, items |-> cart[Owner[k]]] IN Start(r, c) \/ Reject(r, c)
    /\ MoveTo(r, "placing")
    /\ UNCHANGED <<cart, edit>>

\* Mutant: the cart is cleared before the order is placed.
TakeCart(r, k) ==
    /\ stage[r] = "idle"
    /\ cart[Owner[k]] # <<>>
    /\ Start(r, [key |-> k, items |-> cart[Owner[k]]])
    /\ Carts!Empty(Owner[k])
    /\ MoveTo(r, "placing")
    /\ UNCHANGED edit

\* GetCart answers and PlaceOrder arrives with the same lines: the cart may
\* change in between, but nothing there looks at it.
ReadCart(r, k) ==
    /\ stage[r] = "idle"
    /\ cart[Owner[k]] # <<>>
    /\ LET c == [key |-> k, items |-> cart[Owner[k]]] IN Start(r, c) \/ Reject(r, c)
    /\ MoveTo(r, "placing")
    /\ UNCHANGED <<cart, edit>>

Confirmed(r) == outcome[r] \in {"ok", "replay"}

PlaceSucceeds(r) ==
    /\ stage[r] = "placing"
    /\ pc[r] = "done"
    /\ Confirmed(r)
    /\ MoveTo(r, "clear")
    /\ UNCHANGED <<vars, cart, edit>>

\* The gRPC codes of Handler.PlaceOrder, through writeCheckoutError.
StatusOf(result) ==
    CASE result \in {"insufficient_inventory", "payment_declined",
                     "reservation_not_active", "lines_lost"} -> "409"
      [] result = "product_not_found" -> "404"
      [] result = "invalid" -> "400"
      [] OTHER -> "502"

\* Mutant: writeCheckoutError is not followed by a return.
PlaceFailsAndGoesOn(r) ==
    /\ stage[r] = "placing"
    /\ pc[r] = "done"
    /\ ~Confirmed(r)
    /\ MoveTo(r, "clear")
    /\ UNCHANGED <<vars, cart, edit>>

\* Mutant: a gRPC code without a mapping is not answered.
PlaceFailsIfMapped(r) ==
    /\ stage[r] = "placing"
    /\ pc[r] = "done"
    /\ ~Confirmed(r)
    /\ StatusOf(outcome[r]) # "502"
    /\ Answer(r, StatusOf(outcome[r]))
    /\ UNCHANGED <<vars, cart, edit>>

PlaceFails(r) ==
    /\ stage[r] = "placing"
    /\ pc[r] = "done"
    /\ ~Confirmed(r)
    /\ Answer(r, StatusOf(outcome[r]))
    /\ UNCHANGED <<vars, cart, edit>>

PlaceUnconfirmed(r) ==
    /\ Faults
    /\ stage[r] = "placing"
    /\ Answer(r, "502")
    /\ UNCHANGED <<vars, cart, edit>>

ClearCart(r) ==
    /\ stage[r] = "clear"
    /\ Carts!Empty(Owner[KeyOf(r)])
    /\ Answer(r, "201")
    /\ UNCHANGED <<vars, edit>>

\* The error is logged and the answer is the order all the same.
ClearFails(r) ==
    /\ Faults
    /\ stage[r] = "clear"
    /\ Answer(r, "201")
    /\ UNCHANGED <<vars, cart, edit>>
-----------------------------------------------------------------------------
CheckoutArrival(r) ==
    \/ KeyRefused(r) \/ CartUnavailable(r)
    \/ \E k \in Keys : EmptyCart(r, k) \/ ReadCart(r, k)

CheckoutStep(r) == PlaceSucceeds(r) \/ PlaceFails(r) \/ ClearCart(r)

CheckoutFault(r) == PlaceUnconfirmed(r) \/ ClearFails(r)

CheckoutNext ==
    \/ \E r \in Requests : CheckoutArrival(r) \/ CheckoutStep(r) \/ CheckoutFault(r)
    \/ ServiceStep /\ UNCHANGED <<cart, edit, gateway>>
    \/ Carts!Next /\ UNCHANGED <<vars, gateway>>

CheckoutSpec == CheckoutInit /\ [][CheckoutNext]_checkoutVars

\* Handlers run and the calls they make return, as in OrderService.
CheckoutFairness ==
    \A r \in Requests :
        /\ WF_checkoutVars(HandlerStep(r) /\ UNCHANGED <<cart, edit, gateway>>)
        /\ WF_checkoutVars(CheckoutStep(r))

FairCheckoutSpec == CheckoutSpec /\ CheckoutFairness
=============================================================================
