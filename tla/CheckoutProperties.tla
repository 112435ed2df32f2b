------------------------- MODULE CheckoutProperties -------------------------
(***************************************************************************)
(* What a checkout guarantees, with the order service and the carts.       *)
(***************************************************************************)
EXTENDS Checkout

CartLine == [product : Products \ Missing, quantity : 1 .. MaxQuantity]

\* The type of the carts and of the handler's stage.
CheckoutTypeOK ==
    /\ cart \in [Users -> Seq(CartLine)]
    /\ stage \in [Requests -> {"idle", "placing", "clear", "answered"}]
    /\ status \in [Requests -> {"none", "201", "400", "404", "409", "502"}]

\* What the cart service accepts, the order service accepts: no order of the
\* gateway is turned away by PlaceOrder's validation (a product twice, no items,
\* no quantity) nor for a product that does not exist, whatever edits raced.
CartIsOrderable ==
    \A r \in Requests : outcome[r] \notin {"invalid", "product_not_found"}

\* The status tells what happened to the purchase: 201 means that the order of
\* the key exists, 400 and 404 that nothing was charged, and 409 after a charge
\* that a line of the order was taken away before the order was placed.
StatusTruthful ==
    \A r \in Requests :
        /\ status[r] = "201" => HasOrder(KeyOf(r))
        /\ status[r] \in {"400", "404"} => r \notin charges
        /\ status[r] = "409" /\ r \in charges =>
               \/ pc[r] = "done" /\ outcome[r] = "payment_declined"
               \/ \E k \in LineKeys(r) : ~IsActive(k)

\* A cart changes by an edit of its user, or all at once by a checkout of its
\* user whose order exists: a checkout that failed leaves the cart for a retry.
CartKeptForRetry ==
    [][\A u \in Users : cart'[u] # cart[u] =>
          \/ \E e \in Edits : edit'[e] # edit[e] /\ edit'[e].call.user = u
          \/ /\ cart'[u] = <<>>
             /\ \E r \in Requests : /\ stage[r] = "clear" /\ stage'[r] = "answered"
                                    /\ HasOrder(KeyOf(r)) /\ Owner[KeyOf(r)] = u]_checkoutVars

\* Every checkout is answered, whether its calls succeed, fail or get lost.
EveryCheckoutAnswered == \A r \in Requests : stage[r] # "idle" ~> stage[r] = "answered"

\* The gateway and the carts only restrict what may reach the order service:
\* whatever holds of OrderService holds of the shop.
ImplementsOrderService == Spec
=============================================================================
