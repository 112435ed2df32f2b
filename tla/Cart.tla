-------------------------------- MODULE Cart --------------------------------
(***************************************************************************)
(* The cart service (backend/services/cart) and the cart routes of the     *)
(* gateway in front of it.                                                 *)
(*                                                                         *)
(* A cart is the list of its cart_items rows by added_at.  Every operation *)
(* is one transaction with a single statement that writes or lists the     *)
(* rows, so it is one step; the order of overlapping adds of one user is   *)
(* the order in which they commit.  The carts row, created by the first    *)
(* add and never removed, is not kept: no row and no items answer alike.   *)
(***************************************************************************)
EXTENDS Integers, Sequences

CONSTANTS
    Users,
    Products,     \* product ids a client may name
    Missing,      \* the product ids with no row in products
    MaxQuantity,  \* the largest INTEGER
    Edits,        \* requests to the cart routes that may arrive
    EditCalls,    \* what one may ask: user, op, product and quantity
    CartFaults    \* TRUE: a call may fail, before or after its commit

VARIABLES
    cart,   \* cart[u]: the lines of u's cart
    edit    \* edit[e]: what request e asked for, and how it was answered

cartVars == <<cart, edit>>

NoEdit == [call   |-> [user |-> "none", op |-> "none", product |-> "none", quantity |-> 0],
           answer |-> "none"]

Init ==
    /\ cart = [u \in Users |-> <<>>]
    /\ edit = [e \in Edits |-> NoEdit]

Line(p, q) == [product |-> p, quantity |-> q]

Holds(lines, p) == \E i \in DOMAIN lines : lines[i].product = p

Without(lines, i) ==
    [j \in 1 .. Len(lines) - 1 |-> IF j < i THEN lines[j] ELSE lines[j + 1]]
-----------------------------------------------------------------------------
\* The answer to a call that was refused without a change.
Refuse(e, c, result) ==
    /\ edit' = [edit EXCEPT ![e] = [call |-> c, answer |-> result]]
    /\ UNCHANGED cart

\* The answer to a call that was carried out; it may be lost.
Accept(e, c) ==
    \/ edit' = [edit EXCEPT ![e] = [call |-> c, answer |-> "ok"]]
    \/ /\ CartFaults
       /\ edit' = [edit EXCEPT ![e] = [call |-> c, answer |-> "error"]]

\* Mutant: cart_items has no UNIQUE (cart_id, product_id) to conflict with.
AddLineAgain(e, c) ==
    /\ c.op = "add"
    /\ c.quantity >= 1
    /\ c.product \notin Missing
    /\ cart' = [cart EXCEPT ![c.user] = Append(@, Line(c.product, c.quantity))]
    /\ Accept(e, c)

\* UpsertCartItem without a conflict.
AddLine(e, c) ==
    /\ c.op = "add"
    /\ c.quantity >= 1
    /\ c.product \notin Missing
    /\ ~Holds(cart[c.user], c.product)
    /\ cart' = [cart EXCEPT ![c.user] = Append(@, Line(c.product, c.quantity))]
    /\ Accept(e, c)

\* Mutant: the sum is stored whatever it is.
AddToLineUnchecked(e, c) ==
    /\ c.op = "add"
    /\ c.quantity >= 1
    /\ \E i \in DOMAIN cart[c.user] :
          /\ cart[c.user][i].product = c.product
          /\ cart' = [cart EXCEPT ![c.user][i].quantity = @ + c.quantity]
    /\ Accept(e, c)

\* UpsertCartItem on conflict: the quantities add up.
AddToLine(e, c) ==
    /\ c.op = "add"
    /\ c.quantity >= 1
    /\ \E i \in DOMAIN cart[c.user] :
          /\ cart[c.user][i].product = c.product
          /\ cart[c.user][i].quantity + c.quantity <= MaxQuantity
          /\ cart' = [cart EXCEPT ![c.user][i].quantity = @ + c.quantity]
    /\ Accept(e, c)

\* 23503 from the foreign key on product_id.
AddUnknown(e, c) ==
    /\ c.op = "add"
    /\ c.quantity >= 1
    /\ c.product \in Missing
    /\ Refuse(e, c, "not_found")

\* 22003: the sum does not fit an INTEGER.
AddOverflows(e, c) ==
    /\ c.op = "add"
    /\ \E i \in DOMAIN cart[c.user] :
          /\ cart[c.user][i].product = c.product
          /\ cart[c.user][i].quantity + c.quantity > MaxQuantity
    /\ Refuse(e, c, "error")

SetItemQuantity(e, c) ==
    /\ c.op = "set"
    /\ c.quantity >= 1
    /\ \E i \in DOMAIN cart[c.user] :
          /\ cart[c.user][i].product = c.product
          /\ cart' = [cart EXCEPT ![c.user][i].quantity = c.quantity]
    /\ Accept(e, c)

SetUnknown(e, c) ==
    /\ c.op = "set"
    /\ c.quantity >= 1
    /\ ~Holds(cart[c.user], c.product)
    /\ Refuse(e, c, "not_found")

InvalidQuantity(e, c) ==
    /\ c.op \in {"add", "set"}
    /\ c.quantity < 1
    /\ Refuse(e, c, "invalid")

RemoveItem(e, c) ==
    /\ c.op = "remove"
    /\ \E i \in DOMAIN cart[c.user] :
          /\ cart[c.user][i].product = c.product
          /\ cart' = [cart EXCEPT ![c.user] = Without(@, i)]
    /\ Accept(e, c)

RemoveNothing(e, c) ==
    /\ c.op = "remove"
    /\ ~Holds(cart[c.user], c.product)
    /\ Refuse(e, c, "ok")

Empty(u) == cart' = [cart EXCEPT ![u] = <<>>]

Clear(e, c) ==
    /\ c.op = "clear"
    /\ Empty(c.user)
    /\ Accept(e, c)

EditFails(e, c) ==
    /\ CartFaults
    /\ Refuse(e, c, "error")

Handle(e, c) ==
    \/ AddLine(e, c) \/ AddToLine(e, c) \/ AddUnknown(e, c) \/ AddOverflows(e, c)
    \/ SetItemQuantity(e, c) \/ SetUnknown(e, c) \/ InvalidQuantity(e, c)
    \/ RemoveItem(e, c) \/ RemoveNothing(e, c) \/ Clear(e, c)
    \/ EditFails(e, c)

Next ==
    \E e \in Edits, c \in EditCalls :
        /\ edit[e] = NoEdit
        /\ Handle(e, c)
=============================================================================
