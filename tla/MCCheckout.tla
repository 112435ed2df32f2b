----------------------------- MODULE MCCheckout -----------------------------
(* Small instances of the checkout.                                        *)
EXTENDS CheckoutProperties, TLC

CONSTANTS k1, k2, p1, p2, p3, u1, r1, r2, e1, e2, w1

ask(u, op, p, q) == [user |-> u, op |-> op, product |-> p, quantity |-> q]

\* Every list of distinct products with quantities in range.
AllCarts ==
    UNION {{its \in [1 .. n -> [product : Products, quantity : 1 .. MaxQuantity]] : Valid(its)} :
           n \in 1 .. Cardinality(Products)}
AllCalls == [key : Keys, items : AllCarts]

RequestSymmetry == Permutations(Requests) \cup Permutations(Edits)

OneUnitEach == [p \in Products |-> 1]
OneCurrency == [p \in Products |-> "USD"]
OneUser     == [k \in Keys |-> u1]

AddOne == {ask(u1, "add", p1, 1)}

\* Every operation, with quantities that overflow and that are not positive.
AllEdits ==
    {ask(u1, "add", p, 1) : p \in Products}
    \cup {ask(u1, "remove", p1, 1), ask(u1, "clear", p1, 1)}
    \cup {ask(u1, op, p1, q) : op \in {"add", "set"}, q \in {0, 2}}
=============================================================================
