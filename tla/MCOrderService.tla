--------------------------- MODULE MCOrderService ---------------------------
(* Small instances of the order service.                                   *)
EXTENDS OrderServiceClaims, TLC

CONSTANTS k1, k2, d1, p1, p2, p3, r1, r2, r3, w1, w2

TwoRequests   == {r1, r2}
ThreeRequests == {r1, r2, r3}
RequestSymmetry == Permutations(Requests)

it(p, q) == [product |-> p, quantity |-> q]
of(k, its) == [key |-> k, items |-> its]

TwoProducts == {p1, p2}
OneUnitEach == [p \in Products |-> 1]
OneCurrency == [p \in Products |-> "USD"]

\* Two customers want the last unit of two products, in opposite orders.
ContentionCalls == {of(k1, <<it(p1, 1), it(p2, 1)>>), of(k2, <<it(p2, 1), it(p1, 1)>>)}

\* One key, sent again after the cart has changed: more of p1, only p2, and more
\* of p2 than there is.
RetryCalls == {of(k1, <<it(p1, 1), it(p2, 1)>>), of(k1, <<it(p1, 2)>>)}
              \cup {of(k1, <<it(p2, q)>>) : q \in 1 .. 2}
TwoAndOne == [p \in Products |-> IF p = p1 THEN 2 ELSE 1]

\* Two customers and a direct reservation compete for one product.
TransitionCalls == {of(k1, <<it(p1, 1), it(p2, 1)>>), of(k2, <<it(p2, 1)>>), of(d1, <<it(p1, 1)>>)}

\* One item, one or two units.
QuantityCalls == {of(k1, <<it(p1, q)>>) : q \in 1 .. 2}

\* One key; the second attempt also wants more of p2 than there is.
SharedLineCalls == {of(k1, <<it(p1, 1)>>), of(k1, <<it(p1, 1), it(p2, 2)>>)}

\* Every way to end: p2 is free and priced in another currency, p3 has no row.
ProgressCalls ==
    {of(k1, <<>>), of(k1, <<it(p1, 0)>>), of(k1, <<it(p1, 1), it(p1, 1)>>),
     of(k1, <<it(p1, 1), it(p2, 1)>>), of(k1, <<it(p1, 1), it(p3, 1)>>),
     of(k1, <<it(p1, 1)>>), of(k1, <<it(p2, 1)>>),
     of(d1, <<it(p1, 1)>>), of(d1, <<it(p3, 1)>>)}
ThreeProducts  == {p1, p2, p3}
TwoCurrencies  == [p \in Products |-> IF p = p2 THEN "EUR" ELSE "USD"]
=============================================================================
