------------------------- MODULE OrderServiceClaims -------------------------
(***************************************************************************)
(* What the repository's documents and comments say of the order service   *)
(* and its code does not do.  Each is checked to be violated.              *)
(***************************************************************************)
EXTENDS OrderServiceProperties

\* docs/system-design.md, Overview: "no payment is ever lost".
NoPaymentLost == \A r \in charges : pc[r] = "done" => HasOrder(KeyOf(r))

\* docs/system-design.md, Overview: "no item is oversold": the order lines of a
\* product add up to no more than its stock.
NoItemOversold == SoldWithinStock
=============================================================================
