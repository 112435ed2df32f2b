------------------------- MODULE ReservationLedger -------------------------
(***************************************************************************)
(* What the order service promises about stock and orders, without saying  *)
(* how: the conceptual model of docs/adr/009 as the code implements it.    *)
(*                                                                         *)
(* A slot is one reservation row.  Its first component is the idempotency  *)
(* key of the purchase it belongs to.  The available quantity of a product *)
(* is not a variable here: it is the stock minus what the slots hold.      *)
(***************************************************************************)
EXTENDS Integers, FiniteSets

CONSTANTS
    Slots,      \* the reservation rows that may ever exist
    Products,
    Stock       \* Stock[p]: the units of p in the warehouse

VARIABLES
    hold,       \* hold[s]: status, product and quantity of slot s
    placed,     \* the keys for which an order exists
    announced   \* the keys for which an OrderPlaced event exists

vars == <<hold, placed, announced>>

Held(p) == {s \in Slots : /\ hold[s].status \in {"active", "consumed"}
                          /\ hold[s].product = p}

\* The units of p that slots hold, one element per unit.
Units(p) == UNION {{s} \X (1 .. hold[s].quantity) : s \in Held(p)}

Available(p) == Stock[p] - Cardinality(Units(p))

Init ==
    /\ \A s \in Slots : hold[s].status = "none"
    /\ placed = {}
    /\ announced = {}

\* An empty slot takes q units of p that nobody else holds.
Reserve(s) ==
    /\ hold[s].status = "none"
    /\ \E p \in Products : \E q \in 1 .. Available(p) :
             hold' = [hold EXCEPT ![s] = [status   |-> "active",
                                          product  |-> p,
                                          quantity |-> q]]
    /\ UNCHANGED <<placed, announced>>

\* An active slot gives its units back, for good.
Release(s) ==
    /\ hold[s].status = "active"
    /\ hold' = [hold EXCEPT ![s].status = "released"]
    /\ UNCHANGED <<placed, announced>>

\* All the slots of one purchase are consumed, and its order and its event
\* appear, in one step; a key buys once.
Purchase(k, S) ==
    /\ k \notin placed
    /\ \A s \in S : s[1] = k /\ hold[s].status = "active"
    /\ hold' = [s \in Slots |-> IF s \in S
                                THEN [hold[s] EXCEPT !.status = "consumed"]
                                ELSE hold[s]]
    /\ placed' = placed \cup {k}
    /\ announced' = announced \cup {k}

Next ==
    \/ \E s \in Slots : Reserve(s) \/ Release(s)
    \/ \E S \in SUBSET Slots : \E s \in S : Purchase(s[1], S)

Spec == Init /\ [][Next]_vars
=============================================================================
