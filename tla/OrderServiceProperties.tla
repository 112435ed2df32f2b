----------------------- MODULE OrderServiceProperties -----------------------
(***************************************************************************)
(* What the order service guarantees.                                      *)
(***************************************************************************)
EXTENDS OrderService

Statuses == {"none", "active", "consumed", "released"}
Labels   == {"idle", "lookup", "price", "check", "insert", "refetch",
             "charge", "finalize", "release", "done"}
Outcomes == {"none", "invalid", "replay", "product_not_found", "mixed_currency",
             "insufficient_inventory", "reservation_not_active",
             "payment_declined", "charge_invalid", "lines_lost", "finalize_failed", "ok",
             "reserved", "error", "crashed"}

Row   == [status : Statuses, product : Products \cup {NoProduct},
          quantity : Nat, expired : BOOLEAN]
Order == [items : Seq(Item), by : Requests]
Event == [order : Keys, by : Requests]

\* The type of every table and of every handler's local variables.
TypeOK ==
    /\ available \in [Products -> Nat]
    /\ rows \in [ResKeys -> Row]
    /\ orders \in [Keys -> Order \cup {NoOrder}]
    /\ outbox \subseteq Event
    /\ charges \subseteq Requests
    /\ pc \in [Requests -> Labels]
    /\ call \in [Requests -> Calls \cup {NoCall}]
    /\ reserved \in [Requests -> Nat]
    /\ undone \in [Requests -> Nat]
    /\ outcome \in [Requests -> Outcomes]
    /\ batch \in [Workers -> SUBSET ResKeys]

\* What a handler's local variables say at each label: how far through its
\* items it is, that only PlaceOrder has lines, and that releaseAll has lines
\* left to go through while it runs.
HandlerInv ==
    \A r \in Requests :
        /\ pc[r] # "idle" => call[r] \in Calls
        /\ pc[r] \notin {"idle", "done"} => Valid(ItemsOf(r))
        /\ pc[r] \in {"idle", "lookup"} => reserved[r] = 0
        /\ pc[r] \in {"price", "check", "insert", "refetch"} => reserved[r] < Len(ItemsOf(r))
        /\ pc[r] \in {"charge", "finalize"} => reserved[r] = Len(ItemsOf(r))
        /\ pc[r] \in {"lookup", "price", "charge", "finalize", "release"} => KeyOf(r) \in Keys
        /\ reserved[r] <= Len(ItemsOf(r))
        /\ reserved[r] > 0 => KeyOf(r) \in Keys
        /\ pc[r] \notin {"release", "done"} => undone[r] = 0
        /\ pc[r] = "release" => undone[r] < reserved[r]

\* A row that exists holds at least one unit of a product.
RowInv ==
    \A k \in ResKeys :
        \/ rows[k] = NoRow
        \/ /\ rows[k].status # "none"
           /\ rows[k].product \in Products
           /\ rows[k].quantity \in Nat \ {0}
-----------------------------------------------------------------------------
(* Stock.                                                                  *)

HeldKeys(p) == {k \in ResKeys : /\ rows[k].status \in {"active", "consumed"}
                                /\ rows[k].product = p}

\* The units of p that rows hold, one element per unit.
HeldUnits(p) == UNION {{k} \X (1 .. rows[k].quantity) : k \in HeldKeys(p)}

\* Whatever requests, retries, workers and faults do, inventory_available is
\* exactly the stock minus the units that active and consumed reservations
\* hold: no decrement without its row, no restore without its release.
StockConserved ==
    \A p \in Products : available[p] + Cardinality(HeldUnits(p)) = Stock[p]

ItemIndexes(k, p) == {i \in DOMAIN orders[k].items : orders[k].items[i].product = p}

\* The units of p in order lines, one element per unit.
SoldUnits(p) ==
    UNION {UNION {{<<k, i>>} \X (1 .. orders[k].items[i].quantity) : i \in ItemIndexes(k, p)}
           : k \in Keys}

\* The order lines of a product add up to no more than its stock.  The lines come
\* from requests and the stock is taken by rows, so this hangs on every line having
\* a row of its own with its quantity: it holds if OneQuantityPerKey.
SoldWithinStock == \A p \in Products : Cardinality(SoldUnits(p)) <= Stock[p]

\* A key that is sent again asks for the same quantity of a product as before.
OneQuantityPerKey ==
    \A c, d \in Calls :
        c.key = d.key /\ c.key \in Keys =>
            \A i \in DOMAIN c.items, j \in DOMAIN d.items :
                c.items[i].product = d.items[j].product =>
                    c.items[i].quantity = d.items[j].quantity

\* A consumed or released reservation never changes again, and an active one
\* keeps its product and quantity until then (ReservationStatus: "terminal").
TerminalStatus ==
    [][\A k \in ResKeys :
          /\ rows[k].status \in {"consumed", "released"} => rows'[k] = rows[k]
          /\ IsActive(k) => /\ rows'[k].product = rows[k].product
                            /\ rows'[k].quantity = rows[k].quantity]_vars

\* An active reservation is released only after its expires_at, or by a request
\* that has a line for it: neither the worker, with a list that may be stale,
\* nor another customer's failing checkout takes away a hold that is in time.
NoForeignRelease ==
    [][\A k \in ResKeys :
          (/\ IsActive(k)
           /\ rows'[k].status = "released")
          => \/ rows[k].expired
             \/ \E r \in Requests : pc[r] = "release" /\ k \in LineKeys(r)]_vars

\* When no statement fails, a handler that has returned any error before the
\* finalize step holds no active reservation any more: releaseAll went
\* through every line, whichever step the error came from.
AbortedHoldsNothing ==
    \A r \in Requests :
        (/\ pc[r] = "done"
         /\ outcome[r] \in {"product_not_found", "mixed_currency", "charge_invalid",
                            "insufficient_inventory", "reservation_not_active",
                            "payment_declined"})
        => \A k \in LineKeys(r) : ~IsActive(k)
-----------------------------------------------------------------------------
(* Orders, events and payments.                                            *)

\* The finalize transaction is all or nothing: a reservation is consumed if
\* and only if the order of its key exists and has the product as an item.
OrderBacked ==
    \A k \in Keys, p \in Products :
        rows[<<k, p>>].status = "consumed"
        <=> \E i \in DOMAIN orders[k].items : orders[k].items[i].product = p

\* "No order is silently dropped": every order has its OrderPlaced event, there
\* is no event without its order, and a key never gets a second one.
OneEventPerOrder ==
    /\ \A e \in outbox : HasOrder(e.order) /\ orders[e.order].by = e.by
    /\ \A k \in Keys : HasOrder(k) => \E e \in outbox : e.order = k

\* Every order was paid for by the request that placed it.
PaidOrder == \A k \in Keys : HasOrder(k) => orders[k].by \in charges

\* A handler tells the truth: "ok" means that its own order exists with exactly
\* its items, "replay" that an order of the key exists, "reserved" that a row
\* of the key exists.
OutcomeTruthful ==
    \A r \in Requests :
        /\ outcome[r] = "ok"       => orders[KeyOf(r)] = OrderOf(r)
        /\ outcome[r] = "replay"   => HasOrder(KeyOf(r))
        /\ outcome[r] = "reserved" => rows[<<KeyOf(r), NoProduct>>] # NoRow

\* A payment for a key that no other request uses, made before any line of it
\* expired, always becomes an order: only a reused key or a passed expires_at
\* can take the lines away between the charge and the finalize transaction.
TimelyPaymentLands ==
    \A r \in Requests :
        (/\ pc[r] = "finalize"
         /\ \A s \in Requests \ {r} : KeyOf(s) # KeyOf(r)
         /\ \A k \in LineKeys(r) : ~rows[k].expired)
        => CanFinalize(r)

\* When nothing fails, the only way for a payment not to end in an order is
\* that one of its lines was released before the finalize transaction.
LostPaymentExplained ==
    \A r \in charges :
        pc[r] = "done" => \/ HasOrder(KeyOf(r))
                          \/ \E k \in LineKeys(r) : rows[k].status = "released"
-----------------------------------------------------------------------------
(* Progress, under Fairness.                                               *)

\* Every request that got in is answered, or was in flight at a crash.
EveryCallAnswered == \A r \in Requests : pc[r] # "idle" ~> pc[r] = "done"

\* Every reservation ends consumed or released, those whose handler crashed,
\* failed to release them or never learnt of them included.
EveryHoldResolved == \A k \in ResKeys : IsActive(k) ~> ~IsActive(k)
-----------------------------------------------------------------------------
(* The abstract ledger this module implements.                             *)

Ledger == INSTANCE ReservationLedger WITH
    Slots     <- ResKeys,
    hold      <- [k \in ResKeys |-> [status   |-> rows[k].status,
                                     product  |-> rows[k].product,
                                     quantity |-> rows[k].quantity]],
    placed    <- {k \in Keys : HasOrder(k)},
    announced <- {e.order : e \in outbox}

\* Every step of the order service is a step of the reservation ledger or does
\* not touch it; in particular the conditional decrement on the counter never
\* admits more than the ledger derives from the rows.
RefinesLedger == Ledger!Spec
=============================================================================
