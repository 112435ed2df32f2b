---------------------------- MODULE OrderService ----------------------------
(***************************************************************************)
(* The order service: the PlaceOrder and CreateReservation handlers        *)
(* (backend/services/order), the tables they share (products,              *)
(* reservations, orders, order_items, outbox) and the cleanup worker       *)
(* (backend/cmd/cleanup-worker).                                           *)
(*                                                                         *)
(* Every SQL statement, every transaction and every provider call is one   *)
(* step; between two steps of a request anything else may happen.  Local   *)
(* variables of a handler are functions of the request.  A retry by a      *)
(* client is another request with the same key.                            *)
(***************************************************************************)
EXTENDS Integers, Sequences, FiniteSets

CONSTANTS
    Requests,         \* RPCs that may arrive
    Keys,             \* idempotency keys of PlaceOrder calls
    DirectKeys,       \* idempotency keys of CreateReservation calls
    Calls,            \* what a client may send: a key and a list of items
    Products,         \* product ids a client may name
    NoProduct,        \* "no product"
    Missing,          \* the product ids with no row in products
    Stock,            \* Stock[p]: inventory_total, and inventory_available at the start
    Free,             \* the products whose price_amount is zero
    CurrencyOf,       \* CurrencyOf[p]: price_currency
    Workers,          \* cleanup worker processes
    BatchSize,        \* cleanupBatch
    ProviderOutcomes, \* what the payment provider may answer
    Faults            \* TRUE: statements may fail and processes may crash

Item == [product : Products, quantity : Int]

ASSUME KeysAssumption == Keys \cap DirectKeys = {}

ASSUME CallsAssumption ==
    \A c \in Calls :
        /\ DOMAIN c = {"key", "items"}
        /\ c = [key |-> c.key, items |-> c.items]
        /\ c.key \in Keys \cup DirectKeys
        /\ c.items \in Seq(Item)
        /\ c.key \in DirectKeys => Len(c.items) = 1

ASSUME ProductsAssumption ==
    /\ NoProduct \notin Products
    /\ Missing \subseteq Products
    /\ Free \subseteq Products
    /\ Stock \in [Products -> Nat]

ASSUME SettingsAssumption ==
    /\ BatchSize \in Nat \ {0}
    /\ ProviderOutcomes \subseteq {"ok", "declined", "timeout"}
    /\ Faults \in BOOLEAN

VARIABLES
    available,  \* products.inventory_available
    rows,       \* the reservations table, by idempotency key
    orders,     \* the orders table with its order_items, by idempotency key
    outbox,     \* the outbox table
    charges,    \* the requests whose charge the provider executed
    pc,         \* where the handler of a request stands
    call,       \* what the request asked for
    reserved,   \* len(lines): how many items have a line so far
    undone,     \* how many lines releaseAll has been through
    outcome,    \* what the handler returned, or will return after releaseAll
    batch       \* the rows a worker has listed and not yet been through

tables == <<available, rows, orders, outbox>>
locals == <<pc, call, reserved, undone, outcome>>
vars   == <<tables, charges, locals, batch>>
-----------------------------------------------------------------------------
(* Rows and keys.                                                          *)

\* deriveReservationKey: PlaceOrder reserves under a key derived from its own
\* key and the product, CreateReservation under the key it was given.
ResKey(k, p) == IF k \in DirectKeys THEN <<k, NoProduct>> ELSE <<k, p>>

ResKeys == (Keys \X Products) \cup (DirectKeys \X {NoProduct})

NoRow   == [status |-> "none", product |-> NoProduct, quantity |-> 0, expired |-> FALSE]
NoOrder == [items |-> <<>>, by |-> "none"]
NoCall  == [key |-> "none", items |-> <<>>]

ActiveRow(it) == [status |-> "active", product |-> it.product,
                  quantity |-> it.quantity, expired |-> FALSE]

KeyOf(r)     == call[r].key
ItemsOf(r)   == call[r].items
IsDirect(r)  == KeyOf(r) \in DirectKeys
NextItem(r)  == ItemsOf(r)[reserved[r] + 1]
NextKey(r)   == ResKey(KeyOf(r), NextItem(r).product)
LineKey(r, i) == ResKey(KeyOf(r), ItemsOf(r)[i].product)
LineKeys(r)  == {LineKey(r, i) : i \in 1 .. reserved[r]}

IsActive(k)  == rows[k].status = "active"
HasOrder(k)  == orders[k] # NoOrder

Init ==
    /\ available = Stock
    /\ rows      = [k \in ResKeys |-> NoRow]
    /\ orders    = [k \in Keys |-> NoOrder]
    /\ outbox    = {}
    /\ charges   = {}
    /\ pc        = [r \in Requests |-> "idle"]
    /\ call      = [r \in Requests |-> NoCall]
    /\ reserved  = [r \in Requests |-> 0]
    /\ undone    = [r \in Requests |-> 0]
    /\ outcome   = [r \in Requests |-> "none"]
    /\ batch     = [w \in Workers |-> {}]
-----------------------------------------------------------------------------
(* How a handler moves on.                                                 *)

GoTo(r, label) ==
    /\ pc' = [pc EXCEPT ![r] = label]
    /\ UNCHANGED <<call, reserved, undone, outcome>>

Return(r, result) ==
    /\ pc' = [pc EXCEPT ![r] = "done"]
    /\ outcome' = [outcome EXCEPT ![r] = result]
    /\ UNCHANGED <<call, reserved, undone>>

\* Mutant: the error is returned without releaseAll.
AbortKeepsLines(r, result) == Return(r, result)

\* releaseAll and then return the error.
Abort(r, result) ==
    /\ pc' = [pc EXCEPT ![r] = IF reserved[r] = 0 THEN "done" ELSE "release"]
    /\ outcome' = [outcome EXCEPT ![r] = result]
    /\ UNCHANGED <<call, reserved, undone>>

\* The reservation of the next item is in hand: CreateReservation returns it,
\* PlaceOrder appends the line and takes the next item or goes to the charge.
AppendLine(r) ==
    \/ /\ IsDirect(r)
       /\ Return(r, "reserved")
    \/ /\ ~IsDirect(r)
       /\ reserved' = [reserved EXCEPT ![r] = @ + 1]
       /\ pc' = [pc EXCEPT ![r] = IF reserved[r] + 1 = Len(ItemsOf(r))
                                  THEN "charge" ELSE "price"]
       /\ UNCHANGED <<call, undone, outcome>>
-----------------------------------------------------------------------------
(* Validation and the idempotency lookup.                                  *)

Valid(its) ==
    /\ its # <<>>
    /\ \A i \in DOMAIN its : its[i].quantity >= 1
    /\ \A i, j \in DOMAIN its : its[i].product = its[j].product => i = j

Start(r, c) ==
    /\ pc[r] = "idle"
    /\ Valid(c.items)
    /\ call' = [call EXCEPT ![r] = c]
    /\ pc' = [pc EXCEPT ![r] = IF c.key \in DirectKeys THEN "check" ELSE "lookup"]
    /\ UNCHANGED <<tables, charges, reserved, undone, outcome, batch>>

Reject(r, c) ==
    /\ pc[r] = "idle"
    /\ ~Valid(c.items)
    /\ call' = [call EXCEPT ![r] = c]
    /\ pc' = [pc EXCEPT ![r] = "done"]
    /\ outcome' = [outcome EXCEPT ![r] = "invalid"]
    /\ UNCHANGED <<tables, charges, reserved, undone, batch>>

Replay(r) ==
    /\ pc[r] = "lookup"
    /\ HasOrder(KeyOf(r))
    /\ Return(r, "replay")
    /\ UNCHANGED <<tables, charges, batch>>

LookupMiss(r) ==
    /\ pc[r] = "lookup"
    /\ ~HasOrder(KeyOf(r))
    /\ GoTo(r, "price")
    /\ UNCHANGED <<tables, charges, batch>>
-----------------------------------------------------------------------------
(* The loop over the items: price, pre-check, atomic decrement-and-insert. *)

SameCurrency(r) ==
    CurrencyOf[NextItem(r).product] = CurrencyOf[ItemsOf(r)[1].product]

PriceFound(r) ==
    /\ pc[r] = "price"
    /\ NextItem(r).product \notin Missing
    /\ SameCurrency(r)
    /\ GoTo(r, "check")
    /\ UNCHANGED <<tables, charges, batch>>

PriceMissing(r) ==
    /\ pc[r] = "price"
    /\ NextItem(r).product \in Missing
    /\ Abort(r, "product_not_found")
    /\ UNCHANGED <<tables, charges, batch>>

MixedCurrency(r) ==
    /\ pc[r] = "price"
    /\ NextItem(r).product \notin Missing
    /\ ~SameCurrency(r)
    /\ Abort(r, "mixed_currency")
    /\ UNCHANGED <<tables, charges, batch>>

\* CheckReservationPreconditions: an existing row wins over a missing product.
CheckFindsRow(r) ==
    /\ pc[r] = "check"
    /\ rows[NextKey(r)] # NoRow
    /\ GoTo(r, "refetch")
    /\ UNCHANGED <<tables, charges, batch>>

CheckFindsNoProduct(r) ==
    /\ pc[r] = "check"
    /\ rows[NextKey(r)] = NoRow
    /\ NextItem(r).product \in Missing
    /\ Abort(r, "product_not_found")
    /\ UNCHANGED <<tables, charges, batch>>

CheckPasses(r) ==
    /\ pc[r] = "check"
    /\ rows[NextKey(r)] = NoRow
    /\ NextItem(r).product \notin Missing
    /\ GoTo(r, "insert")
    /\ UNCHANGED <<tables, charges, batch>>

\* Mutant: the boundary of the conditional decrement is off by one.
InStockOffByOne(it) == available[it.product] >= it.quantity - 1

InStock(it) == available[it.product] >= it.quantity

\* Mutant: reservations.idempotency_key is not UNIQUE, the last insert wins.
TakeStockTwice(it, k) ==
    /\ available' = [available EXCEPT ![it.product] = @ - it.quantity]
    /\ rows' = [rows EXCEPT ![k] = ActiveRow(it)]

\* DecrementInventoryAndCreateReservation when it inserts a row.
TakeStock(it, k) ==
    /\ rows[k] = NoRow
    /\ available' = [available EXCEPT ![it.product] = @ - it.quantity]
    /\ rows' = [rows EXCEPT ![k] = ActiveRow(it)]

Reserve(r) ==
    /\ pc[r] = "insert"
    /\ InStock(NextItem(r))
    /\ TakeStock(NextItem(r), NextKey(r))
    /\ AppendLine(r)
    /\ UNCHANGED <<orders, outbox, charges, batch>>

\* The decrement matches no row, whether or not the key is taken.
OutOfStock(r) ==
    /\ pc[r] = "insert"
    /\ ~InStock(NextItem(r))
    /\ Abort(r, "insufficient_inventory")
    /\ UNCHANGED <<tables, charges, batch>>

\* 23505: another request inserted the key after the pre-check.
ReserveConflict(r) ==
    /\ pc[r] = "insert"
    /\ InStock(NextItem(r))
    /\ rows[NextKey(r)] # NoRow
    /\ GoTo(r, "refetch")
    /\ UNCHANGED <<tables, charges, batch>>

\* CreateReservation returns the row whatever its status.
Usable(r) == IsDirect(r) \/ IsActive(NextKey(r))

Refetch(r) ==
    /\ pc[r] = "refetch"
    /\ Usable(r)
    /\ AppendLine(r)
    /\ UNCHANGED <<tables, charges, batch>>

RefetchNotActive(r) ==
    /\ pc[r] = "refetch"
    /\ ~Usable(r)
    /\ Abort(r, "reservation_not_active")
    /\ UNCHANGED <<tables, charges, batch>>
-----------------------------------------------------------------------------
(* The payment.                                                            *)

TotalIsZero(r) == \A i \in DOMAIN ItemsOf(r) : ItemsOf(r)[i].product \in Free

ChargeAccepted(r) ==
    /\ pc[r] = "charge"
    /\ ~TotalIsZero(r)
    /\ "ok" \in ProviderOutcomes
    /\ charges' = charges \cup {r}
    /\ GoTo(r, "finalize")
    /\ UNCHANGED <<tables, batch>>

\* Mutant: a declined charge is not noticed.
ChargeDeclinedIgnored(r) ==
    /\ pc[r] = "charge"
    /\ "declined" \in ProviderOutcomes
    /\ GoTo(r, "finalize")
    /\ UNCHANGED <<tables, charges, batch>>

ChargeDeclined(r) ==
    /\ pc[r] = "charge"
    /\ ~TotalIsZero(r)
    /\ "declined" \in ProviderOutcomes
    /\ Abort(r, "payment_declined")
    /\ UNCHANGED <<tables, charges, batch>>

\* payment.ErrTimeout: the charge may or may not have happened.
ChargeTimesOut(r) ==
    /\ pc[r] = "charge"
    /\ ~TotalIsZero(r)
    /\ "timeout" \in ProviderOutcomes
    /\ \/ charges' = charges \cup {r}
       \/ UNCHANGED charges
    /\ Abort(r, "payment_declined")
    /\ UNCHANGED <<tables, batch>>

\* payment.ErrInvalidRequest
ChargeInvalid(r) ==
    /\ pc[r] = "charge"
    /\ TotalIsZero(r)
    /\ Abort(r, "charge_invalid")
    /\ UNCHANGED <<tables, charges, batch>>
-----------------------------------------------------------------------------
(* The finalize transaction.                                               *)

\* Mutant: orders.idempotency_key is not UNIQUE.
CanFinalizeAgain(r) == \A k \in LineKeys(r) : IsActive(k)

\* Every ConsumeReservationByID finds an active row, and the UNIQUE constraint
\* on orders.idempotency_key lets InsertOrder through.
CanFinalize(r) ==
    /\ \A k \in LineKeys(r) : IsActive(k)
    /\ ~HasOrder(KeyOf(r))

OrderOf(r) == [items |-> ItemsOf(r), by |-> r]
EventOf(r) == [order |-> KeyOf(r), by |-> r]

Commit(r) ==
    /\ CanFinalize(r)
    /\ rows' = [k \in ResKeys |-> IF k \in LineKeys(r)
                                  THEN [rows[k] EXCEPT !.status = "consumed"]
                                  ELSE rows[k]]
    /\ orders' = [orders EXCEPT ![KeyOf(r)] = OrderOf(r)]
    /\ outbox' = outbox \cup {EventOf(r)}
    /\ UNCHANGED available

Finalize(r) ==
    /\ pc[r] = "finalize"
    /\ Commit(r)
    /\ Return(r, "ok")
    /\ UNCHANGED <<charges, batch>>

\* Mutant: the error of FinalizeOrder is dropped.
FinalizeErrorDropped(r) ==
    /\ pc[r] = "finalize"
    /\ \E k \in LineKeys(r) : ~IsActive(k)
    /\ Return(r, "ok")
    /\ UNCHANGED <<tables, charges, batch>>

\* Mutant: there is no transaction, the rows consumed before the error stay so.
FinalizeNotRolledBack(r) ==
    /\ pc[r] = "finalize"
    /\ \E k \in LineKeys(r) : ~IsActive(k)
    /\ rows' = [k \in ResKeys |-> IF k \in LineKeys(r) /\ IsActive(k)
                                  THEN [rows[k] EXCEPT !.status = "consumed"]
                                  ELSE rows[k]]
    /\ Return(r, "lines_lost")
    /\ UNCHANGED <<available, orders, outbox, charges, batch>>

\* Mutant: ConsumeReservationByID also looks at expires_at.
FinalizeLinesLate(r) ==
    /\ pc[r] = "finalize"
    /\ \E k \in LineKeys(r) : ~IsActive(k) \/ rows[k].expired
    /\ Return(r, "lines_lost")
    /\ UNCHANGED <<tables, charges, batch>>

\* ConsumeReservationByID finds a row that is not active any more: the
\* transaction rolls back with ErrReservationNotActive.  The lines that are left
\* are not released and the charge stays.
FinalizeLinesLost(r) ==
    /\ pc[r] = "finalize"
    /\ \E k \in LineKeys(r) : ~IsActive(k)
    /\ Return(r, "lines_lost")
    /\ UNCHANGED <<tables, charges, batch>>

\* 23505 from InsertOrder: another attempt, with other lines, placed the order.
FinalizeDuplicate(r) ==
    /\ pc[r] = "finalize"
    /\ \A k \in LineKeys(r) : IsActive(k)
    /\ HasOrder(KeyOf(r))
    /\ Return(r, "finalize_failed")
    /\ UNCHANGED <<tables, charges, batch>>
-----------------------------------------------------------------------------
(* releaseAll.                                                             *)

\* Mutant: the status changes and the inventory is not restored.
RestockForgotten(k) == available

Restock(k) == [available EXCEPT ![rows[k].product] = @ + rows[k].quantity]

\* Mutant: the release does not look at the status of the row.
ReleaseUnguarded(k) ==
    /\ rows' = [rows EXCEPT ![k].status = "released"]
    /\ available' = Restock(k)

\* ReleaseReservationAndRestoreInventory
Release(k) ==
    \/ /\ IsActive(k)
       /\ rows' = [rows EXCEPT ![k].status = "released"]
       /\ available' = Restock(k)
    \/ /\ ~IsActive(k)
       /\ UNCHANGED <<rows, available>>

\* Mutant: the loop never gets past its first line.
NextLineStuck(r) == UNCHANGED <<pc, call, reserved, undone, outcome>>

NextLine(r) ==
    /\ undone' = [undone EXCEPT ![r] = @ + 1]
    /\ pc' = [pc EXCEPT ![r] = IF undone[r] + 1 = reserved[r] THEN "done" ELSE "release"]
    /\ UNCHANGED <<call, reserved, outcome>>

ReleaseLine(r) ==
    /\ pc[r] = "release"
    /\ Release(LineKey(r, undone[r] + 1))
    /\ NextLine(r)
    /\ UNCHANGED <<orders, outbox, charges, batch>>
-----------------------------------------------------------------------------
(* Time and the cleanup worker.                                            *)

\* expires_at passes.  Nothing bounds how long a handler takes, nor how long
\* after the first attempt a retry arrives, so this may happen at any point.
Expire(k) ==
    /\ IsActive(k)
    /\ ~rows[k].expired
    /\ rows' = [rows EXCEPT ![k].expired = TRUE]
    /\ UNCHANGED <<available, orders, outbox, charges, locals, batch>>

\* Mutant: the list ignores expires_at.
ExpiredOrNot == {k \in ResKeys : IsActive(k)}

\* Mutant: the list misses the rows of CreateReservation.
ExpiredOfPlaceOrder == {k \in Keys \X Products : IsActive(k) /\ rows[k].expired}

Expired == {k \in ResKeys : IsActive(k) /\ rows[k].expired}

\* ListExpiredActiveReservations.  The model does not keep the order in which
\* rows expire, so any BatchSize of them may be the oldest.
ListExpired(w) ==
    /\ batch[w] = {}
    /\ \E S \in SUBSET Expired :
          /\ S = Expired \/ Cardinality(S) = BatchSize
          /\ Cardinality(S) <= BatchSize
          /\ batch' = [batch EXCEPT ![w] = S]
    /\ UNCHANGED <<tables, charges, locals>>

ReleaseExpired(w, k) ==
    /\ k \in batch[w]
    /\ Release(k)
    /\ batch' = [batch EXCEPT ![w] = @ \ {k}]
    /\ UNCHANGED <<orders, outbox, charges, locals>>
-----------------------------------------------------------------------------
(* Faults: a statement fails or its answer is lost, the request's context   *)
(* is cancelled, a process stops.                                          *)

StatementFails(r) ==
    /\ Faults
    /\ pc[r] \in {"lookup", "price", "check", "insert", "refetch"}
    /\ Abort(r, "error")
    /\ UNCHANGED <<tables, charges, batch>>

\* The row is committed but the handler sees an error, so it has no line for it.
ReserveUnconfirmed(r) ==
    /\ Faults
    /\ pc[r] = "insert"
    /\ InStock(NextItem(r))
    /\ TakeStock(NextItem(r), NextKey(r))
    /\ Abort(r, "error")
    /\ UNCHANGED <<orders, outbox, charges, batch>>

FinalizeFails(r) ==
    /\ Faults
    /\ pc[r] = "finalize"
    /\ Return(r, "finalize_failed")
    /\ UNCHANGED <<tables, charges, batch>>

FinalizeUnconfirmed(r) ==
    /\ Faults
    /\ pc[r] = "finalize"
    /\ Commit(r)
    /\ Return(r, "finalize_failed")
    /\ UNCHANGED <<charges, batch>>

\* releaseAll ignores the error and takes the next line.
ReleaseLineFails(r) ==
    /\ Faults
    /\ pc[r] = "release"
    /\ NextLine(r)
    /\ UNCHANGED <<tables, charges, batch>>

InFlight == {r \in Requests : pc[r] \notin {"idle", "done"}}

\* The order service stops: every handler is gone, the tables stay.
Crash ==
    /\ Faults
    /\ InFlight # {}
    /\ pc' = [r \in Requests |-> IF r \in InFlight THEN "done" ELSE pc[r]]
    /\ outcome' = [r \in Requests |-> IF r \in InFlight THEN "crashed" ELSE outcome[r]]
    /\ UNCHANGED <<tables, charges, call, reserved, undone, batch>>

\* A release that fails is logged; the next tick lists the row again.
ReleaseExpiredFails(w, k) ==
    /\ Faults
    /\ k \in batch[w]
    /\ batch' = [batch EXCEPT ![w] = @ \ {k}]
    /\ UNCHANGED <<tables, charges, locals>>

WorkerRestart(w) ==
    /\ Faults
    /\ batch[w] # {}
    /\ batch' = [batch EXCEPT ![w] = {}]
    /\ UNCHANGED <<tables, charges, locals>>
-----------------------------------------------------------------------------
\* The steps a handler takes when nothing fails, one label at a time.
HandlerStep(r) ==
    \/ Replay(r) \/ LookupMiss(r)
    \/ PriceFound(r) \/ PriceMissing(r) \/ MixedCurrency(r)
    \/ CheckFindsRow(r) \/ CheckFindsNoProduct(r) \/ CheckPasses(r)
    \/ Reserve(r) \/ OutOfStock(r) \/ ReserveConflict(r)
    \/ Refetch(r) \/ RefetchNotActive(r)
    \/ ChargeAccepted(r) \/ ChargeDeclined(r) \/ ChargeTimesOut(r) \/ ChargeInvalid(r)
    \/ Finalize(r) \/ FinalizeLinesLost(r) \/ FinalizeDuplicate(r)
    \/ ReleaseLine(r)

HandlerFault(r) ==
    \/ StatementFails(r) \/ ReserveUnconfirmed(r)
    \/ FinalizeFails(r) \/ FinalizeUnconfirmed(r)
    \/ ReleaseLineFails(r)

Arrival(r) == \E c \in Calls : Start(r, c) \/ Reject(r, c)

WorkerStep(w) ==
    \/ ListExpired(w)
    \/ \E k \in ResKeys : ReleaseExpired(w, k)

WorkerFault(w) ==
    \/ \E k \in ResKeys : ReleaseExpiredFails(w, k)
    \/ WorkerRestart(w)

\* Everything but the arrival of a call.
ServiceStep ==
    \/ \E r \in Requests : HandlerStep(r) \/ HandlerFault(r)
    \/ \E k \in ResKeys : Expire(k)
    \/ \E w \in Workers : WorkerStep(w) \/ WorkerFault(w)
    \/ Crash

Next == ServiceStep \/ \E r \in Requests : Arrival(r)

Spec == Init /\ [][Next]_vars

\* Go schedules every handler and every call returns; time passes; the worker's
\* ticker fires.  A release that is tried again and again succeeds at last:
\* cleanup.go's comment calls such failures transient.
Fairness ==
    /\ \A r \in Requests : WF_vars(HandlerStep(r))
    /\ \A k \in ResKeys : WF_vars(Expire(k))
    /\ \A w \in Workers : WF_vars(ListExpired(w))
    /\ \A w \in Workers, k \in ResKeys : SF_vars(ReleaseExpired(w, k))

FairSpec == Spec /\ Fairness
=============================================================================
