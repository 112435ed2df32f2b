# Verification of the e-commerce demo

TLA+ specifications of the purchase flow of this repository, of the listing, the accounts,
the life of its processes and the cart in its pages, TLC models that check them on small
instances, and TLAPS proofs of every safety property for all instances.  Paths below are relative to `src/`.

    tlc -workers 2 -config contention.cfg MCOrderService    # one of the runs
    tlc -workers 2 -config checkout.cfg MCCheckout          # another
    tlapm OrderServiceProofs.tla                            # the proofs
    tlapm CheckoutProofs.tla
    tlapm CatalogProofs.tla
    tlapm AccountsProofs.tla                                # and five more modules of proofs

`PROJECT.json` maps every definition to the lines it models and lists the runs, the
theorems, the hazards and, for each property, a mutation of the model that breaks it.

## 1. The system

A shop: Go services behind an HTTP gateway, one PostgreSQL database, a Next.js
frontend.

| Component | State | Operations | Talks to |
|---|---|---|---|
| Order service (`backend/services/order`) | tables `reservations`, `orders`, `order_items`, `outbox`; the counter `products.inventory_available` | `PlaceOrder`, `CreateReservation`, `GetOrder` | PostgreSQL, payment client |
| Cleanup worker (`backend/cmd/cleanup-worker`) | none of its own | every 60 s: list up to 100 expired active reservations, release each | PostgreSQL |
| Payment client (`backend/internal/payment`) | none (a fake that declines one charge in five) | `Charge` | called by `PlaceOrder` |
| Cart service (`backend/services/cart`) | tables `carts`, `cart_items` | `GetCart`, `AddItem`, `RemoveItem`, `ClearCart`, `SetItemQuantity` | PostgreSQL |
| Catalog service (`backend/services/catalog`) | reads `products` | `ListProducts` (keyset pages), `GetProduct` | PostgreSQL |
| Gateway (`backend/gateway`) | table `users`; sessions are signed tokens | signup, login, logout, `/me`, cart routes, `POST /checkout`, `GET /orders/{id}` | the three services over gRPC |
| Frontend (`frontend/`) | an optimistic copy of the cart; one idempotency key per checkout page | add, remove, set quantity, place order | gateway |
| Processes (`backend/cmd/*`, `internal/config`, `internal/database`, `gateway/server.go`) | a pool of connections; requests in flight | start, serve, stop on a signal or an error | PostgreSQL, each other |
| Outbox (`backend/migrations/0006`) | rows written by `FinalizeOrder` | no publisher exists in the code | - |

How they interact: the gateway's `Checkout` reads the cart, calls `PlaceOrder` with its
lines and the client's `Idempotency-Key`, and on success clears the cart.
`PlaceOrder` takes four stages.  It looks the key up among the orders; it reserves
item by item, each with one statement that decrements the counter and inserts a row
under a key derived from the order's key and the product; it charges; and it finalizes
in one transaction that consumes the rows and inserts the order and its event.  Every
error before the last stage runs `releaseAll`.  The worker releases what is left
behind.  All coordination goes through the database: there is no lock and no
message between two handlers.

What is hard about it:

* any number of handlers, retries of the same key and workers interleave between
  any two SQL statements;
* a payment cannot be rolled back, and the stages before and after it are separate
  transactions;
* rows are shared between attempts of one key, so one attempt can undo what
  another relies on;
* a process may stop, a statement may fail, or its answer may be lost, anywhere;
* the worker acts on a list that may be out of date when it gets to a row;
* a listing is read page by page while it grows, and its cursor is all the server knows;
* a browser's answers, each with a cookie, overtake each other, and a token outlives a logout;
* a signal may come at any time, and five seconds later connections may still be in use;
* a page shows a cart that its actions, some of two calls, have yet to bring about;
* `inventory_available` is maintained by increments and decrements in separate
  statements and must not drift from the rows.

What makes each component correct:

* *Order service and worker*: stock is never oversold and never leaks; reservations
  only move active -> consumed or released; order, items, event and consumption
  appear together or not at all; one order per key; an order is paid for; a failed
  checkout keeps no stock; nobody loses a hold that is in time because of someone
  else; every call is answered and every hold resolved.
* *Cart*: additive adds are not lost; a line's quantity stays positive and in
  range; a checkout removes only what it ordered (it does not: see section 7).
* *Checkout*: what the carts accept can be ordered; the status says what happened to the
  purchase; a checkout that failed leaves the cart for a retry; every one is answered.
* *Catalog*: a walk over the pages returns every product present at its start
  exactly once, and ends.
* *Accounts and sessions*: one account per email; a browser is in, and is shown, only what
  it sent the password for; an account that exists can be used.
* *Processes*: every request ends, with more of them than connections; a stop comes to
  its end, and cuts nothing off unless it overran.
* *Frontend cart*: what the page shows is what the cart becomes, unless an action failed or
  somebody else had a part; a failed action is contained; every click has its turn.

## 2. The modules

| Module | What it is |
|---|---|
| `OrderService` | the order service, its tables, the payment client and the cleanup workers |
| `OrderServiceProperties` | type invariant, invariants, action properties, liveness, the refinement mapping |
| `ReservationLedger` | the abstract specification: what reservations, orders and events promise |
| `OrderServiceClaims` | statements of the docs and comments that the code does not keep |
| `OrderServiceProofs` | the theorems about its tables and the ledger |
| `OutcomeProofs` | the theorems about what becomes of a request: its answer, its lines, its payment |
| `MCOrderService` | values of the constants for TLC |
| `Cart` | the cart service and the cart routes of the gateway |
| `Checkout` | the gateway's `POST /checkout`, composed with `OrderService` and `Cart` |
| `CheckoutProperties` | its properties |
| `CheckoutProofs` | the theorems about the composition: the refinement, and the carts |
| `ShopProofs` | the theorems about the gateway's handler: its statuses, and what it does to a cart |
| `MCCheckout` | values of the constants for TLC |
| `Catalog`, `CatalogProofs`, `MCCatalog` | the catalog service and the product routes; its theorems; values for TLC |
| `Accounts`, `AccountsProofs`, `MCAccounts` | signup, login, logout and the protected routes; its theorems; values for TLC |
| `Process`, `ProcessProofs`, `MCProcess` | the life of a process, from `main()` to the exit status; its theorems; values for TLC |
| `Storefront`, `StorefrontProofs` | the cart of a page, composed with `Cart`; its theorems |

### OrderService

*State.*  The tables are functions of a key: `rows` (reservations, by idempotency
key), `orders` (with `order_items`; only the items and the request that placed the
order are kept), the set `outbox`, and `available`
(`products.inventory_available`).  `charges` is what the provider did: the requests
whose charge went through.  A request's local variables are functions of the request:
`pc` (the statement it is about to issue), `call` (key and items), `reserved`
(`len(lines)`), `undone` (how far `releaseAll` is), `outcome` (what it returns).
`batch[w]` is the rest of worker `w`'s list.

*Actions.*  One per SQL statement, transaction or provider call and per result:

| Code | Actions |
|---|---|
| validation, `place_order.go` 63-78 | `Start`, `Reject` |
| key lookup, 80-86 | `Replay`, `LookupMiss` |
| price and currency, 109-129 | `PriceFound`, `PriceMissing`, `MixedCurrency` |
| pre-check, `repo/reservations.go` 51-63 | `CheckFindsRow`, `CheckFindsNoProduct`, `CheckPasses` |
| decrement-and-insert, 65-86 | `Reserve`, `OutOfStock`, `ReserveConflict` |
| refetch and status, 91-97 and `place_order.go` 152-158 | `Refetch`, `RefetchNotActive` |
| charge, 170-198 | `ChargeAccepted`, `ChargeDeclined`, `ChargeTimesOut`, `ChargeInvalid` |
| `FinalizeOrder`, `repo/orders.go` 116-220 | `Finalize`, `FinalizeLinesLost`, `FinalizeDuplicate` |
| `releaseAll`, `place_order.go` 98-104 | `ReleaseLine` |
| `CleanupExpired`, `cleanup.go` | `ListExpired`, `ReleaseExpired`, `ReleaseExpiredFails` |
| time | `Expire` |
| failures | `StatementFails`, `ReserveUnconfirmed`, `FinalizeFails`, `FinalizeUnconfirmed`, `ReleaseLineFails`, `Crash`, `WorkerRestart` |

`CreateReservation`, the RPC, is the same path without lookup, price, charge and
finalize, with the caller's own key (`DirectKeys`) and no check of the row's status.
Nothing ever finalizes such a row: it ends with the worker.

*Abstractions.*  A single statement is atomic, and so is the finalize transaction: its
`UPDATE ... WHERE status = 'active'` holds the row locks that make concurrent releases
and consumptions wait, and every insert after it is invisible until the commit.  A
transaction that PostgreSQL aborts (a deadlock between two attempts of one key) is
`FinalizeFails`.  Derived keys (UUID v5) are pairs, so distinct pairs give distinct
keys.  Users, ids, names and timestamps are left out; a price is zero or not, and has a
currency.  Totals are not computed.  `expires_at` is one flag that may be set at any
point after the insert: no timeout bounds a handler, and a retry may use a row that is
nearly fifteen minutes old.  Products are not added or deleted: no code does.
`inventory_total` never changes in the code and is the constant `Stock`.

### ReservationLedger

Slots that are reserved, released for good, or purchased together with an order and an
event.  The available quantity is not a variable but *defined* as stock minus what slots
hold.  `OrderService` implements it (`RefinesLedger`): the conditional decrement on the
counter admits exactly what the rows allow, and the finalize transaction is one purchase.

### Cart

*State.*  `cart[u]` is the list of the `cart_items` rows of user `u` by `added_at`, each a
product and a quantity; `edit[e]` is one request to a cart route, what it asked for and
how it was answered.

*Actions.*  One per operation of `repo/repo.go` and per result: `AddLine`, `AddToLine`
(the additive upsert without and with a conflict), `AddUnknown` (foreign key),
`AddOverflows` (the sum leaves INTEGER, `MaxQuantity`), `SetItemQuantity`, `SetUnknown`,
`RemoveItem`, `RemoveNothing`, `Clear`, `InvalidQuantity` (`service.go`), `EditFails`.
`Accept` may lose the answer of a call that was carried out.

*Abstractions.*  Each operation is one transaction with a single statement that writes
`cart_items`, so it is one step.  `UpsertCart` locks the `carts` row of the
user, so two adds of one user are serial; every other pair meets in the row locks of its
single statement.  The
`carts` row itself is created once and never removed, and an absent cart answers as an
empty one.  Bodies that are not JSON and ids that are not UUIDs change nothing and are left
out, and so are sessions: a request has a user.

### Checkout

*State.*  Everything of `OrderService` and `Cart`, and for each request `stage` (the call
the handler waits for) and `status` (the HTTP status it wrote).  `Owner[k]` is the user
whose page made key `k`: `Checkout.tsx` makes one per mount and reuses it for every
attempt of that page.

| `handlers/checkout.go` | Actions |
|---|---|
| header, 65-69 | `KeyRefused` (also a key that `PlaceOrder` cannot parse) |
| GetCart, 71-80 | `CartUnavailable`, `EmptyCart`, `ReadCart` |
| PlaceOrder, 90-98 | `OrderService`'s steps, then `PlaceSucceeds`, `PlaceFails`, `PlaceUnconfirmed` |
| ClearCart, 103-108 | `ClearCart`, `ClearFails` |

`ReadCart` joins GetCart with the arrival of PlaceOrder.  The cart may change between
them, but the handler has its copy and PlaceOrder's first step reads no table, so nothing
can tell the two orders apart; a PlaceOrder that never arrives is `CartUnavailable`, with
the same status.  `StatusOf` is the composition of the gRPC codes of the order service's
handler with `writeCheckoutError`.  A client that goes away or a gateway that stops cancels
the context, and the running call fails for the handler whatever it does at the other end:
`PlaceUnconfirmed`, `ClearFails`.  The order service goes on in that case.

### Catalog

*State.*  `products` are the keys of the rows, `(created_at, id)`; `now` is the service's
clock.  One client walks: `cursor` is the `next_page_cursor` it was given, `page` the rows of
the last page, `seen` those before, `start` what it could list when it began.

| Code | Actions |
|---|---|
| `Service.ListProducts` 35-60, through the handler and the gateway | `NextPage`, `LastPage`; `Begin` sends no cursor |
| failures | `PageFails` (502), `PageRefused` (400: a size that is no int32, a cursor that does not decode) |
| `GetProduct` | `GetProduct` |
| rows and time | `Insert`, `Tick` |

`FirstOf(S, n)` is `ORDER BY ... LIMIT n`, `Below(c)` the row comparison of the `WHERE`, and
`ClampPageSize`, `Sentinel`, `Fetched`, `Trimmed` and `LastOf` are the lines of the service.
*Abstractions.*  An id is a number and UUIDs compare like numbers.  A cursor is a key or
none: encoding and decoding lose nothing of a `timestamptz`.  Two rows have two ids, and no
code changes a key or deletes a product.  The code inserts no product either; the seeds do,
with any `created_at`.

### Accounts

*State.*  The rows of `users` and, as far as reads of orders matter, of `orders`; per browser
the token in its cookie; per request what it asked for (`call`), the token it carried
(`bearer`), its `status` and the account its answer is about (`subject`); `pending` are the
answers with a `Set-Cookie` that have not arrived.

| Code | Actions |
|---|---|
| `handlers/auth.go` 49-69, `auth/service.go` 38-65, `auth/repo.go` 28-43 | `SignupCreates`, `SignupConflict`, `SignupRefused`, `SignupFails`, `Malformed` |
| 71-90, `auth/service.go` 67-84 | `LoginAccepted`, `LoginRejected`, `LoginFails` |
| 92-95 | `Logout` |
| the cookie in the browser | `Send`, `Receive`, `Lose` |
| `middleware/auth.go`, `token.go` | `Verified`, `Uid`, `Unauthorized`, `Expire` |
| `me.go`, `orders.go`, `checkout.go` | `Me`, `MeFails`; `ReadOrder`, `ReadMasked`, `ReadInvalid`, `ReadFails`; `CheckoutPlaces`, `CheckoutFails`, `CheckoutUnconfirmed` |

*Abstractions.*  A token is named by the request it was issued to and is valid until it
expires (or the secret changes); it cannot be made up.  A hash matches its own password
only.  An order is its key: `PlaceOrder` returns the order of the key whoever asks (line 80).

### Process

*State.*  Which of the five binaries it is and its `DATABASE_MAX_CONNS`; its phase, from
"starting" with the steps of its `main()` to "exited" with a code; whether it was told to
stop, its listener broke, its five seconds are over; for each request in flight where it
stands (`request`, `left`, `slow`), who holds a connection (`held`) and who waits (`queue`).

*Actions.*  `StartStep`, `StartFails`, `Started` for what comes before serving; `Accept`,
`Want`, `Acquire`, `SectionEnds`, `Finish`, `GivesUp`, `Cancelled`, `Panic` for requests
(a run of the worker is one, and there is one at a time); `Signal`, `SignalKills`,
`ServeFails`, `TakeServeError`, `TakeDone`, `Timeout`, `Drained`, `ForceStop`,
`ShutdownOverruns`, `PoolClosed` for the end.  The three services share one shutdown; the
gateway's is in `server.go`.

*Abstractions.*  What a request does is a number of sections, each with one connection,
and calls between them: no code in this repository asks for a connection while it holds
one.  The pool is pgx's: a limit and a queue, first come first served.  `StartFails` stands
for every `log.Fatalf` before serving.

### Storefront

*State.*  The carts of module `Cart`; the `session` of the browser; what the page shows
(`view`, from `useOptimistic`), what the server rendered last (`fresh`), the actions that
were clicked and not settled (`todo`) with their calls, and the calls of the one that runs.
`doubt` is history: the products of which the page cannot know the quantity, because an
action failed, somebody else wrote, or the session changed.

| Code | Actions |
|---|---|
| `context.tsx` 95-125, the reducer | `Add`, `Minus`, `Trash` |
| `actions.ts` | `CallsOf`, `Shrink`, `CallMade`, `ActionSucceeds`, `ActionFails` |
| `layout.tsx`, `revalidatePath` | `ActionSucceeds`, `RenderedEmpty`, `Loaded`, `LoadedEmpty` |
| others | `Elsewhere`, `Switch` |

*Abstractions.*  Next.js runs the server actions of a page one after the other and React
keeps the optimistic view until the last of them is done; both are external.  A server action
takes the cookie of the moment it is sent for all its calls.  Names and prices of lines are
left out.

## 3. The runs

| Run | Instance | Question |
|---|---|---|
| `contention` | 3 requests, 2 keys, 2 products with one unit each, wanted in opposite orders; 1 worker; no faults | do units leak, is too much sold, do holds survive an error, and when is a payment lost? |
| `retries` | one key, 2 requests, a cart that may change in between; faults, crashes, payment timeouts | are orders, rows, events and answers consistent? |
| `transitions` | 2 of 3 calls (2 purchases, a direct reservation), 2 workers, faults | are the life cycle and the ledger kept step by step? |
| `progress` | 9 calls, valid or not, a missing, a free and a foreign-currency product; faults; fairness | does everything end? |
| `checkout` | one user and key, 2 requests, 2 edits of every operation, 2 products and one that does not exist; faults | are carts orderable, statuses true, and is the gateway a client of the order service? |
| `checkout_progress` | one user, 2 keys, 2 requests, 1 edit, 1 worker; faults; fairness | is every checkout answered? |
| `catalog` | 4 ids, 3 timestamps, page sizes -1, 0, 1, 2 and 5 with a default of 2 and a cap of 3; fairness | does a walk miss, repeat or not end? |
| `accounts` | 4 requests out of 13, 2 browsers, an address in two spellings and another one, faults | who is whom, and who sees what? |
| `process` | each binary, 2 requests of up to 2 sections, a pool of 2, of one, or refused; fairness | does it start, serve and stop as it should? |
| `storefront` | 1 page with 3 clicks under way, 1 product of up to 3 units, 2 users, faults; fairness | does the page show what becomes of the cart? |
| `v_payment_lost`, `v_oversold` | two requests | each finds the violation described in section 7 |

*Bounds.*  Requests are a finite set, so nothing has to be cut off: each run explores
every interleaving of its requests to the end.  Two requests are the least at which the
races of this code happen (a retry against its original, two customers); `contention`
takes three so that a retry and a stranger meet.  Two products give a checkout that
fails after its first line.  One unit per product makes every decrement contended, two
units give a partial one.  A batch of one row (`BatchSize`) keeps the list of a worker
short of what is expired.  Requests are symmetric and the passing runs without liveness
use that.  In the checkout runs `MaxQuantity` is 2, so that adding one to a full line
overflows, and two edits allow an add before a checkout and any operation during it; the
calls that may reach the order service are all carts there can be, which the assumption
`CartsAreCalls` checks.

In `catalog` four rows are one more than the longest page, so that a walk has two pages of
any size, a row can come above, between and below, and three timestamps give ties, a row in
the future within the hour and one beyond it.  In `accounts` four requests make every
chain of this code: two signups that race, a login after either, and a read with the cookie
of a session that another answer replaced; they are interchangeable and TLC uses that.
In `process` a pool of one with two requests has one waiting, and the pool of one comes
from a setting that wraps around in `int32(n)`: `MaxInt32` is 7 there and 17 becomes 1.  In
`storefront` three clicks (`Pending`) leave one in front of and one behind a shrinking
click, which needs a line of two; a click may show one unit more than `MaxQuantity`, which is
the bound on the view.  One product is enough: an action is about one line, and that the
others stay as they are is part of the proof of `OptimismConfirmed`.

*Fairness* (`progress` and `checkout_progress`).  Weak fairness of each handler, because the Go scheduler
runs every goroutine and every database or provider call returns, with an error if need
be; of `Expire`, because time passes; of `ListExpired`, because the ticker fires.
Strong fairness of `ReleaseExpired` for each row: a release that is retried again and
again succeeds at last.  `cleanup.go` calls these errors transient; were they permanent,
a hundred failing rows would fill every batch and starve the others.  Faults are never
fair, and nothing obliges a client to send a request.  `checkout_progress` needs only weak
fairness of the handlers of both services: no answer waits for the worker or a client.

In `catalog` the client goes on asking, and a read succeeds at last.  In `process` the
program runs and its timers fire; a statement returns and the pool serves its queue; a call
returns unless it is one of the `slow` ones, which `EndsWhenToldTo` puts up with.  `TakeDone`
is strongly fair because of the worker, whose `select` picks at random among the tick and the
signal; in the others it stays enabled.  In `storefront` the calls of an action return; `accounts` promises no progress.

Deadlock checking is off in `v_payment_lost` and `checkout`, which have no worker and come
to rest once every request is answered, in `accounts` for the same reason, and in
`process`, which ends.  In the others something is always possible.

## 4. The properties

| Property | What would break it |
|---|---|
| `StockConserved` | a decrement without its row, a release that restores twice or never, a conflict that keeps the decrement |
| `SoldWithinStock` | order lines whose units no row holds, a decrement below zero |
| `AbortedHoldsNothing` | an exit of the item loop that forgets `releaseAll` |
| `TimelyPaymentLands` | a worker that releases a row that has not expired, under a paid request |
| `LostPaymentExplained` | a finalize transaction that fails for another reason than a released line |
| `OrderBacked`, `OneEventPerOrder` | a finalize transaction that is not atomic, a missing unique key |
| `PaidOrder`, `OutcomeTruthful` | an error dropped between charge, finalize and answer |
| `TerminalStatus` | a worker that releases a row consumed since it listed it |
| `NoForeignRelease` | a worker or a request that releases someone else's hold in time |
| `RefinesLedger` | any of these, and a counter that admits more than the rows allow |
| `EveryCallAnswered`, `EveryHoldResolved` | a loop that gets stuck, a kind of row the worker misses |
| `CheckoutTypeOK` | a sum of quantities that leaves INTEGER |
| `CartIsOrderable` | two rows for one product, a quantity or product PlaceOrder refuses, an empty cart that is not noticed |
| `StatusTruthful` | an error that still answers 201, a refusal after a charge, a 409 after a charge although every line is still held |
| `CartKeptForRetry` | clearing before the order exists, clearing on an error, clearing someone else's cart |
| `EveryCheckoutAnswered` | an error code or a lost call without an answer |
| `ImplementsOrderService` | a call of the gateway that the order service was not checked for |
| `WalkComplete` | fetching no row more than the page, a strict comparison on the timestamp alone, a start that skips rows |
| `PagesGoDown`, `WalkEnds` | a cursor that is not the last row, a comparison that is not strict |
| `OneAccountPerEmail`, `AccountUsable` | an address that is normalised in one place and not in another, a conflict that is dropped |
| `SessionIsEarned`, `ServedToOwner` | a session without a password, an order read by its id alone |
| `CleanStop` | an exit before the requests are done, an error of the shutdown that is dropped |
| `EndsWhenToldTo`, `EveryRequestEnds` | a stop that waits for calls that hang, a request that holds one connection and waits for another |
| `OptimismConfirmed` | a shrinking click whose second call adds a difference to nothing |
| `FailureIsContained` | a click that adds or removes by more than one call |
| `ClicksAreSettled` | a failed action that stays the first of the list and holds up those behind it |

The type invariants `CatalogTypeOK`, `AccountsTypeOK`, `ProcessTypeOK` and `StorefrontTypeOK`
carry the bounds that matter: the cap of a page, a session about an account that exists, no more
connections than the pool has, no line twice.

`FailureIsContained` is the atomicity contract of `actions.ts` 52-60, which accepts that
shrinking a line may end with the line cleared: it says that this is all that can go wrong,
in that case only, while `OptimismConfirmed` exempts the lines of failed actions.
`ClicksAreSettled` is about the list and not about the running action: that an action stops
running does not yet mean that the next one has its turn.

`TimelyPaymentLands` and `LostPaymentExplained` are what is true in place of "no payment
is ever lost": a payment is lost exactly when a line is released between charge and
finalize, and for a key used once that takes an expiry.

## 5. What is proved

For every set of requests, keys, calls, products, stock, workers and provider answers,
with or without faults (`OrderServiceProofs`):

| Theorem | Statement |
|---|---|
| `TypeCorrect` | `Spec => []TypeOK`; `available` in `Nat` is the database's `CHECK (inventory_available >= 0)`, which therefore never fires |
| `StockIsConserved` | `Spec => []StockConserved` |
| `TerminalIsFinal` | `Spec => TerminalStatus` |
| `OrdersAreBacked` | `Spec => []OrderBacked` |
| `OrdersAreAnnounced` | `Spec => []OneEventPerOrder` |
| `ImplementsLedger` | `Spec => RefinesLedger` |
| `OrdersArePaid` | `Spec => []PaidOrder` |

and about single requests (`OutcomeProofs`):

| Theorem | Statement |
|---|---|
| `OutcomesAreTruthful` | `Spec => []OutcomeTruthful` |
| `HoldsAreRespected` | `Spec => NoForeignRelease` |
| `TimelyPaymentsLand` | `Spec => []TimelyPaymentLands` |
| `AbortsHoldNothing` | without faults, `Spec => []AbortedHoldsNothing` |
| `LostPaymentsAreExplained` | without faults, `Spec => []LostPaymentExplained` |
| `NothingIsOversold` | if `OneQuantityPerKey`, `Spec => []SoldWithinStock` |

`AbortsHoldNothing` and `LostPaymentsAreExplained` assume `~Faults` because they are about
a system in which no statement fails: `releaseAll` logs a release that fails and goes on,
and the row is left to the worker.  Their run has no faults either.

`NothingIsOversold` assumes that a key that is sent again asks for the same quantity of a
product as before.  The code does not see to that, and without it the property fails
(`v_oversold`, section 7): the theorem says that this is the only way to sell more than
there is.  The calls of `contention` are such.

For every set of users, edits and owners of keys besides (`CheckoutProofs`, `ShopProofs`):

| Theorem | Statement |
|---|---|
| `CheckoutImplementsOrderService` | `CheckoutSpec => ImplementsOrderService` |
| `ShopConservesStock` | `CheckoutSpec => []StockConserved` |
| `CartsAreOrderable` | `CheckoutSpec => []CartIsOrderable` |
| `CheckoutIsTyped` | `CheckoutSpec => []CheckoutTypeOK` |
| `StatusesAreTruthful` | `CheckoutSpec => []StatusTruthful` |
| `CartsAreKeptForRetry` | `CheckoutSpec => CartKeptForRetry` |

For every set of ids, times, page sizes and limits (`CatalogProofs`):

| Theorem | Statement |
|---|---|
| `CatalogTypeCorrect` | `Spec => []CatalogTypeOK` |
| `WalksAreComplete` | `Spec => []WalkComplete` |
| `PagesDescend` | `Spec => []PagesGoDown` |

For every set of requests, browsers, addresses, passwords and orders (`AccountsProofs`):

| Theorem | Statement |
|---|---|
| `AccountsTypeCorrect` | `Spec => []AccountsTypeOK` |
| `AddressesAreUnique` | `Spec => []OneAccountPerEmail` |
| `SessionsAreEarned` | `Spec => []SessionIsEarned` |
| `OwnersOnly` | `Spec => []ServedToOwner` |
| `AccountsAreUsable` | `Spec => AccountUsable` |

For every binary, setting, number of requests and of sections (`ProcessProofs`):

| Theorem | Statement |
|---|---|
| `ProcessIsTyped` | `Spec => []ProcessTypeOK`, which bounds the connections in use by the pool |
| `StopsAreClean` | `Spec => []CleanStop` |

For every set of users and products, any largest quantity and any number of waiting
actions (`StorefrontProofs`):

| Theorem | Statement |
|---|---|
| `StorefrontIsTyped` | `Spec => []StorefrontTypeOK` |
| `OptimismIsConfirmed` | `Spec => OptimismConfirmed` |
| `FailuresAreContained` | `Spec => FailureIsContained` |

*Assumptions*: those on the constants in `OrderService` (`KeysAssumption`,
`CallsAssumption`, `ProductsAssumption`, `SettingsAssumption`) and in `Checkout`
(`OwnerAssumption`, `EditsAssumption`, `CartsAreCalls`); TLC evaluates them in
every run.  They say no more than that calls are well typed, that a direct
reservation has one item, that the two kinds of keys differ, that an edit's quantity is
an int32, and that every list of distinct products with quantities in range is among the
calls the order service is specified for.

*The argument.*  None of the properties is inductive alone.  `Inv` adds to `TypeOK` what
the local variables say at each statement (`HandlerInv`: a handler in the loop has items
left, one at the charge has a line for each item, one in `releaseAll` has a line left)
and that a row that exists holds at least one unit (`RowInv`).  `NextIsTableStep` then
shows that under `Inv` each action does one of five things to the tables:
take stock for a new row, release a row, consume the rows of one purchase, mark a row
expired, or nothing.  The remaining proofs are about these five steps and not about the
program.  `StockInv` counts units as a set with one element per unit, so that a step
adds or removes one disjoint set (`DisjointUnionSize`, `RowTakesUnits`,
`RowGivesUnits`).  `ImplementsLedger` maps the five steps to `Reserve`, `Release`,
`Purchase` and stuttering; it needs `StockInv` to turn the guard on the counter into the
ledger's guard on the rows.  `OrdersArePaid` adds that a handler at the finalize step has
been charged (`ChargeComesFirst`).

The checkout's proofs rest on `CartInv`: the lines of a cart name distinct products.
`HandleKeepsCarts` shows it for every operation; it is why a cart has no more lines than
there are products (a pigeonhole argument, `CartIsCall`) and is a call the order service
is specified for.  With it every step of the shop is a step of the order service or leaves
its variables alone, so every theorem about `Spec` holds of the shop: `ShopConservesStock`
is one line.  `CartsAreOrderable` needs `CartInv` and the order service's `Inv` together: a handler
started with a cart whose products exist, and its loop stays within that cart's items.

The catalog's proofs rest on the invariant `Frontier`: while a walk goes on, every row of
`start` has been returned or is below the row the next page starts from, and everything
returned is at that row or above it.  The first `n` rows of a set are above the rest of it
(`PageIsOnTop`) and `Above` is transitive (`AboveTransitive`); that carries the frontier from
one page to the next, and on the last page nothing is below it.  A clock that moves on only
moves the start ahead (`FromIsAhead`).  Inserts do not touch it: `start` is fixed, and a
row that comes later may be returned or not.  The assumption (`CatalogAssumption`) is that
no id is above `MaxId` and the cap is at least the default.

The accounts' proofs rest on `IInv`: a row of `users` is what a signup sent, and no two have
one address (`RowsOfSignups`); a signup or login that was admitted is of the account with its
address and password (`AdmittedByCredentials`); and a token, in a cookie, in a request or on
its way, is one that such an answer gave to this browser (`TokensStay`).  The nineteen handlers
have one shape in common (`Handled`: one request is answered, at most one row is added), so
that the invariant is shown for that shape once.
(`AccountsAssumption`: normalising twice is normalising once, and `None` is no request.)

`OutcomeProofs` looks at one request instead of the tables.  `NextMoves` shows that each
step of the system, whoever takes it, does one of a dozen things to a request (`Move`: it
arrives, gets a line, pays, answers, lets a line go, is stopped ...), and the invariants are
shown for these.  `HandInv`: every line a handler has in hand is a row, and rows are never
deleted.  `AnswerInv` adds to `OutcomeTruthful` that an answer is about a key of the right
kind.  `HoldsAreRespected` rests on `BatchInv`: what a worker has listed was expired and is
still.  For `TimelyPaymentsLand` two more facts meet: a row released in time was released
by a request with a line for it that has given up (`ReleasedInv`), and an order of the key
has the owner's request behind it (`OrderOwner`); a key that nobody shares leaves neither.
Without faults, `AbortInv` follows the loop of `releaseAll`: a handler that gives up has
released every line it has been through, and lines stay released.  `EndInv` says where a
charged request can end, so that the only ways to lose a payment are the two that are a
lost line.  `NothingIsOversold` compares what orders promise with what rows hold:
by `CallsInv` both are what a call with the key asked for, so under one quantity per key
the units sold are an injective image within the units held (`LineHasRow`), which
`StockInv` counts.

`ShopProofs` does the same with a checkout (`CheckoutMoves`): it rests, refuses, begins, is
answered with the order or with an error.  `StatusInv` relates each stage of the handler to
the request behind it, on top of `AnswerInv` and `EndInv`, which the refinement carries over
to the shop (`ServiceInvariants`).

The process's proofs rest on `ProcessInv`.  `RequestInv`: the connections in use are those of
the requests that hold one, and the queue is who waits, once each, so that leaving it
anywhere takes out nobody else (`TakenOut`).  `PoolInv`: the pool is the third step of every
`main()`, so a process that serves has one, and is never over its size.  `StopInv`: it drains
only when told to, and closes with requests in flight only as a service whose time is over.

The storefront's proof is about the chain of waiting actions.  `ChainInv`: for each line that
is not in doubt there are quantities `f[0] .. f[n]`, from what the server last rendered to what
the page shows, such that each waiting action of the line was made to take one to the next
and the others leave it alone, and the cart is where the running action has got to: before
its first call, between the two calls of a shrinking one, or after the last (`Underway`).  A
click adds a step at the end, the end of an action drops the first, a call moves on within
it (`CallTakesFurther`), and another page changes one line, which is then in doubt.  When the
last action ends, the chain is one step long and its end is view, cart and rendering at once.
When the running action has failed, the cart is where `Contained` says: at either end of the
first step, or without the line if the step leads down; with `GoalOfCalls` that is
`FailureIsContained`.
What each operation does to the list of lines are lemmas about lists (`AppendChanges`,
`QuantityChanges`, `WithoutChanges`).  (`StorefrontAssumption`: `"nobody"` is no user.
`ProcessAssumption`: settings are integers, unset or no number, and the default pool size
fits an int32.)

*Only model-checked*: liveness, which is out of the prover's reach: `EveryCallAnswered`,
`EveryHoldResolved`, `EveryCheckoutAnswered`, `WalkEnds`, `EndsWhenToldTo`, `EveryRequestEnds`
and `ClicksAreSettled`.  Every invariant and action property of a passing run is a theorem.

## 6. Plan

In this order; each module gets its MC module, runs and mutants.

1. `OrderService`, its ledger and its proofs (done).
2. `Cart`: transactions over `carts` and `cart_items` (done, checked under `Checkout`).
3. `Checkout`: the gateway's handler over `OrderService` and the cart, and its refinement
   of `OrderService` (done).
4. `Catalog`: keyset pages against concurrent inserts with equal timestamps, and its proofs
   (done).
5. `Accounts`: signup races, sessions, reads of orders, and its proofs (done).
6. `Process`: start-up, the pool and the shutdown of a process (done).
7. `Storefront`: the optimistic cart and delete-then-post over `Cart` (done).
8. Proofs of the safety properties that were only checked: what becomes of a request, the
   gateway's handler, the process and the storefront (done).
9. Still open: a property for the hazards that have none (see `PROJECT.json`), first of all two
   checkouts of one user under two keys.

The runs of section 3 take some minutes together; a later component takes over the run
of a claim that has become prose rather than adding to them.

## 7. Where documents and code disagree

Checked by a run:

* `v_payment_lost`: "no payment is ever lost" (`docs/system-design.md`).  A second
  attempt with the same key and a cart that has since grown is turned away for lack of
  stock and releases the line it shares with the first, which has been charged and not
  finalized.
* `v_oversold`: "no item is oversold".  The second attempt asks for more units than the
  reservation it gets back from the first one holds.  `NothingIsOversold` proves that no
  item is oversold otherwise.

Seen in the models, without a run of their own:

* ADR 009 defines `available = total - active` and says that its reconciliation query
  returns no rows.  Consumed reservations stay decremented and `inventory_total` does not
  change, so one purchase is reported as drift; `StockConserved` is the formula the code
  keeps.
* "A retried request with the same key returns the original order" (ADR 003).  A duplicate
  that looked the key up before the order was committed ends in an error.
* "No payment is ever lost or made twice" (`docs/system-design.md`).  Two pages of one user
  have a key each; both read the cart before one of them clears it, and what was put into
  the cart once is ordered and paid twice.
* "Cart is saved until the auth session is expired" (`docs/system-requirements.md`).
  `ClearCart` after a checkout also removes what was added to the cart since it was read.
* A checkout with the key of somebody else's order is answered with that order (201), and
  clears the cart of the one who asked: `PlaceOrder` looks the key up without the user
  (`place_order.go` 80), and a page that was open when another user logged in keeps its key.
  `ServedToOwner` leaves the answer of a checkout out, and `Owner` in `Checkout` assumes
  that a key is used by one user.
* `auth/domain.go` 11 has handlers "treat anything else as a 500-class internal error"; a
  database failure answers 400 to a signup, 401 to a login and 404 to `/me`.
* A service that was forced to stop logs that it "stopped cleanly" and exits with 0.  The
  gateway exits with 1 in that case, by `log.Fatalf`, without closing its pool, while
  `docs/issues/postgres-conn-leaks.md` counts on the deferred `pool.Close()` of every `main`.
* `docs/issues/pgx-pool-defaults.md` shows a fallback to 25 connections; a
  `DATABASE_MAX_CONNS` that is no positive number leaves the size 0, and the pool is refused.
  One that does not fit an int32 wraps around.
* `products.sql` 10 describes the start of a listing as a day ahead with the nil id; the code
  takes an hour ahead and the largest id.  Products dated later than that are not listed.
* `actions.ts` 56 says that no route sets a quantity; `router.go` 44 has one.
* A page that was open when another user logged in edits that user's cart; a cart that cannot
  be read is shown as empty (`layout.tsx` 31).

Read in the code: callers "must NOT release the reservation"
on `ErrInvalidRequest` (`payment/client.go` 24), and `PlaceOrder` releases on every charge
error; `repo/reservations.go` 45 calls
insufficient stock the only way to get no row, but a conflicting key with no stock
left gives the same; `domain/errors.go` 22 says that a declined payment's reservation
has been released, but `releaseAll` ignores errors; a payment timeout releases although
the design asks for certainty first (the fake never produces one); the comment on
`Checkout` names `GET /orders` as the way to recover a lost response, and the router
has no such route; `server.go` 39 returns "the first error encountered", but with a signal
and a broken listener at once the `select` takes either; a logout leaves the token valid, and
a login answer that arrives after it opens the session again.

## 8. What is not modelled

Observability, money formatting, request ids, the health check, pages other than the cart,
migrations and load tests keep no protocol state and are left out; telemetry appears as one
step of a start that may fail.  The checkout form of the frontend is its one key per page.
The cache that ADR 006 plans for the catalog does not exist in the code, and the fetch cache
of the frontend is not looked at.  The outbox has no reader in the code.  Hashing, signing and
cookies' attributes are taken for what they promise.
The deferred calls of a `main()` besides `pool.Close` (flushing telemetry with
`context.Background()`, closing clients) are one step with it and taken to return: a
telemetry shutdown that hangs is left out.  So is the request from the browser to Next that
is lost on its way: the promise of the server action is rejected then, and `context.tsx` 95-124
does not catch it.  A protected route checks the token when the request comes in
(`middleware/auth.go` 36); `Accounts` takes a request that is served for one whose token is
still good when it is answered.  The payment provider is its contract in
`payment/client.go`; whether it deduplicates by idempotency key is its own business and not
assumed.
