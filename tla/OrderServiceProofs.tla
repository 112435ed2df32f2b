------------------------- MODULE OrderServiceProofs -------------------------
(***************************************************************************)
(* Theorems about OrderService, for every value of its constants.          *)
(***************************************************************************)
EXTENDS OrderServiceProperties, FiniteSetTheorems, TLAPS

\* The inductive invariant under every theorem of this module.
Inv == TypeOK /\ HandlerInv /\ RowInv
-----------------------------------------------------------------------------
(* Facts about keys and calls.                                             *)

\* A call in Calls names a key of one of the two kinds and a list of items.
LEMMA CallShape ==
    ASSUME NEW c \in Calls
    PROVE  /\ c.key \in Keys \cup DirectKeys
           /\ c.items \in Seq(Item)
           /\ c.key \in DirectKeys => Len(c.items) = 1
BY CallsAssumption

\* While a handler runs and items are left, the next item is well formed, holds
\* a positive quantity, and has its row among ResKeys.
LEMMA NextItemShape ==
    ASSUME Inv, NEW r \in Requests,
           pc[r] \in {"price", "check", "insert", "refetch"}
    PROVE  /\ NextItem(r) \in Item
           /\ NextItem(r).product \in Products
           /\ NextItem(r).quantity \in Nat \ {0}
           /\ NextKey(r) \in ResKeys
<1>1. /\ call[r] \in Calls
      /\ Valid(ItemsOf(r))
      /\ reserved[r] \in Nat /\ reserved[r] < Len(ItemsOf(r))
  BY DEF Inv, HandlerInv, TypeOK
<1>2. ItemsOf(r) \in Seq(Item) /\ KeyOf(r) \in Keys \cup DirectKeys
  BY <1>1, CallShape DEF ItemsOf, KeyOf
<1>3. /\ reserved[r] + 1 \in DOMAIN ItemsOf(r)
      /\ NextItem(r) \in Item
  BY <1>1, <1>2 DEF NextItem
<1>4. NextItem(r).product \in Products /\ NextItem(r).quantity \in Int
  BY <1>3 DEF Item
<1>5. NextItem(r).quantity >= 1
  BY <1>1, <1>3 DEF Valid, NextItem
<1>6. NextKey(r) \in ResKeys
  BY <1>2, <1>4 DEF NextKey, ResKey, ResKeys
<1>. QED BY <1>3, <1>4, <1>5, <1>6

\* The rows of a handler's lines are rows of PlaceOrder.
LEMMA LineKeyShape ==
    ASSUME Inv, NEW r \in Requests, NEW i \in 1 .. reserved[r]
    PROVE  /\ KeyOf(r) \in Keys
           /\ ItemsOf(r) \in Seq(Item)
           /\ i \in DOMAIN ItemsOf(r)
           /\ ItemsOf(r)[i].product \in Products
           /\ LineKey(r, i) = <<KeyOf(r), ItemsOf(r)[i].product>>
           /\ LineKey(r, i) \in ResKeys
<1>1. /\ reserved[r] \in Nat /\ reserved[r] > 0
      /\ reserved[r] <= Len(ItemsOf(r))
      /\ KeyOf(r) \in Keys
      /\ pc[r] # "idle"
  BY DEF Inv, HandlerInv, TypeOK
<1>2. ItemsOf(r) \in Seq(Item)
  BY <1>1, CallShape DEF Inv, HandlerInv, ItemsOf
<1>3. i \in DOMAIN ItemsOf(r)
  BY <1>1, <1>2
<1>4. ItemsOf(r)[i].product \in Products
  <2>1. ItemsOf(r)[i] \in Item
    BY <1>2, <1>3
  <2>. QED BY <2>1 DEF Item
<1>5. KeyOf(r) \notin DirectKeys
  BY <1>1, KeysAssumption
<1>. QED BY <1>1, <1>2, <1>3, <1>4, <1>5 DEF LineKey, ResKey, ResKeys
-----------------------------------------------------------------------------
(* The steps of the tables.                                                *)

\* What a step of the system may do to the tables: insert a row and take its
\* stock, release a row, commit an order, let a row expire, or nothing.
TakeStep == \E it \in Item, k \in ResKeys :
                /\ it.product \in Products /\ it.quantity \in Nat \ {0}
                /\ InStock(it)
                /\ TakeStock(it, k)
                /\ UNCHANGED <<orders, outbox>>
ReleaseStep == \E k \in ResKeys : Release(k) /\ UNCHANGED <<orders, outbox>>
CommitStep  == \E r \in Requests : pc[r] = "finalize" /\ Commit(r)
ExpireStep  == \E k \in ResKeys :
                /\ IsActive(k)
                /\ rows' = [rows EXCEPT ![k].expired = TRUE]
                /\ UNCHANGED <<available, orders, outbox>>
TableStep   == TakeStep \/ ReleaseStep \/ CommitStep \/ ExpireStep \/ UNCHANGED tables

\* Every step of the system is one of these steps of the tables.
LEMMA NextIsTableStep == Inv /\ [Next]_vars => TableStep
<1>. SUFFICES ASSUME Inv, [Next]_vars PROVE TableStep
  OBVIOUS
<1>1. ASSUME NEW r \in Requests, Arrival(r) PROVE TableStep
  BY <1>1 DEF Arrival, Start, Reject, TableStep
<1>2. ASSUME NEW r \in Requests, Reserve(r) \/ ReserveUnconfirmed(r) PROVE TableStep
  <2>1. pc[r] = "insert" /\ InStock(NextItem(r)) /\ TakeStock(NextItem(r), NextKey(r))
        /\ UNCHANGED <<orders, outbox>>
    BY <1>2 DEF Reserve, ReserveUnconfirmed
  <2>. QED BY <2>1, NextItemShape DEF TableStep, TakeStep
<1>3. ASSUME NEW r \in Requests, ReleaseLine(r) PROVE TableStep
  <2>1. pc[r] = "release" /\ Release(LineKey(r, undone[r] + 1)) /\ UNCHANGED <<orders, outbox>>
    BY <1>3 DEF ReleaseLine
  <2>2. undone[r] + 1 \in 1 .. reserved[r]
    BY <2>1 DEF Inv, HandlerInv, TypeOK
  <2>. QED BY <2>1, <2>2, LineKeyShape DEF TableStep, ReleaseStep
<1>4. ASSUME NEW r \in Requests, Finalize(r) \/ FinalizeUnconfirmed(r) PROVE TableStep
  BY <1>4 DEF Finalize, FinalizeUnconfirmed, TableStep, CommitStep
<1>5. ASSUME NEW r \in Requests, HandlerStep(r), ~Reserve(r), ~ReleaseLine(r), ~Finalize(r)
      PROVE  UNCHANGED tables
  BY <1>5 DEF HandlerStep, Replay, LookupMiss, PriceFound, PriceMissing, MixedCurrency,
       CheckFindsRow, CheckFindsNoProduct, CheckPasses, OutOfStock, ReserveConflict,
       Refetch, RefetchNotActive, ChargeAccepted, ChargeDeclined, ChargeTimesOut,
       ChargeInvalid, FinalizeLinesLost, FinalizeDuplicate
<1>6. ASSUME NEW r \in Requests, HandlerFault(r), ~ReserveUnconfirmed(r), ~FinalizeUnconfirmed(r)
      PROVE  UNCHANGED tables
  BY <1>6 DEF HandlerFault, StatementFails, FinalizeFails, ReleaseLineFails
<1>7. ASSUME NEW k \in ResKeys, Expire(k) PROVE TableStep
  BY <1>7 DEF Expire, TableStep, ExpireStep
<1>8. ASSUME NEW w \in Workers, WorkerStep(w) PROVE TableStep
  BY <1>8 DEF WorkerStep, ListExpired, ReleaseExpired, TableStep, ReleaseStep
<1>9. ASSUME NEW w \in Workers, WorkerFault(w) PROVE UNCHANGED tables
  BY <1>9 DEF WorkerFault, ReleaseExpiredFails, WorkerRestart
<1>10. ASSUME Crash PROVE UNCHANGED tables
  BY <1>10 DEF Crash
<1>11. ASSUME UNCHANGED vars PROVE UNCHANGED tables
  BY <1>11 DEF vars
<1>. QED
  BY <1>1, <1>2, <1>3, <1>4, <1>5, <1>6, <1>7, <1>8, <1>9, <1>10, <1>11 DEF Next, ServiceStep, TableStep
-----------------------------------------------------------------------------
(* Type correctness and the local variables of the handlers.               *)

TablesTyped ==
    /\ available \in [Products -> Nat]
    /\ rows \in [ResKeys -> Row]
    /\ orders \in [Keys -> Order \cup {NoOrder}]
    /\ outbox \subseteq Event

LocalsTyped ==
    /\ pc \in [Requests -> Labels]
    /\ call \in [Requests -> Calls \cup {NoCall}]
    /\ reserved \in [Requests -> Nat]
    /\ undone \in [Requests -> Nat]
    /\ outcome \in [Requests -> Outcomes]

\* The steps of the tables keep their types and the shape of the rows.
LEMMA TablesStayTyped == Inv /\ TableStep => TablesTyped' /\ RowInv'
<1>. SUFFICES ASSUME Inv, TableStep PROVE TablesTyped' /\ RowInv'
  OBVIOUS
<1>0. TablesTyped /\ RowInv
  BY DEF Inv, TypeOK, TablesTyped
<1>1. CASE TakeStep
  <2>1. PICK it \in Item, k \in ResKeys :
           /\ it.product \in Products /\ it.quantity \in Nat \ {0}
           /\ available[it.product] >= it.quantity
           /\ available' = [available EXCEPT ![it.product] = @ - it.quantity]
           /\ rows' = [rows EXCEPT ![k] = ActiveRow(it)]
           /\ UNCHANGED <<orders, outbox>>
    BY <1>1 DEF TakeStep, InStock, TakeStock
  <2>2. available' \in [Products -> Nat]
    BY <1>0, <2>1 DEF TablesTyped
  <2>3. ActiveRow(it) \in Row
    BY <2>1 DEF ActiveRow, Row, Statuses
  <2>4. rows' \in [ResKeys -> Row]
    BY <1>0, <2>1, <2>3 DEF TablesTyped
  <2>5. RowInv'
    BY <1>0, <2>1, <2>3 DEF TablesTyped, RowInv, ActiveRow
  <2>. QED BY <1>0, <2>1, <2>2, <2>4, <2>5 DEF TablesTyped
<1>2. CASE ReleaseStep
  <2>1. PICK k \in ResKeys : Release(k) /\ UNCHANGED <<orders, outbox>>
    BY <1>2 DEF ReleaseStep
  <2>2. CASE UNCHANGED <<rows, available>>
    BY <1>0, <2>1, <2>2 DEF TablesTyped, RowInv
  <2>3. CASE /\ IsActive(k)
             /\ rows' = [rows EXCEPT ![k].status = "released"]
             /\ available' = Restock(k)
    <3>1. rows[k] \in Row /\ rows[k].product \in Products /\ rows[k].quantity \in Nat \ {0}
      BY <1>0, <2>3 DEF TablesTyped, RowInv, IsActive, NoRow
    <3>2. available' \in [Products -> Nat]
      BY <1>0, <2>3, <3>1 DEF TablesTyped, Restock
    <3>3. rows' \in [ResKeys -> Row]
      BY <1>0, <2>3 DEF TablesTyped, Row, Statuses
    <3>4. RowInv'
      BY <1>0, <2>3, <3>1 DEF TablesTyped, RowInv, Row
    <3>. QED BY <1>0, <2>1, <3>2, <3>3, <3>4 DEF TablesTyped
  <2>. QED BY <2>1, <2>2, <2>3 DEF Release
<1>3. CASE CommitStep
  <2>1. PICK r \in Requests : pc[r] = "finalize" /\ Commit(r)
    BY <1>3 DEF CommitStep
  <2>2. KeyOf(r) \in Keys /\ ItemsOf(r) \in Seq(Item)
    BY <2>1, CallShape DEF Inv, HandlerInv, KeyOf, ItemsOf
  <2>3. OrderOf(r) \in Order /\ EventOf(r) \in Event
    BY <2>2 DEF OrderOf, EventOf, Order, Event
  <2>4. orders' \in [Keys -> Order \cup {NoOrder}] /\ outbox' \subseteq Event
    BY <1>0, <2>1, <2>3 DEF TablesTyped, Commit
  <2>5. \A k \in ResKeys :
           \/ rows'[k] = rows[k]
           \/ IsActive(k) /\ rows'[k] = [rows[k] EXCEPT !.status = "consumed"]
    BY <2>1 DEF Commit, CanFinalize
  <2>6. rows' \in [ResKeys -> Row]
    BY <1>0, <2>1, <2>5 DEF TablesTyped, Commit, Row, Statuses
  <2>7. RowInv'
    <3>1. SUFFICES ASSUME NEW k \in ResKeys,
                          IsActive(k), rows'[k] = [rows[k] EXCEPT !.status = "consumed"]
                   PROVE  /\ rows'[k].status # "none"
                          /\ rows'[k].product \in Products
                          /\ rows'[k].quantity \in Nat \ {0}
      BY <1>0, <2>5 DEF RowInv
    <3>2. rows[k] \in Row /\ rows[k].product \in Products /\ rows[k].quantity \in Nat \ {0}
      BY <1>0, <3>1 DEF TablesTyped, RowInv, IsActive, NoRow
    <3>. QED BY <3>1, <3>2 DEF Row
  <2>. QED BY <1>0, <2>1, <2>4, <2>6, <2>7 DEF TablesTyped, Commit
<1>4. CASE ExpireStep
  <2>1. PICK k \in ResKeys : /\ IsActive(k)
                             /\ rows' = [rows EXCEPT ![k].expired = TRUE]
                             /\ UNCHANGED <<available, orders, outbox>>
    BY <1>4 DEF ExpireStep
  <2>2. rows[k] \in Row /\ rows[k].product \in Products /\ rows[k].quantity \in Nat \ {0}
    BY <1>0, <2>1 DEF TablesTyped, RowInv, IsActive, NoRow
  <2>3. rows' \in [ResKeys -> Row]
    BY <1>0, <2>1 DEF TablesTyped, Row
  <2>4. RowInv'
    BY <1>0, <2>1, <2>2 DEF TablesTyped, RowInv, Row, IsActive
  <2>. QED BY <1>0, <2>1, <2>3, <2>4 DEF TablesTyped
<1>5. CASE UNCHANGED tables
  BY <1>0, <1>5 DEF tables, TablesTyped, RowInv
<1>. QED BY <1>1, <1>2, <1>3, <1>4, <1>5 DEF TableStep

\* Returning, with or without releaseAll, keeps what the locals say.
LEMMA ReturnKeepsLocals ==
    ASSUME Inv, NEW r \in Requests, NEW result \in Outcomes,
           pc[r] # "idle", Return(r, result)
    PROVE  LocalsTyped' /\ HandlerInv'
BY DEF Inv, TypeOK, HandlerInv, LocalsTyped, Return, Labels, KeyOf, ItemsOf

\* Running releaseAll before the return keeps what the locals say.
LEMMA AbortKeepsLocals ==
    ASSUME Inv, NEW r \in Requests, NEW result \in Outcomes,
           pc[r] \notin {"idle", "release", "done"}, Abort(r, result)
    PROVE  LocalsTyped' /\ HandlerInv'
BY DEF Inv, TypeOK, HandlerInv, LocalsTyped, Abort, Labels, KeyOf, ItemsOf

\* Appending a line, or returning a direct reservation, keeps what the locals say.
LEMMA AppendLineKeepsLocals ==
    ASSUME Inv, NEW r \in Requests, pc[r] \in {"insert", "refetch"}, AppendLine(r)
    PROVE  LocalsTyped' /\ HandlerInv'
<1>1. CASE IsDirect(r) /\ Return(r, "reserved")
  BY <1>1, ReturnKeepsLocals DEF Outcomes
<1>2. CASE /\ ~IsDirect(r)
           /\ reserved' = [reserved EXCEPT ![r] = @ + 1]
           /\ pc' = [pc EXCEPT ![r] = IF reserved[r] + 1 = Len(ItemsOf(r))
                                      THEN "charge" ELSE "price"]
           /\ UNCHANGED <<call, undone, outcome>>
  <2>1. call[r] \in Calls /\ KeyOf(r) \in Keys /\ Len(ItemsOf(r)) \in Nat
    BY <1>2, CallShape DEF Inv, HandlerInv, IsDirect, KeyOf, ItemsOf
  <2>. QED BY <1>2, <2>1 DEF Inv, TypeOK, HandlerInv, LocalsTyped, Labels, KeyOf, ItemsOf
<1>. QED BY <1>1, <1>2 DEF AppendLine

\* Moving releaseAll on to its next line keeps what the locals say.
LEMMA NextLineKeepsLocals ==
    ASSUME Inv, NEW r \in Requests, pc[r] = "release", NextLine(r)
    PROVE  LocalsTyped' /\ HandlerInv'
BY DEF Inv, TypeOK, HandlerInv, LocalsTyped, NextLine, Labels, KeyOf, ItemsOf

\* Moving on between two statements keeps what the locals say.
LEMMA GoToKeepsLocals ==
    ASSUME Inv, NEW r \in Requests, NEW label, GoTo(r, label),
           \/ pc[r] = "lookup" /\ label = "price"
           \/ pc[r] = "price" /\ label = "check"
           \/ pc[r] = "check" /\ label \in {"insert", "refetch"}
           \/ pc[r] = "insert" /\ label = "refetch"
           \/ pc[r] = "charge" /\ label = "finalize"
    PROVE  LocalsTyped' /\ HandlerInv'
<1>1. Len(ItemsOf(r)) \in Nat \ {0}
  <2>1. call[r] \in Calls /\ Valid(ItemsOf(r))
    BY DEF Inv, HandlerInv
  <2>2. ItemsOf(r) \in Seq(Item) /\ ItemsOf(r) # <<>>
    BY <2>1, CallShape DEF ItemsOf, Valid
  <2>. QED BY <2>2
<1>. QED BY <1>1 DEF Inv, TypeOK, HandlerInv, LocalsTyped, GoTo, Labels, KeyOf, ItemsOf

\* Every step of the system keeps what the locals say.
LEMMA NextKeepsLocals == Inv /\ [Next]_vars => LocalsTyped' /\ HandlerInv'
<1>. SUFFICES ASSUME Inv, [Next]_vars PROVE LocalsTyped' /\ HandlerInv'
  OBVIOUS
<1>0. LocalsTyped /\ HandlerInv
  BY DEF Inv, TypeOK, LocalsTyped
<1>1. ASSUME UNCHANGED locals PROVE LocalsTyped' /\ HandlerInv'
  BY <1>0, <1>1 DEF locals, LocalsTyped, HandlerInv, KeyOf, ItemsOf
<1>2. ASSUME NEW r \in Requests, Arrival(r) PROVE LocalsTyped' /\ HandlerInv'
  <2>1. PICK c \in Calls : Start(r, c) \/ Reject(r, c)
    BY <1>2 DEF Arrival
  <2>2. /\ c.key \in Keys \cup DirectKeys /\ c.items \in Seq(Item)
        /\ Len(c.items) \in Nat
    BY CallShape
  <2>3. CASE Start(r, c)
    <3>1. Len(c.items) > 0
      BY <2>2, <2>3 DEF Start, Valid
    <3>. QED BY <1>0, <2>2, <2>3, <3>1
         DEF Start, LocalsTyped, HandlerInv, Labels, KeyOf, ItemsOf
  <2>4. CASE Reject(r, c)
    BY <1>0, <2>2, <2>4 DEF Reject, LocalsTyped, HandlerInv, Labels, Outcomes, KeyOf, ItemsOf
  <2>. QED BY <2>1, <2>3, <2>4
<1>3. ASSUME NEW r \in Requests, HandlerStep(r) PROVE LocalsTyped' /\ HandlerInv'
  <2>1. CASE Replay(r)
    BY <2>1, ReturnKeepsLocals DEF Replay, Outcomes
  <2>2. CASE Finalize(r) \/ FinalizeLinesLost(r) \/ FinalizeDuplicate(r)
    BY <2>2, ReturnKeepsLocals DEF Finalize, FinalizeLinesLost, FinalizeDuplicate, Outcomes
  <2>3. CASE \/ PriceMissing(r) \/ MixedCurrency(r) \/ CheckFindsNoProduct(r)
             \/ OutOfStock(r) \/ RefetchNotActive(r)
    BY <2>3, AbortKeepsLocals DEF PriceMissing, MixedCurrency, CheckFindsNoProduct,
         OutOfStock, RefetchNotActive, Outcomes
  <2>4. CASE ChargeDeclined(r) \/ ChargeTimesOut(r) \/ ChargeInvalid(r)
    BY <2>4, AbortKeepsLocals DEF ChargeDeclined, ChargeTimesOut, ChargeInvalid, Outcomes
  <2>5. CASE LookupMiss(r) \/ PriceFound(r) \/ CheckFindsRow(r) \/ CheckPasses(r)
    BY <2>5, GoToKeepsLocals DEF LookupMiss, PriceFound, CheckFindsRow, CheckPasses
  <2>6. CASE ReserveConflict(r) \/ ChargeAccepted(r)
    BY <2>6, GoToKeepsLocals DEF ReserveConflict, ChargeAccepted
  <2>7. CASE Reserve(r) \/ Refetch(r)
    BY <2>7, AppendLineKeepsLocals DEF Reserve, Refetch
  <2>8. CASE ReleaseLine(r)
    BY <2>8, NextLineKeepsLocals DEF ReleaseLine
  <2>. QED BY <1>3, <2>1, <2>2, <2>3, <2>4, <2>5, <2>6, <2>7, <2>8 DEF HandlerStep
<1>4. ASSUME NEW r \in Requests, HandlerFault(r) PROVE LocalsTyped' /\ HandlerInv'
  <2>1. CASE StatementFails(r) \/ ReserveUnconfirmed(r)
    BY <2>1, AbortKeepsLocals DEF StatementFails, ReserveUnconfirmed, Outcomes
  <2>2. CASE FinalizeFails(r) \/ FinalizeUnconfirmed(r)
    BY <2>2, ReturnKeepsLocals DEF FinalizeFails, FinalizeUnconfirmed, Outcomes
  <2>3. CASE ReleaseLineFails(r)
    BY <2>3, NextLineKeepsLocals DEF ReleaseLineFails
  <2>. QED BY <1>4, <2>1, <2>2, <2>3 DEF HandlerFault
<1>5. ASSUME Crash PROVE LocalsTyped' /\ HandlerInv'
  BY <1>0, <1>5 DEF Crash, InFlight, LocalsTyped, HandlerInv, Labels, Outcomes, KeyOf, ItemsOf
<1>6. ASSUME NEW k \in ResKeys, Expire(k) PROVE UNCHANGED locals
  BY <1>6 DEF Expire
<1>7. ASSUME NEW w \in Workers, WorkerStep(w) \/ WorkerFault(w) PROVE UNCHANGED locals
  BY <1>7 DEF WorkerStep, ListExpired, ReleaseExpired, WorkerFault, ReleaseExpiredFails,
       WorkerRestart
<1>. QED
  BY <1>1, <1>2, <1>3, <1>4, <1>5, <1>6, <1>7 DEF Next, ServiceStep, vars

\* The charges and the workers' batches keep their types.
LEMMA NextKeepsRest ==
    Inv /\ [Next]_vars => /\ (charges \subseteq Requests)'
                          /\ (batch \in [Workers -> SUBSET ResKeys])'
<1>. SUFFICES ASSUME Inv, [Next]_vars
              PROVE  /\ charges' \subseteq Requests
                     /\ batch' \in [Workers -> SUBSET ResKeys]
  OBVIOUS
<1>0. charges \subseteq Requests /\ batch \in [Workers -> SUBSET ResKeys]
  BY DEF Inv, TypeOK
<1>1. ASSUME NEW r \in Requests, Arrival(r) \/ HandlerFault(r) PROVE UNCHANGED <<charges, batch>>
  BY <1>1 DEF Arrival, Start, Reject, HandlerFault, StatementFails, ReserveUnconfirmed,
       FinalizeFails, FinalizeUnconfirmed, ReleaseLineFails
<1>2. ASSUME NEW r \in Requests, HandlerStep(r)
      PROVE  charges' \subseteq charges \cup {r} /\ UNCHANGED batch
  BY <1>2 DEF HandlerStep, Replay, LookupMiss, PriceFound, PriceMissing, MixedCurrency,
       CheckFindsRow, CheckFindsNoProduct, CheckPasses, Reserve, OutOfStock, ReserveConflict,
       Refetch, RefetchNotActive, ChargeAccepted, ChargeDeclined, ChargeTimesOut,
       ChargeInvalid, Finalize, FinalizeLinesLost, FinalizeDuplicate, ReleaseLine
<1>3. ASSUME NEW w \in Workers, WorkerStep(w) \/ WorkerFault(w)
      PROVE  UNCHANGED charges /\ batch' \in [Workers -> SUBSET ResKeys]
  BY <1>0, <1>3 DEF WorkerStep, ListExpired, Expired, ReleaseExpired, WorkerFault,
       ReleaseExpiredFails, WorkerRestart
<1>4. ASSUME NEW k \in ResKeys, Expire(k) PROVE UNCHANGED <<charges, batch>>
  BY <1>4 DEF Expire
<1>5. ASSUME Crash \/ UNCHANGED vars PROVE UNCHANGED <<charges, batch>>
  BY <1>5 DEF Crash, vars
<1>. QED BY <1>0, <1>1, <1>2, <1>3, <1>4, <1>5 DEF Next, ServiceStep

\* Inv is inductive.
LEMMA InvIsInvariant == Spec => []Inv
<1>1. Init => Inv
  <2>. SUFFICES ASSUME Init PROVE Inv
    OBVIOUS
  <2>1. NoRow \in Row /\ NoOrder \in Order \cup {NoOrder}
    BY DEF NoRow, Row, Statuses
  <2>2. TypeOK
    BY <2>1, ProductsAssumption DEF Init, TypeOK, Labels, Outcomes
  <2>3. HandlerInv
    BY DEF Init, HandlerInv, KeyOf, ItemsOf, NoCall
  <2>4. RowInv
    BY DEF Init, RowInv
  <2>. QED BY <2>2, <2>3, <2>4 DEF Inv
<1>2. Inv /\ [Next]_vars => Inv'
  <2>. SUFFICES ASSUME Inv, [Next]_vars PROVE Inv'
    OBVIOUS
  <2>1. TablesTyped' /\ RowInv'
    BY NextIsTableStep, TablesStayTyped
  <2>2. LocalsTyped' /\ HandlerInv'
    BY NextKeepsLocals
  <2>3. (charges \subseteq Requests)' /\ (batch \in [Workers -> SUBSET ResKeys])'
    BY NextKeepsRest
  <2>. QED BY <2>1, <2>2, <2>3 DEF Inv, TypeOK, TablesTyped, LocalsTyped
<1>. QED BY <1>1, <1>2, PTL DEF Spec

\* The tables and the handlers' local variables always have their types.
THEOREM TypeCorrect == Spec => []TypeOK
<1>1. Inv => TypeOK
  BY DEF Inv
<1>. QED BY <1>1, InvIsInvariant, PTL
-----------------------------------------------------------------------------
(* Stock conservation.                                                     *)

\* A row of quantity q holds q units.
LEMMA UnitsOfSize ==
    ASSUME NEW k, NEW q \in Nat
    PROVE  /\ IsFiniteSet({k} \X (1 .. q))
           /\ Cardinality({k} \X (1 .. q)) = q
<1>1. IsFiniteSet({k}) /\ Cardinality({k}) = 1
  BY FS_Singleton
<1>2. IsFiniteSet(1 .. q) /\ Cardinality(1 .. q) = q
  <2>1. CASE q = 0
    BY <2>1, FS_Interval
  <2>2. CASE q > 0
    BY <2>2, FS_Interval
  <2>. QED BY <2>1, <2>2
<1>3. /\ IsFiniteSet({k} \X (1 .. q))
      /\ Cardinality({k} \X (1 .. q)) = Cardinality({k}) * Cardinality(1 .. q)
  BY <1>1, <1>2, FS_Product, ZenonT(60)
<1>. QED BY <1>1, <1>2, <1>3

\* Adding a set of q units that were not there adds q to the number of units.
LEMMA DisjointUnionSize ==
    ASSUME NEW S, NEW T, NEW q \in Nat,
           IsFiniteSet(S), IsFiniteSet(T), Cardinality(T) = q, S \cap T = {}
    PROVE  /\ IsFiniteSet(S \cup T)
           /\ Cardinality(S \cup T) = Cardinality(S) + q
<1>1. /\ IsFiniteSet(S \cup T)
      /\ Cardinality(S \cup T) = Cardinality(S) + Cardinality(T) - Cardinality(S \cap T)
  BY FS_Union
<1>2. Cardinality(S \cap T) = 0 /\ Cardinality(S) \in Nat
  BY FS_EmptySet, FS_CardinalityType
<1>. QED BY <1>1, <1>2

\* Rows that all hold what they held give the same units.
LEMMA SameHolding ==
    ASSUME NEW p,
           \A k \in ResKeys :
               /\ rows'[k].status \in {"active", "consumed"} <=> rows[k].status \in {"active", "consumed"}
               /\ rows'[k].product = rows[k].product
               /\ rows'[k].quantity = rows[k].quantity
    PROVE  HeldUnits(p)' = HeldUnits(p)
<1>1. HeldKeys(p)' = HeldKeys(p)
  BY DEF HeldKeys
<1>2. \A k \in HeldKeys(p) : rows'[k].quantity = rows[k].quantity
  BY DEF HeldKeys
<1>. QED BY <1>1, <1>2 DEF HeldUnits

\* When one row changes between holding nothing and holding q units of p, the
\* units of p change by the units of that row, and no other product's do.
LEMMA RowTakesUnits ==
    ASSUME NEW k \in ResKeys, NEW p, NEW q \in Nat,
           rows[k].status \notin {"active", "consumed"},
           rows'[k].status \in {"active", "consumed"},
           rows'[k].product = p, rows'[k].quantity = q,
           \A j \in ResKeys \ {k} : rows'[j] = rows[j]
    PROVE  /\ HeldUnits(p)' = HeldUnits(p) \cup ({k} \X (1 .. q))
           /\ HeldUnits(p) \cap ({k} \X (1 .. q)) = {}
           /\ \A o : o # p => HeldUnits(o)' = HeldUnits(o)
<1>1. HeldKeys(p)' = HeldKeys(p) \cup {k} /\ k \notin HeldKeys(p)
  BY DEF HeldKeys
<1>2. \A j \in HeldKeys(p) : rows'[j].quantity = rows[j].quantity
  BY <1>1 DEF HeldKeys
<1>3. ASSUME NEW o, o # p PROVE HeldUnits(o)' = HeldUnits(o)
  <2>1. HeldKeys(o)' = HeldKeys(o) /\ k \notin HeldKeys(o)
    BY <1>3 DEF HeldKeys
  <2>2. \A j \in HeldKeys(o) : rows'[j].quantity = rows[j].quantity
    BY <2>1 DEF HeldKeys
  <2>. QED BY <2>1, <2>2 DEF HeldUnits
<1>4. HeldUnits(p)' = HeldUnits(p) \cup ({k} \X (1 .. q))
  BY <1>1, <1>2 DEF HeldUnits
<1>5. HeldUnits(p) \cap ({k} \X (1 .. q)) = {}
  BY <1>1 DEF HeldUnits
<1>. QED BY <1>3, <1>4, <1>5

\* When one row stops holding its q units of p, the units of p shrink by exactly
\* those of that row.
LEMMA RowGivesUnits ==
    ASSUME NEW k \in ResKeys, NEW p, NEW q \in Nat,
           rows[k].status \in {"active", "consumed"},
           rows'[k].status \notin {"active", "consumed"},
           rows[k].product = p, rows[k].quantity = q,
           \A j \in ResKeys \ {k} : rows'[j] = rows[j]
    PROVE  /\ HeldUnits(p) = HeldUnits(p)' \cup ({k} \X (1 .. q))
           /\ HeldUnits(p)' \cap ({k} \X (1 .. q)) = {}
           /\ HeldUnits(p)' \subseteq HeldUnits(p)
           /\ \A o : o # p => HeldUnits(o)' = HeldUnits(o)
<1>1. HeldKeys(p)' = HeldKeys(p) \ {k} /\ k \in HeldKeys(p)
  BY DEF HeldKeys
<1>2. \A j \in HeldKeys(p) \ {k} : rows'[j].quantity = rows[j].quantity
  BY <1>1 DEF HeldKeys
<1>3. ASSUME NEW o, o # p PROVE HeldUnits(o)' = HeldUnits(o)
  <2>1. HeldKeys(o)' = HeldKeys(o) /\ k \notin HeldKeys(o)
    BY <1>3 DEF HeldKeys
  <2>2. \A j \in HeldKeys(o) : rows'[j].quantity = rows[j].quantity
    BY <2>1 DEF HeldKeys
  <2>. QED BY <2>1, <2>2 DEF HeldUnits
<1>4. HeldUnits(p) = HeldUnits(p)' \cup ({k} \X (1 .. q))
  BY <1>1, <1>2 DEF HeldUnits
<1>5. HeldUnits(p)' \cap ({k} \X (1 .. q)) = {}
  BY <1>1 DEF HeldUnits
<1>. QED BY <1>3, <1>4, <1>5

\* The inductive form of StockConserved: Cardinality says nothing of a set that
\* is not known to be finite.
StockInv ==
    \A p \in Products : /\ IsFiniteSet(HeldUnits(p))
                        /\ available[p] + Cardinality(HeldUnits(p)) = Stock[p]

\* Every step of the tables conserves stock.
LEMMA TableStepConservesStock == Inv /\ StockInv /\ TableStep => StockInv'
<1>. SUFFICES ASSUME Inv, StockInv, TableStep, NEW p \in Products
              PROVE  /\ IsFiniteSet(HeldUnits(p)')
                     /\ available'[p] + Cardinality(HeldUnits(p)') = Stock[p]
  BY DEF StockInv
<1>0. /\ available \in [Products -> Nat] /\ rows \in [ResKeys -> Row]
      /\ IsFiniteSet(HeldUnits(p)) /\ Cardinality(HeldUnits(p)) \in Nat
      /\ available[p] + Cardinality(HeldUnits(p)) = Stock[p]
      /\ Stock[p] \in Nat
  BY FS_CardinalityType, ProductsAssumption DEF Inv, TypeOK, StockInv
<1>1. CASE TakeStep
  <2>1. PICK it \in Item, k \in ResKeys :
           /\ it.product \in Products /\ it.quantity \in Nat \ {0}
           /\ rows[k] = NoRow
           /\ available[it.product] >= it.quantity
           /\ available' = [available EXCEPT ![it.product] = @ - it.quantity]
           /\ rows' = [rows EXCEPT ![k] = ActiveRow(it)]
    BY <1>1 DEF TakeStep, InStock, TakeStock
  <2>2. DEFINE T == {k} \X (1 .. it.quantity)
  <2>3. /\ rows[k].status = "none" /\ rows'[k].status = "active"
        /\ rows'[k].product = it.product /\ rows'[k].quantity = it.quantity
        /\ \A j \in ResKeys \ {k} : rows'[j] = rows[j]
    BY <1>0, <2>1 DEF NoRow, ActiveRow
  <2>4. /\ HeldUnits(it.product)' = HeldUnits(it.product) \cup T
        /\ HeldUnits(it.product) \cap T = {}
        /\ \A o : o # it.product => HeldUnits(o)' = HeldUnits(o)
    BY <2>1, <2>3, RowTakesUnits
  <2>5. IsFiniteSet(T) /\ Cardinality(T) = it.quantity
    BY <2>1, UnitsOfSize
  <2>6. CASE p = it.product
    <3>1. /\ HeldUnits(p)' = HeldUnits(p) \cup T
          /\ HeldUnits(p) \cap T = {}
      BY <2>4, <2>6
    <3>3. /\ IsFiniteSet(HeldUnits(p) \cup T)
          /\ Cardinality(HeldUnits(p) \cup T) = Cardinality(HeldUnits(p)) + it.quantity
      <4>. HIDE DEF T
      <4>. QED BY <1>0, <2>1, <2>5, <3>1, DisjointUnionSize
    <3>2. available'[p] = available[p] - it.quantity
      BY <1>0, <2>1, <2>6
    <3>. QED BY <1>0, <2>1, <3>1, <3>2, <3>3
  <2>7. CASE p # it.product
    BY <1>0, <2>1, <2>4, <2>7
  <2>. QED BY <2>6, <2>7
<1>2. CASE ReleaseStep
  <2>1. PICK k \in ResKeys : Release(k)
    BY <1>2 DEF ReleaseStep
  <2>2. CASE UNCHANGED <<rows, available>>
    BY <1>0, <2>2, SameHolding
  <2>3. CASE /\ IsActive(k)
             /\ rows' = [rows EXCEPT ![k].status = "released"]
             /\ available' = Restock(k)
    <3>1. PICK o \in Products, q \in Nat : rows[k].product = o /\ rows[k].quantity = q
      BY <1>0, <2>3 DEF Inv, RowInv, Row, IsActive, NoRow
    <3>2. DEFINE T == {k} \X (1 .. q)
    <3>3. /\ rows[k].status = "active" /\ rows'[k].status = "released"
          /\ \A j \in ResKeys \ {k} : rows'[j] = rows[j]
      BY <1>0, <2>3 DEF IsActive, Row
    <3>4. /\ HeldUnits(o) = HeldUnits(o)' \cup T
          /\ HeldUnits(o)' \cap T = {}
          /\ HeldUnits(o)' \subseteq HeldUnits(o)
          /\ \A x : x # o => HeldUnits(x)' = HeldUnits(x)
      BY <3>1, <3>3, RowGivesUnits
    <3>5. IsFiniteSet(T) /\ Cardinality(T) = q
      BY <3>1, UnitsOfSize
    <3>6. available' = [available EXCEPT ![o] = @ + q]
      BY <2>3, <3>1 DEF Restock
    <3>7. CASE p = o
      <4>. HIDE DEF T
      <4>1. IsFiniteSet(HeldUnits(p)') /\ Cardinality(HeldUnits(p)') \in Nat
        BY <1>0, <3>4, <3>7, FS_Subset, FS_CardinalityType
      <4>2. Cardinality(HeldUnits(p)' \cup T) = Cardinality(HeldUnits(p)') + q
        BY <3>1, <3>4, <3>5, <3>7, <4>1, DisjointUnionSize
      <4>3. Cardinality(HeldUnits(p)) = Cardinality(HeldUnits(p)') + q
        BY <3>4, <3>7, <4>2
      <4>4. available'[p] = available[p] + q
        BY <1>0, <3>6, <3>7
      <4>. QED BY <1>0, <3>1, <4>1, <4>3, <4>4
    <3>8. CASE p # o
      BY <1>0, <3>4, <3>6, <3>8
    <3>. QED BY <3>7, <3>8
  <2>. QED BY <2>1, <2>2, <2>3 DEF Release
<1>3. CASE CommitStep
  <2>1. PICK r \in Requests : Commit(r)
    BY <1>3 DEF CommitStep
  <2>2. ASSUME NEW k \in ResKeys
        PROVE  /\ rows'[k].status \in {"active", "consumed"} <=> rows[k].status \in {"active", "consumed"}
               /\ rows'[k].product = rows[k].product
               /\ rows'[k].quantity = rows[k].quantity
    <3>1. rows[k] \in Row
      BY <1>0
    <3>2. CASE k \in LineKeys(r)
      <4>1. rows[k].status = "active" /\ rows'[k] = [rows[k] EXCEPT !.status = "consumed"]
        BY <2>1, <3>2 DEF Commit, CanFinalize, IsActive
      <4>. QED BY <3>1, <4>1 DEF Row
    <3>3. CASE k \notin LineKeys(r)
      BY <2>1, <3>3 DEF Commit
    <3>. QED BY <3>2, <3>3
  <2>3. HeldUnits(p)' = HeldUnits(p)
    BY <2>2, SameHolding
  <2>. QED BY <1>0, <2>1, <2>3 DEF Commit
<1>4. CASE ExpireStep
  <2>1. PICK k \in ResKeys : /\ rows' = [rows EXCEPT ![k].expired = TRUE]
                             /\ UNCHANGED available
    BY <1>4 DEF ExpireStep
  <2>2. \A j \in ResKeys : /\ rows'[j].status = rows[j].status
                           /\ rows'[j].product = rows[j].product
                           /\ rows'[j].quantity = rows[j].quantity
    BY <1>0, <2>1 DEF Row
  <2>3. HeldUnits(p)' = HeldUnits(p)
    BY <2>2, SameHolding
  <2>. QED BY <1>0, <2>1, <2>3
<1>5. CASE UNCHANGED tables
  BY <1>0, <1>5, SameHolding DEF tables
<1>. QED BY <1>1, <1>2, <1>3, <1>4, <1>5 DEF TableStep

\* At the start nothing is held.
LEMMA InitConservesStock == Init => StockInv
<1>. SUFFICES ASSUME Init, NEW p \in Products
              PROVE  /\ IsFiniteSet(HeldUnits(p))
                     /\ available[p] + Cardinality(HeldUnits(p)) = Stock[p]
  BY DEF StockInv
<1>1. HeldUnits(p) = {}
  BY DEF Init, NoRow, HeldUnits, HeldKeys
<1>2. available[p] = Stock[p] /\ Stock[p] \in Nat
  BY ProductsAssumption DEF Init
<1>. QED BY <1>1, <1>2, FS_EmptySet

\* StockInv holds in every reachable state.
LEMMA StockInvIsInvariant == Spec => []StockInv
<1>1. Inv /\ StockInv /\ [Next]_vars => StockInv'
  BY NextIsTableStep, TableStepConservesStock
<1>. QED BY <1>1, InitConservesStock, InvIsInvariant, PTL DEF Spec

\* inventory_available always equals the stock minus the units held by active
\* and consumed reservations.
THEOREM StockIsConserved == Spec => []StockConserved
<1>1. StockInv => StockConserved
  BY DEF StockInv, StockConserved
<1>. QED BY <1>1, StockInvIsInvariant, PTL
-----------------------------------------------------------------------------
(* The life of a reservation.                                              *)

\* What one step of the tables may do to one row.
LEMMA RowStep ==
    ASSUME Inv, TableStep, NEW k \in ResKeys
    PROVE  \/ rows[k] = NoRow
           \/ rows'[k] = rows[k]
           \/ /\ rows[k].status = "active"
              /\ rows'[k].product = rows[k].product
              /\ rows'[k].quantity = rows[k].quantity
<1>0. rows \in [ResKeys -> Row] /\ rows[k] \in Row
  BY DEF Inv, TypeOK
<1>1. CASE TakeStep
  BY <1>0, <1>1 DEF TakeStep, TakeStock
<1>2. CASE ReleaseStep
  <2>1. PICK j \in ResKeys : Release(j)
    BY <1>2 DEF ReleaseStep
  <2>2. CASE j = k /\ IsActive(j)
    BY <1>0, <2>1, <2>2 DEF Release, IsActive, Row
  <2>3. CASE j # k \/ ~IsActive(j)
    BY <1>0, <2>1, <2>3 DEF Release
  <2>. QED BY <2>2, <2>3
<1>3. CASE CommitStep
  <2>1. PICK r \in Requests : Commit(r)
    BY <1>3 DEF CommitStep
  <2>2. CASE k \in LineKeys(r)
    <3>1. rows[k].status = "active" /\ rows'[k] = [rows[k] EXCEPT !.status = "consumed"]
      BY <2>1, <2>2 DEF Commit, CanFinalize, IsActive
    <3>. QED BY <1>0, <3>1 DEF Row
  <2>3. CASE k \notin LineKeys(r)
    BY <2>1, <2>3 DEF Commit
  <2>. QED BY <2>2, <2>3
<1>4. CASE ExpireStep
  BY <1>0, <1>4 DEF ExpireStep, IsActive, Row
<1>5. CASE UNCHANGED tables
  BY <1>5 DEF tables
<1>. QED BY <1>1, <1>2, <1>3, <1>4, <1>5 DEF TableStep

\* A consumed or released reservation never changes; an active one keeps its
\* product and quantity.
THEOREM TerminalIsFinal == Spec => TerminalStatus
<1>1. Inv /\ [Next]_vars =>
        [\A k \in ResKeys :
          /\ rows[k].status \in {"consumed", "released"} => rows'[k] = rows[k]
          /\ IsActive(k) => /\ rows'[k].product = rows[k].product
                            /\ rows'[k].quantity = rows[k].quantity]_vars
  <2>. SUFFICES ASSUME Inv, [Next]_vars, NEW k \in ResKeys
                PROVE  /\ rows[k].status \in {"consumed", "released"} => rows'[k] = rows[k]
                       /\ IsActive(k) => /\ rows'[k].product = rows[k].product
                                         /\ rows'[k].quantity = rows[k].quantity
    OBVIOUS
  <2>1. rows[k] = NoRow => rows[k].status = "none"
    BY DEF NoRow
  <2>. QED BY <2>1, NextIsTableStep, RowStep DEF IsActive
<1>. QED BY <1>1, InvIsInvariant, PTL DEF Spec, TerminalStatus
-----------------------------------------------------------------------------
(* Orders.                                                                 *)

\* What a handler at the finalize step has in hand: all its items, with a line
\* for each.
LEMMA FinalizeShape ==
    ASSUME Inv, NEW r \in Requests, pc[r] = "finalize"
    PROVE  /\ KeyOf(r) \in Keys
           /\ ItemsOf(r) \in Seq(Item) /\ ItemsOf(r) # <<>>
           /\ DOMAIN ItemsOf(r) = 1 .. reserved[r]
           /\ \A k \in LineKeys(r) : k \in ResKeys /\ k[1] = KeyOf(r)
           /\ LineKeys(r) # {}
           /\ \A p \in Products : <<KeyOf(r), p>> \in LineKeys(r)
                                  <=> \E i \in DOMAIN ItemsOf(r) : ItemsOf(r)[i].product = p
           /\ OrderOf(r) # NoOrder
<1>1. /\ call[r] \in Calls /\ KeyOf(r) \in Keys
      /\ Valid(ItemsOf(r)) /\ reserved[r] = Len(ItemsOf(r))
  BY DEF Inv, HandlerInv
<1>2. ItemsOf(r) \in Seq(Item) /\ ItemsOf(r) # <<>>
  BY <1>1, CallShape DEF ItemsOf, Valid
<1>3. DOMAIN ItemsOf(r) = 1 .. reserved[r] /\ 1 \in 1 .. reserved[r]
  BY <1>1, <1>2
<1>4. \A i \in 1 .. reserved[r] : /\ LineKey(r, i) = <<KeyOf(r), ItemsOf(r)[i].product>>
                                  /\ LineKey(r, i) \in ResKeys
  BY LineKeyShape
<1>5. OrderOf(r) # NoOrder
  BY <1>2 DEF OrderOf, NoOrder
<1>6. \A k \in LineKeys(r) : k \in ResKeys /\ k[1] = KeyOf(r)
  BY <1>4 DEF LineKeys
<1>7. LineKeys(r) # {}
  BY <1>3 DEF LineKeys
<1>8. \A p \in Products : <<KeyOf(r), p>> \in LineKeys(r)
                          <=> \E i \in DOMAIN ItemsOf(r) : ItemsOf(r)[i].product = p
  BY <1>3, <1>4 DEF LineKeys
<1>. QED BY <1>1, <1>2, <1>3, <1>5, <1>6, <1>7, <1>8

\* A row of PlaceOrder is a row.
LEMMA PurchaseKey == \A k \in Keys, p \in Products : <<k, p>> \in ResKeys
BY DEF ResKeys

\* A step that is not a commit consumes no row and places no order.
LEMMA OnlyCommitConsumes ==
    ASSUME Inv, TableStep, ~CommitStep
    PROVE  /\ UNCHANGED <<orders, outbox>>
           /\ \A k \in ResKeys : rows'[k].status = "consumed" <=> rows[k].status = "consumed"
<1>0. rows \in [ResKeys -> Row]
  BY DEF Inv, TypeOK
<1>1. CASE TakeStep
  BY <1>0, <1>1 DEF TakeStep, TakeStock, ActiveRow, NoRow
<1>2. CASE ReleaseStep
  BY <1>0, <1>2 DEF ReleaseStep, Release, IsActive, Row
<1>3. CASE ExpireStep
  BY <1>0, <1>3 DEF ExpireStep, IsActive, Row
<1>4. CASE UNCHANGED tables
  BY <1>4 DEF tables
<1>. QED BY <1>1, <1>2, <1>3, <1>4 DEF TableStep

\* A reservation is consumed if and only if its order exists and has its product.
THEOREM OrdersAreBacked == Spec => []OrderBacked
<1>1. Init => OrderBacked
  <2>. SUFFICES ASSUME Init, NEW k \in Keys, NEW p \in Products
                PROVE  rows[<<k, p>>].status = "consumed"
                       <=> \E i \in DOMAIN orders[k].items : orders[k].items[i].product = p
    BY DEF OrderBacked
  <2>1. rows[<<k, p>>].status = "none" /\ orders[k].items = <<>>
    BY PurchaseKey DEF Init, NoRow, NoOrder
  <2>2. DOMAIN orders[k].items = {}
    BY <2>1
  <2>. QED BY <2>1, <2>2
<1>2. Inv /\ OrderBacked /\ [Next]_vars => OrderBacked'
  <2>. SUFFICES ASSUME Inv, OrderBacked, TableStep, NEW k \in Keys, NEW p \in Products
                PROVE  rows'[<<k, p>>].status = "consumed"
                       <=> \E i \in DOMAIN orders'[k].items : orders'[k].items[i].product = p
    BY NextIsTableStep DEF OrderBacked
  <2>0. <<k, p>> \in ResKeys /\ rows[<<k, p>>] \in Row
    BY PurchaseKey DEF Inv, TypeOK
  <2>1. CASE ~CommitStep
    BY <2>0, <2>1, OnlyCommitConsumes DEF OrderBacked
  <2>2. CASE CommitStep
    <3>1. PICK r \in Requests : pc[r] = "finalize" /\ Commit(r)
      BY <2>2 DEF CommitStep
    <3>2. /\ ~HasOrder(KeyOf(r))
          /\ orders' = [orders EXCEPT ![KeyOf(r)] = OrderOf(r)]
          /\ rows'[<<k, p>>] = IF <<k, p>> \in LineKeys(r)
                               THEN [rows[<<k, p>>] EXCEPT !.status = "consumed"]
                               ELSE rows[<<k, p>>]
      BY <2>0, <3>1 DEF Commit, CanFinalize
    <3>3. CASE k = KeyOf(r)
      <4>1. orders'[k].items = ItemsOf(r)
        BY <3>2, <3>3 DEF Inv, TypeOK, OrderOf
      <4>2. rows[<<k, p>>].status # "consumed"
        BY <3>2, <3>3 DEF OrderBacked, HasOrder, NoOrder
      <4>3. rows'[<<k, p>>].status = "consumed" <=> <<k, p>> \in LineKeys(r)
        BY <2>0, <3>2, <4>2 DEF Row
      <4>. QED BY <3>1, <3>3, <4>1, <4>3, FinalizeShape
    <3>4. CASE k # KeyOf(r)
      <4>1. <<k, p>> \notin LineKeys(r)
        BY <3>1, <3>4, FinalizeShape
      <4>. QED BY <3>2, <3>4, <4>1 DEF OrderBacked
    <3>. QED BY <3>3, <3>4
  <2>. QED BY <2>1, <2>2
<1>. QED BY <1>1, <1>2, InvIsInvariant, PTL DEF Spec

\* Orders and OrderPlaced events correspond one to one.
THEOREM OrdersAreAnnounced == Spec => []OneEventPerOrder
<1>1. Init => OneEventPerOrder
  BY DEF Init, OneEventPerOrder, HasOrder
<1>2. Inv /\ OneEventPerOrder /\ [Next]_vars => OneEventPerOrder'
  <2>. SUFFICES ASSUME Inv, OneEventPerOrder, TableStep PROVE OneEventPerOrder'
    BY NextIsTableStep
  <2>1. CASE ~CommitStep
    BY <2>1, OnlyCommitConsumes DEF OneEventPerOrder, HasOrder
  <2>2. CASE CommitStep
    <3>1. PICK r \in Requests : pc[r] = "finalize" /\ Commit(r)
      BY <2>2 DEF CommitStep
    <3>2. /\ KeyOf(r) \in Keys /\ OrderOf(r) # NoOrder
          /\ orders \in [Keys -> Order \cup {NoOrder}] /\ outbox \subseteq Event
      BY <3>1, FinalizeShape DEF Inv, TypeOK
    <3>3. /\ orders[KeyOf(r)] = NoOrder
          /\ orders' = [orders EXCEPT ![KeyOf(r)] = OrderOf(r)]
          /\ outbox' = outbox \cup {EventOf(r)}
      BY <3>1 DEF Commit, CanFinalize, HasOrder
    <3>4. EventOf(r).order = KeyOf(r) /\ EventOf(r).by = r /\ OrderOf(r).by = r
      BY DEF EventOf, OrderOf
    <3>5. \A e \in outbox : e.order \in Keys /\ e.order # KeyOf(r)
      BY <3>2, <3>3 DEF OneEventPerOrder, HasOrder, Event
    <3>6. \A e \in outbox' : orders'[e.order] # NoOrder /\ orders'[e.order].by = e.by
      BY <3>2, <3>3, <3>4, <3>5 DEF OneEventPerOrder, HasOrder
    <3>7. \A k \in Keys : orders'[k] # NoOrder => \E e \in outbox' : e.order = k
      BY <3>2, <3>3, <3>4 DEF OneEventPerOrder, HasOrder
    <3>. QED BY <3>6, <3>7 DEF OneEventPerOrder, HasOrder
  <2>. QED BY <2>1, <2>2
<1>. QED BY <1>1, <1>2, InvIsInvariant, PTL DEF Spec

\* Only an accepted charge leads to the finalize transaction, and no charge is
\* ever undone.
LEMMA ChargeComesFirst ==
    ASSUME Inv, [Next]_vars
    PROVE  /\ charges \subseteq charges'
           /\ \A r \in Requests : pc'[r] = "finalize" => pc[r] = "finalize" \/ r \in charges'
<1> DEFINE Goal == /\ charges \subseteq charges'
                   /\ \A r \in Requests :
                         pc'[r] = "finalize" => pc[r] = "finalize" \/ r \in charges'
<1>0. pc \in [Requests -> Labels]
  BY DEF Inv, TypeOK
<1>1. ASSUME NEW r \in Requests, NEW l, l # "finalize", pc' = [pc EXCEPT ![r] = l],
             charges \subseteq charges'
      PROVE  Goal
  BY <1>0, <1>1
<1>2. ASSUME NEW r \in Requests, Arrival(r) PROVE Goal
  <2>1. PICK c \in Calls : Start(r, c) \/ Reject(r, c)
    BY <1>2 DEF Arrival
  <2>. QED BY <1>1, <2>1 DEF Start, Reject
<1>3. ASSUME NEW r \in Requests, NEW res, Return(r, res) \/ Abort(r, res),
             charges \subseteq charges'
      PROVE  Goal
  BY <1>1, <1>3 DEF Return, Abort
<1>4. ASSUME NEW r \in Requests, NEW l, l # "finalize", GoTo(r, l), UNCHANGED charges
      PROVE  Goal
  BY <1>1, <1>4 DEF GoTo
<1>5. ASSUME NEW r \in Requests, AppendLine(r) \/ NextLine(r), UNCHANGED charges PROVE Goal
  <2>1. CASE Return(r, "reserved")
    BY <1>3, <1>5, <2>1
  <2>2. CASE ~Return(r, "reserved")
    BY <1>1, <1>5, <2>2 DEF AppendLine, NextLine
  <2>. QED BY <2>1, <2>2
<1>6. ASSUME NEW r \in Requests, HandlerStep(r) PROVE Goal
  <2>1. CASE Replay(r)
    BY <1>3, <2>1 DEF Replay
  <2>2. CASE Finalize(r) \/ FinalizeLinesLost(r) \/ FinalizeDuplicate(r)
    BY <1>3, <2>2 DEF Finalize, FinalizeLinesLost, FinalizeDuplicate
  <2>3. CASE \/ PriceMissing(r) \/ MixedCurrency(r) \/ CheckFindsNoProduct(r)
             \/ OutOfStock(r) \/ RefetchNotActive(r)
    BY <1>3, <2>3 DEF PriceMissing, MixedCurrency, CheckFindsNoProduct, OutOfStock,
         RefetchNotActive
  <2>4. CASE ChargeDeclined(r) \/ ChargeTimesOut(r) \/ ChargeInvalid(r)
    BY <1>3, <2>4 DEF ChargeDeclined, ChargeTimesOut, ChargeInvalid
  <2>5. CASE LookupMiss(r) \/ PriceFound(r) \/ CheckFindsRow(r) \/ CheckPasses(r)
    BY <1>4, <2>5 DEF LookupMiss, PriceFound, CheckFindsRow, CheckPasses
  <2>6. CASE ReserveConflict(r)
    BY <1>4, <2>6 DEF ReserveConflict
  <2>7. CASE ChargeAccepted(r)
    BY <1>0, <2>7 DEF ChargeAccepted, GoTo
  <2>8. CASE Reserve(r) \/ Refetch(r) \/ ReleaseLine(r)
    BY <1>5, <2>8 DEF Reserve, Refetch, ReleaseLine
  <2>. QED BY <1>6, <2>1, <2>2, <2>3, <2>4, <2>5, <2>6, <2>7, <2>8 DEF HandlerStep
<1>7. ASSUME NEW r \in Requests, HandlerFault(r) PROVE Goal
  <2>1. CASE StatementFails(r) \/ ReserveUnconfirmed(r)
    BY <1>3, <2>1 DEF StatementFails, ReserveUnconfirmed
  <2>2. CASE FinalizeFails(r) \/ FinalizeUnconfirmed(r)
    BY <1>3, <2>2 DEF FinalizeFails, FinalizeUnconfirmed
  <2>3. CASE ReleaseLineFails(r)
    BY <1>5, <2>3 DEF ReleaseLineFails
  <2>. QED BY <1>7, <2>1, <2>2, <2>3 DEF HandlerFault
<1>8. ASSUME Crash PROVE Goal
  BY <1>8 DEF Crash
<1>9. ASSUME \/ UNCHANGED vars
             \/ \E k \in ResKeys : Expire(k)
             \/ \E w \in Workers : WorkerStep(w) \/ WorkerFault(w)
      PROVE  UNCHANGED <<charges, pc>>
  BY <1>9 DEF vars, locals, Expire, WorkerStep, ListExpired, ReleaseExpired, WorkerFault,
       ReleaseExpiredFails, WorkerRestart
<1>. QED BY <1>2, <1>6, <1>7, <1>8, <1>9 DEF Next, ServiceStep

\* PaidOrder with what makes it inductive: a handler at the finalize step has
\* been charged for.
PaidInv == PaidOrder /\ \A r \in Requests : pc[r] = "finalize" => r \in charges

\* Every order was paid for by the request that placed it.
THEOREM OrdersArePaid == Spec => []PaidOrder
<1>1. Init => PaidInv
  BY DEF Init, PaidInv, PaidOrder, HasOrder
<1>2. Inv /\ PaidInv /\ [Next]_vars => PaidInv'
  <2>. SUFFICES ASSUME Inv, PaidInv, [Next]_vars PROVE PaidInv'
    OBVIOUS
  <2>0. /\ charges \subseteq charges'
        /\ \A r \in Requests : pc'[r] = "finalize" => r \in charges'
    BY ChargeComesFirst DEF PaidInv
  <2>1. CASE ~CommitStep
    <3>1. UNCHANGED orders
      BY <2>1, NextIsTableStep, OnlyCommitConsumes
    <3>. QED BY <2>0, <3>1 DEF PaidInv, PaidOrder, HasOrder
  <2>2. CASE CommitStep
    <3>1. PICK r \in Requests : pc[r] = "finalize" /\ Commit(r)
      BY <2>2 DEF CommitStep
    <3>2. /\ r \in charges /\ KeyOf(r) \in Keys
          /\ orders \in [Keys -> Order \cup {NoOrder}]
          /\ orders' = [orders EXCEPT ![KeyOf(r)] = OrderOf(r)]
          /\ OrderOf(r).by = r
      BY <3>1, FinalizeShape DEF PaidInv, Inv, TypeOK, Commit, OrderOf
    <3>. QED BY <2>0, <3>2 DEF PaidInv, PaidOrder, HasOrder
  <2>. QED BY <2>1, <2>2
<1>3. PaidInv => PaidOrder
  BY DEF PaidInv
<1>. QED BY <1>1, <1>2, <1>3, InvIsInvariant, PTL DEF Spec
-----------------------------------------------------------------------------
(* The order service implements the reservation ledger.                    *)

\* The refinement mapping, by name.
Hold == [k \in ResKeys |-> [status   |-> rows[k].status,
                            product  |-> rows[k].product,
                            quantity |-> rows[k].quantity]]
Placed    == {k \in Keys : HasOrder(k)}
Announced == {e.order : e \in outbox}

\* The ledger's units are the units of the rows, so what it derives as
\* available is what the counter says.
LEMMA SameUnits == \A p : Ledger!Units(p) = HeldUnits(p)
<1>1. \A p : Ledger!Held(p) = HeldKeys(p)
  BY DEF Ledger!Held, HeldKeys
<1>. QED BY <1>1 DEF Ledger!Units, HeldUnits, HeldKeys

\* Cardinality as the instance of the ledger sees it.
LEMMA SameCardinality == \A S : Ledger!Cardinality(S) = Cardinality(S)
BY DEF Ledger!Cardinality, Cardinality

\* What the ledger derives as available is the counter inventory_available.
LEMMA SameAvailable ==
    ASSUME Inv, StockInv, NEW p \in Products
    PROVE  Ledger!Available(p) = available[p]
<1>1. /\ available[p] \in Nat /\ Cardinality(HeldUnits(p)) \in Nat
      /\ available[p] + Cardinality(HeldUnits(p)) = Stock[p]
  BY FS_CardinalityType DEF Inv, TypeOK, StockInv
<1>. QED BY <1>1, SameUnits, SameCardinality DEF Ledger!Available

\* Every step of the tables is a step of the ledger or leaves it alone.
LEMMA TableStepRefines ==
    ASSUME Inv, StockInv, TableStep
    PROVE  \/ Ledger!Next
           \/ UNCHANGED <<Hold, Placed, Announced>>
<1>0. rows \in [ResKeys -> Row]
  BY DEF Inv, TypeOK
<1>1. CASE TakeStep
  <2>1. PICK it \in Item, k \in ResKeys :
           /\ it.product \in Products /\ it.quantity \in Nat \ {0}
           /\ rows[k] = NoRow
           /\ available[it.product] >= it.quantity
           /\ available' = [available EXCEPT ![it.product] = @ - it.quantity]
           /\ rows' = [rows EXCEPT ![k] = ActiveRow(it)]
           /\ UNCHANGED <<orders, outbox>>
    BY <1>1 DEF TakeStep, InStock, TakeStock
  <2>2. it.quantity \in 1 .. Ledger!Available(it.product)
    <3>1. Ledger!Available(it.product) = available[it.product] /\ available[it.product] \in Nat
      BY <2>1, SameAvailable DEF Inv, TypeOK
    <3>. QED BY <2>1, <3>1
  <2>3. Hold[k].status = "none"
    BY <2>1 DEF Hold, NoRow
  <2>4. Hold' = [Hold EXCEPT ![k] = [status   |-> "active",
                                     product  |-> it.product,
                                     quantity |-> it.quantity]]
    BY <1>0, <2>1 DEF Hold, ActiveRow
  <2>5. UNCHANGED <<Placed, Announced>>
    BY <2>1 DEF Placed, Announced, HasOrder
  <2>6. Ledger!Reserve(k)
    BY <2>1, <2>2, <2>3, <2>4, <2>5 DEF Ledger!Reserve, Hold, Placed, Announced
  <2>. QED BY <2>1, <2>6 DEF Ledger!Next
<1>2. CASE ReleaseStep
  <2>1. PICK k \in ResKeys : Release(k) /\ UNCHANGED <<orders, outbox>>
    BY <1>2 DEF ReleaseStep
  <2>2. UNCHANGED <<Placed, Announced>>
    BY <2>1 DEF Placed, Announced, HasOrder
  <2>3. CASE IsActive(k)
    <3>1. rows' = [rows EXCEPT ![k].status = "released"]
      BY <2>1, <2>3 DEF Release
    <3>2. Hold[k].status = "active" /\ Hold' = [Hold EXCEPT ![k].status = "released"]
      BY <1>0, <2>3, <3>1 DEF Hold, IsActive, Row
    <3>3. Ledger!Release(k)
      BY <2>2, <3>2 DEF Ledger!Release, Hold, Placed, Announced
    <3>. QED BY <3>3 DEF Ledger!Next
  <2>4. CASE ~IsActive(k)
    BY <2>1, <2>2, <2>4 DEF Release, Hold
  <2>. QED BY <2>3, <2>4
<1>3. CASE CommitStep
  <2>1. PICK r \in Requests : pc[r] = "finalize" /\ Commit(r)
    BY <1>3 DEF CommitStep
  <2>2. /\ KeyOf(r) \in Keys /\ OrderOf(r) # NoOrder
        /\ LineKeys(r) # {}
        /\ \A k \in LineKeys(r) : k \in ResKeys /\ k[1] = KeyOf(r)
    BY <2>1, FinalizeShape
  <2>3. /\ \A k \in LineKeys(r) : rows[k].status = "active"
        /\ ~HasOrder(KeyOf(r))
        /\ rows' = [k \in ResKeys |-> IF k \in LineKeys(r)
                                      THEN [rows[k] EXCEPT !.status = "consumed"]
                                      ELSE rows[k]]
        /\ orders' = [orders EXCEPT ![KeyOf(r)] = OrderOf(r)]
        /\ outbox' = outbox \cup {EventOf(r)}
    BY <2>1 DEF Commit, CanFinalize, IsActive
  <2>4. KeyOf(r) \notin Placed
    BY <2>3 DEF Placed
  <2>5. \A k \in LineKeys(r) : k[1] = KeyOf(r) /\ Hold[k].status = "active"
    BY <2>2, <2>3 DEF Hold
  <2>6. Hold' = [k \in ResKeys |-> IF k \in LineKeys(r)
                                   THEN [Hold[k] EXCEPT !.status = "consumed"]
                                   ELSE Hold[k]]
    BY <1>0, <2>3 DEF Hold, Row
  <2>7. Placed' = Placed \cup {KeyOf(r)}
    BY <2>2, <2>3 DEF Placed, HasOrder, Inv, TypeOK
  <2>8. Announced' = Announced \cup {KeyOf(r)}
    <3>1. EventOf(r).order = KeyOf(r)
      BY DEF EventOf
    <3>. QED BY <2>3, <3>1 DEF Announced
  <2>9. PICK S \in SUBSET ResKeys, k \in Keys : S = LineKeys(r) /\ k = KeyOf(r)
    BY <2>2
  <2>10. Ledger!Purchase(k, S)
    BY <2>4, <2>5, <2>6, <2>7, <2>8, <2>9 DEF Ledger!Purchase, Hold, Placed, Announced
  <2>11. PICK s \in S : s[1] = k
    BY <2>2, <2>9
  <2>. QED BY <2>10, <2>11 DEF Ledger!Next
<1>4. CASE ExpireStep
  <2>1. PICK k \in ResKeys : /\ rows' = [rows EXCEPT ![k].expired = TRUE]
                             /\ UNCHANGED <<orders, outbox>>
    BY <1>4 DEF ExpireStep
  <2>2. \A j \in ResKeys : /\ rows'[j].status = rows[j].status
                           /\ rows'[j].product = rows[j].product
                           /\ rows'[j].quantity = rows[j].quantity
    BY <1>0, <2>1 DEF Row
  <2>3. Hold' = Hold
    BY <2>2 DEF Hold
  <2>. QED BY <2>1, <2>3 DEF Placed, Announced, HasOrder
<1>5. CASE UNCHANGED tables
  BY <1>5 DEF tables, Hold, Placed, Announced, HasOrder
<1>. QED BY <1>1, <1>2, <1>3, <1>4, <1>5 DEF TableStep

\* Whatever interleaving, fault or retry: seen through its rows, orders and
\* events, the order service is the reservation ledger.
THEOREM ImplementsLedger == Spec => RefinesLedger
<1>1. Init => Ledger!Init
  <2>. SUFFICES ASSUME Init PROVE Ledger!Init
    OBVIOUS
  <2>1. \A k \in ResKeys : rows[k].status = "none"
    BY DEF Init, NoRow
  <2>2. {k \in Keys : HasOrder(k)} = {} /\ {e.order : e \in outbox} = {}
    BY DEF Init, HasOrder
  <2>. QED BY <2>1, <2>2 DEF Ledger!Init
<1>2. Inv /\ StockInv /\ [Next]_vars => [Ledger!Next]_(Ledger!vars)
  BY NextIsTableStep, TableStepRefines DEF Ledger!vars, Hold, Placed, Announced
<1>. QED BY <1>1, <1>2, InvIsInvariant, StockInvIsInvariant, PTL
     DEF Spec, RefinesLedger, Ledger!Spec
=============================================================================
