---------------------------- MODULE OutcomeProofs ----------------------------
(***************************************************************************)
(* Theorems about what becomes of one request of OrderService: its answer, *)
(* its lines and its payment.                                              *)
(***************************************************************************)
EXTENDS OrderServiceProofs

\* What a handler has in hand is in the table: the row of every line, and the
\* row it is about to fetch.  Rows are never deleted.
HandInv ==
    \A r \in Requests :
        /\ \A k \in LineKeys(r) : rows[k] # NoRow
        /\ pc[r] = "refetch" => rows[NextKey(r)] # NoRow
-----------------------------------------------------------------------------
(* What one step of the system may do to one request.                      *)

\* Everything the handler of r holds.
Local(r) == <<pc[r], call[r], reserved[r], undone[r], outcome[r]>>

SameCharge(r) == r \in charges' => r \in charges

Aborts == {"product_not_found", "mixed_currency", "charge_invalid",
           "insufficient_inventory", "reservation_not_active", "payment_declined"}

Stays(r) == UNCHANGED Local(r) /\ SameCharge(r)

Arrives(r) ==
    /\ pc[r] = "idle" /\ call'[r] \in Calls
    /\ UNCHANGED <<reserved[r], undone[r]>>
    /\ \/ pc'[r] \in {"lookup", "check"} /\ outcome'[r] = outcome[r]
       \/ pc'[r] = "done" /\ outcome'[r] = "invalid"
    /\ SameCharge(r)

\* On to the next statement, with nothing in hand yet.
MovesOn(r) ==
    /\ pc[r] \in {"lookup", "price", "check"} /\ pc'[r] \in {"price", "check", "insert"}
    /\ UNCHANGED <<call[r], reserved[r], undone[r], outcome[r]>>
    /\ SameCharge(r)

FindsRow(r) ==
    /\ pc[r] \in {"check", "insert"} /\ pc'[r] = "refetch"
    /\ rows[NextKey(r)] # NoRow
    /\ UNCHANGED <<call[r], reserved[r], undone[r], outcome[r]>>
    /\ UNCHANGED tables /\ SameCharge(r)

\* The line of the next item is appended: its row is active.
AddsLine(r) ==
    /\ pc[r] \in {"insert", "refetch"} /\ pc'[r] \in {"charge", "price"}
    /\ reserved'[r] = reserved[r] + 1
    /\ rows'[NextKey(r)] # NoRow
    /\ UNCHANGED <<call[r], undone[r], outcome[r]>>
    /\ SameCharge(r)

Pays(r) ==
    /\ pc[r] = "charge" /\ pc'[r] = "finalize"
    /\ UNCHANGED <<call[r], reserved[r], undone[r], outcome[r]>>
    /\ UNCHANGED tables

\* An error after which releaseAll runs, if there is a line.
Fails(r) ==
    /\ pc[r] \in {"lookup", "price", "check", "insert", "refetch", "charge"}
    /\ pc'[r] = IF reserved[r] = 0 THEN "done" ELSE "release"
    /\ \/ outcome'[r] \in Aborts
       \/ Faults /\ outcome'[r] = "error"
    /\ UNCHANGED <<call[r], reserved[r], undone[r]>>
    /\ \/ SameCharge(r)
       \/ pc[r] = "charge" /\ outcome'[r] = "payment_declined"

\* The answer tells what the tables say when it is given.
AnswerIsTrue(r) ==
    \/ outcome'[r] = "ok" /\ orders'[KeyOf(r)] = OrderOf(r)
    \/ outcome'[r] = "replay" /\ orders'[KeyOf(r)] # NoOrder
    \/ /\ outcome'[r] = "reserved" /\ rows'[NextKey(r)] # NoRow
       /\ IsDirect(r)

Answers(r) ==
    /\ \/ pc[r] = "lookup" /\ outcome'[r] = "replay"
       \/ pc[r] \in {"insert", "refetch"} /\ outcome'[r] = "reserved"
       \/ pc[r] = "finalize" /\ outcome'[r] = "ok"
    /\ pc'[r] = "done" /\ AnswerIsTrue(r)
    /\ UNCHANGED <<call[r], reserved[r], undone[r]>>
    /\ SameCharge(r)

\* The finalize transaction ends in an error.
LosesOrder(r) ==
    /\ pc[r] = "finalize" /\ pc'[r] = "done"
    /\ \/ outcome'[r] = "lines_lost" /\ \E k \in LineKeys(r) : ~IsActive(k) /\ UNCHANGED tables
       \/ outcome'[r] = "finalize_failed" /\ (Faults \/ orders'[KeyOf(r)] # NoOrder)
    /\ UNCHANGED <<call[r], reserved[r], undone[r]>>
    /\ SameCharge(r)

\* releaseAll is through one more line, which it released unless that failed.
LetsGo(r) ==
    /\ pc[r] = "release"
    /\ undone'[r] = undone[r] + 1
    /\ pc'[r] = IF undone[r] + 1 = reserved[r] THEN "done" ELSE "release"
    /\ Faults \/ rows'[LineKey(r, undone[r] + 1)].status # "active"
    /\ UNCHANGED <<call[r], reserved[r], outcome[r]>>
    /\ SameCharge(r)

IsStopped(r) ==
    /\ Faults
    /\ pc[r] \notin {"idle", "done"} /\ pc'[r] = "done" /\ outcome'[r] = "crashed"
    /\ UNCHANGED <<call[r], reserved[r], undone[r]>>
    /\ SameCharge(r)

Move(r) ==
    \/ Stays(r) \/ Arrives(r) \/ MovesOn(r) \/ FindsRow(r) \/ AddsLine(r) \/ Pays(r)
    \/ Fails(r) \/ Answers(r) \/ LosesOrder(r) \/ LetsGo(r) \/ IsStopped(r)

\* What the handler of another request does leaves this one alone.
LEMMA OthersStay ==
    ASSUME Inv, NEW s \in Requests, NEW r \in Requests \ {s},
           HandlerStep(s) \/ HandlerFault(s) \/ Arrival(s)
    PROVE  Stays(r)
<1>0. /\ pc \in [Requests -> Labels] /\ outcome \in [Requests -> Outcomes]
      /\ reserved \in [Requests -> Nat] /\ undone \in [Requests -> Nat]
      /\ call \in [Requests -> Calls \cup {NoCall}]
  BY DEF Inv, TypeOK
<1>1. ASSUME NEW res, Return(s, res) \/ Abort(s, res) PROVE UNCHANGED Local(r)
  BY <1>0, <1>1 DEF Return, Abort, Local
<1>2. ASSUME NEW l, GoTo(s, l) PROVE UNCHANGED Local(r)
  BY <1>0, <1>2 DEF GoTo, Local
<1>3. ASSUME AppendLine(s) \/ NextLine(s) PROVE UNCHANGED Local(r)
  BY <1>0, <1>1, <1>3 DEF AppendLine, NextLine, Local
<1>4. ASSUME charges' \subseteq charges \cup {s} PROVE SameCharge(r)
  BY <1>4 DEF SameCharge
<1>5. ASSUME HandlerStep(s) PROVE Stays(r)
  <2>1. CASE \/ Replay(s) \/ Finalize(s) \/ FinalizeLinesLost(s) \/ FinalizeDuplicate(s)
    BY <1>1, <1>4, <2>1 DEF Replay, Finalize, FinalizeLinesLost, FinalizeDuplicate, Stays
  <2>2. CASE \/ PriceMissing(s) \/ MixedCurrency(s) \/ CheckFindsNoProduct(s)
             \/ OutOfStock(s) \/ RefetchNotActive(s)
    BY <1>1, <1>4, <2>2 DEF PriceMissing, MixedCurrency, CheckFindsNoProduct, OutOfStock,
         RefetchNotActive, Stays
  <2>3. CASE ChargeDeclined(s) \/ ChargeTimesOut(s) \/ ChargeInvalid(s)
    BY <1>1, <1>4, <2>3 DEF ChargeDeclined, ChargeTimesOut, ChargeInvalid, Stays
  <2>4. CASE \/ LookupMiss(s) \/ PriceFound(s) \/ CheckFindsRow(s) \/ CheckPasses(s)
             \/ ReserveConflict(s) \/ ChargeAccepted(s)
    BY <1>2, <1>4, <2>4 DEF LookupMiss, PriceFound, CheckFindsRow, CheckPasses,
         ReserveConflict, ChargeAccepted, Stays
  <2>5. CASE Reserve(s) \/ Refetch(s) \/ ReleaseLine(s)
    BY <1>3, <1>4, <2>5 DEF Reserve, Refetch, ReleaseLine, Stays
  <2>. QED BY <1>5, <2>1, <2>2, <2>3, <2>4, <2>5 DEF HandlerStep
<1>6. ASSUME HandlerFault(s) PROVE Stays(r)
  <2>1. CASE \/ StatementFails(s) \/ ReserveUnconfirmed(s)
             \/ FinalizeFails(s) \/ FinalizeUnconfirmed(s)
    BY <1>1, <1>4, <2>1 DEF StatementFails, ReserveUnconfirmed, FinalizeFails,
         FinalizeUnconfirmed, Stays
  <2>2. CASE ReleaseLineFails(s)
    BY <1>3, <1>4, <2>2 DEF ReleaseLineFails, Stays
  <2>. QED BY <1>6, <2>1, <2>2 DEF HandlerFault
<1>7. ASSUME Arrival(s) PROVE Stays(r)
  BY <1>0, <1>4, <1>7 DEF Arrival, Start, Reject, Stays, Local
<1>. QED BY <1>5, <1>6, <1>7

\* A step of the handler of r is one of these moves of r.
LEMMA OwnStepMoves ==
    ASSUME Inv, HandInv, NEW r \in Requests, HandlerStep(r) \/ HandlerFault(r) \/ Arrival(r)
    PROVE  Move(r)
<1>0. /\ pc \in [Requests -> Labels] /\ outcome \in [Requests -> Outcomes]
      /\ reserved \in [Requests -> Nat] /\ undone \in [Requests -> Nat]
      /\ call \in [Requests -> Calls \cup {NoCall}]
      /\ rows \in [ResKeys -> Row] /\ orders \in [Keys -> Order \cup {NoOrder}]
  BY DEF Inv, TypeOK
<1>1. ASSUME NEW res, Return(r, res)
      PROVE  /\ pc'[r] = "done" /\ outcome'[r] = res
             /\ UNCHANGED <<call[r], reserved[r], undone[r]>>
  BY <1>0, <1>1 DEF Return
<1>2. ASSUME NEW res, Abort(r, res)
      PROVE  /\ pc'[r] = IF reserved[r] = 0 THEN "done" ELSE "release"
             /\ outcome'[r] = res
             /\ UNCHANGED <<call[r], reserved[r], undone[r]>>
  BY <1>0, <1>2 DEF Abort
<1>3. ASSUME NEW l, GoTo(r, l)
      PROVE  pc'[r] = l /\ UNCHANGED <<call[r], reserved[r], undone[r], outcome[r]>>
  BY <1>0, <1>3 DEF GoTo
<1>4. ASSUME UNCHANGED charges PROVE SameCharge(r)
  BY <1>4 DEF SameCharge
<1>5. ASSUME pc[r] \in {"insert", "refetch"}, AppendLine(r), UNCHANGED charges,
             rows'[NextKey(r)] # NoRow
      PROVE  AddsLine(r) \/ Answers(r)
  <2>1. CASE IsDirect(r) /\ Return(r, "reserved")
    BY <1>1, <1>4, <1>5, <2>1 DEF Answers, AnswerIsTrue
  <2>2. CASE /\ reserved' = [reserved EXCEPT ![r] = @ + 1]
             /\ pc' = [pc EXCEPT ![r] = IF reserved[r] + 1 = Len(ItemsOf(r))
                                        THEN "charge" ELSE "price"]
             /\ UNCHANGED <<call, undone, outcome>>
    BY <1>0, <1>4, <1>5, <2>2 DEF AddsLine
  <2>. QED BY <1>5, <2>1, <2>2 DEF AppendLine
<1>6. ASSUME HandlerStep(r) PROVE Move(r)
  <2>1. CASE Replay(r)
    <3>1. Return(r, "replay") /\ pc[r] = "lookup" /\ UNCHANGED <<tables, charges>>
          /\ orders[KeyOf(r)] # NoOrder
      BY <2>1 DEF Replay, HasOrder
    <3>. QED BY <1>1, <1>4, <3>1 DEF Answers, AnswerIsTrue, Move, tables
  <2>2. CASE Finalize(r)
    <3>1. Return(r, "ok") /\ pc[r] = "finalize" /\ Commit(r) /\ UNCHANGED charges
      BY <2>2 DEF Finalize
    <3>2. orders'[KeyOf(r)] = OrderOf(r)
      BY <1>0, <3>1, FinalizeShape DEF Commit
    <3>. QED BY <1>1, <1>4, <3>1, <3>2 DEF Answers, AnswerIsTrue, Move
  <2>3. CASE FinalizeLinesLost(r)
    BY <1>1, <1>4, <2>3 DEF FinalizeLinesLost, LosesOrder, Move
  <2>4. CASE FinalizeDuplicate(r)
    <3>1. Return(r, "finalize_failed") /\ pc[r] = "finalize" /\ UNCHANGED <<tables, charges>>
          /\ orders[KeyOf(r)] # NoOrder
      BY <2>4 DEF FinalizeDuplicate, HasOrder
    <3>. QED BY <1>1, <1>4, <3>1 DEF LosesOrder, Move, tables
  <2>5. CASE \/ PriceMissing(r) \/ MixedCurrency(r) \/ CheckFindsNoProduct(r)
             \/ OutOfStock(r) \/ RefetchNotActive(r)
    <3>1. PICK res \in Aborts : Abort(r, res)
      BY <2>5 DEF PriceMissing, MixedCurrency, CheckFindsNoProduct, OutOfStock,
           RefetchNotActive, Aborts
    <3>2. pc[r] \in {"price", "check", "insert", "refetch"} /\ UNCHANGED charges
      BY <2>5 DEF PriceMissing, MixedCurrency, CheckFindsNoProduct, OutOfStock, RefetchNotActive
    <3>. QED BY <1>2, <1>4, <3>1, <3>2 DEF Fails, Move
  <2>6. CASE ChargeDeclined(r) \/ ChargeTimesOut(r)
    <3>1. Abort(r, "payment_declined") /\ pc[r] = "charge"
      BY <2>6 DEF ChargeDeclined, ChargeTimesOut
    <3>. QED BY <1>2, <3>1 DEF Fails, Move, Aborts
  <2>7. CASE ChargeInvalid(r)
    BY <1>2, <1>4, <2>7 DEF ChargeInvalid, Fails, Move, Aborts
  <2>8. CASE LookupMiss(r) \/ PriceFound(r) \/ CheckPasses(r)
    BY <1>3, <1>4, <2>8 DEF LookupMiss, PriceFound, CheckPasses, MovesOn, Move
  <2>9. CASE CheckFindsRow(r) \/ ReserveConflict(r)
    BY <1>3, <1>4, <2>9 DEF CheckFindsRow, ReserveConflict, FindsRow, Move
  <2>10. CASE ChargeAccepted(r)
    BY <1>3, <2>10 DEF ChargeAccepted, Pays, Move
  <2>11. CASE Reserve(r)
    <3>1. rows' = [rows EXCEPT ![NextKey(r)] = ActiveRow(NextItem(r))] /\ pc[r] = "insert"
          /\ AppendLine(r) /\ UNCHANGED charges
      BY <2>11 DEF Reserve, TakeStock
    <3>2. NextKey(r) \in ResKeys
      BY <3>1, NextItemShape
    <3>3. rows'[NextKey(r)] # NoRow
      BY <1>0, <3>1, <3>2 DEF ActiveRow, NoRow
    <3>. QED BY <1>5, <3>1, <3>3 DEF Move
  <2>13. CASE ReleaseLine(r)
    <3>1. pc[r] = "release" /\ Release(LineKey(r, undone[r] + 1)) /\ NextLine(r)
          /\ UNCHANGED charges
      BY <2>13 DEF ReleaseLine
    <3>2. undone[r] + 1 \in 1 .. reserved[r]
      BY <1>0, <3>1 DEF Inv, HandlerInv
    <3>3. LineKey(r, undone[r] + 1) \in ResKeys
      BY <3>2, LineKeyShape
    <3>4. rows'[LineKey(r, undone[r] + 1)].status # "active"
      BY <1>0, <3>1, <3>3 DEF Release, IsActive, Row
    <3>. QED BY <1>0, <1>4, <3>1, <3>4 DEF NextLine, LetsGo, Move
  <2>12. CASE Refetch(r)
    <3>1. pc[r] = "refetch" /\ AppendLine(r) /\ UNCHANGED <<tables, charges>>
      BY <2>12 DEF Refetch
    <3>2. rows'[NextKey(r)] # NoRow
      BY <3>1 DEF HandInv, tables
    <3>. QED BY <1>5, <3>1, <3>2 DEF Move
  <2>. QED BY <1>6, <2>1, <2>2, <2>3, <2>4, <2>5, <2>6, <2>7, <2>8, <2>9, <2>10, <2>11,
              <2>12, <2>13 DEF HandlerStep
<1>7. ASSUME HandlerFault(r) PROVE Move(r)
  <2>1. CASE StatementFails(r) \/ ReserveUnconfirmed(r)
    BY <1>2, <1>4, <2>1 DEF StatementFails, ReserveUnconfirmed, Fails, Move
  <2>2. CASE FinalizeFails(r) \/ FinalizeUnconfirmed(r)
    BY <1>1, <1>4, <2>2 DEF FinalizeFails, FinalizeUnconfirmed, LosesOrder, Move
  <2>3. CASE ReleaseLineFails(r)
    BY <1>0, <1>4, <2>3 DEF ReleaseLineFails, NextLine, LetsGo, Move
  <2>. QED BY <1>7, <2>1, <2>2, <2>3 DEF HandlerFault
<1>8. ASSUME Arrival(r) PROVE Move(r)
  BY <1>0, <1>4, <1>8 DEF Arrival, Start, Reject, Arrives, Move
<1>. QED BY <1>6, <1>7, <1>8

\* The cleanup workers and the clock do nothing to the requests.
LEMMA BackgroundStays ==
    ASSUME \/ UNCHANGED vars
           \/ \E k \in ResKeys : Expire(k)
           \/ \E w \in Workers : WorkerStep(w) \/ WorkerFault(w),
           NEW r \in Requests
    PROVE  Stays(r)
BY DEF vars, locals, Expire, WorkerStep, ListExpired, ReleaseExpired, WorkerFault,
   ReleaseExpiredFails, WorkerRestart, Stays, Local, SameCharge

\* Every step of the system is a move of every request.
LEMMA NextMoves ==
    ASSUME Inv, HandInv, [Next]_vars, NEW r \in Requests
    PROVE  Move(r)
<1>1. ASSUME NEW s \in Requests, HandlerStep(s) \/ HandlerFault(s) \/ Arrival(s)
      PROVE  Move(r)
  <2>1. CASE s = r
    BY <1>1, <2>1, OwnStepMoves
  <2>2. CASE s # r
    BY <1>1, <2>2, OthersStay DEF Move
  <2>. QED BY <2>1, <2>2
<1>2. ASSUME Crash PROVE Move(r)
  BY <1>2 DEF Crash, InFlight, Inv, TypeOK, IsStopped, Stays, Local, SameCharge, Move
<1>. QED BY <1>1, <1>2, BackgroundStays DEF Next, ServiceStep, Move
-----------------------------------------------------------------------------
(* The tables only grow.                                                   *)

\* A row is never deleted, is active only once, and stays expired; an order stays
\* as it was placed.
LEMMA TablesGrow ==
    ASSUME Inv, [Next]_vars
    PROVE  /\ \A k \in ResKeys : rows[k] # NoRow =>
                 /\ rows'[k] # NoRow
                 /\ rows[k].status # "active" => rows'[k] = rows[k]
                 /\ rows[k].expired => rows'[k].expired
           /\ \A k \in Keys : orders[k] # NoOrder => orders'[k] = orders[k]
<1>0. /\ rows \in [ResKeys -> Row] /\ orders \in [Keys -> Order \cup {NoOrder}] 
      /\ TableStep
  BY NextIsTableStep DEF Inv, TypeOK
<1>1. ASSUME NEW k \in ResKeys, rows[k] # NoRow
      PROVE  /\ rows'[k] # NoRow
             /\ rows[k].status # "active" => rows'[k] = rows[k]
             /\ rows[k].expired => rows'[k].expired
  <2>0. rows[k] \in Row /\ rows[k].status # "none" /\ NoRow.status = "none"
    BY <1>0, <1>1 DEF Inv, RowInv, NoRow
  <2>1. CASE TakeStep
    BY <1>0, <1>1, <2>1 DEF TakeStep, TakeStock
  <2>2. CASE ReleaseStep
    <3>1. PICK j \in ResKeys : Release(j)
      BY <2>2 DEF ReleaseStep
    <3>. QED BY <1>0, <2>0, <3>1 DEF Release, IsActive, Row
  <2>3. CASE CommitStep
    <3>1. PICK r \in Requests : Commit(r)
      BY <2>3 DEF CommitStep
    <3>2. \/ rows'[k] = rows[k]
          \/ rows[k].status = "active" /\ rows'[k] = [rows[k] EXCEPT !.status = "consumed"]
      BY <3>1 DEF Commit, CanFinalize, IsActive
    <3>. QED BY <2>0, <3>2 DEF Row
  <2>4. CASE ExpireStep
    BY <1>0, <2>0, <2>4 DEF ExpireStep, IsActive, Row
  <2>5. CASE UNCHANGED tables
    BY <1>1, <2>5 DEF tables
  <2>. QED BY <1>0, <2>1, <2>2, <2>3, <2>4, <2>5 DEF TableStep
<1>2. ASSUME NEW k \in Keys, orders[k] # NoOrder PROVE orders'[k] = orders[k]
  <2>1. CASE CommitStep
    <3>1. PICK r \in Requests : pc[r] = "finalize" /\ Commit(r)
      BY <2>1 DEF CommitStep
    <3>. QED BY <1>0, <1>2, <3>1 DEF Commit, CanFinalize, HasOrder
  <2>2. CASE ~CommitStep
    BY <1>0, <2>2, OnlyCommitConsumes
  <2>. QED BY <2>1, <2>2
<1>. QED BY <1>1, <1>2

\* A request that has begun keeps its call and with it its key, its items and
\* the rows of its lines.
LEMMA CallIsKept ==
    ASSUME NEW r \in Requests, Move(r), ~Arrives(r)
    PROVE  /\ KeyOf(r)' = KeyOf(r) /\ ItemsOf(r)' = ItemsOf(r)
           /\ \A i : LineKey(r, i)' = LineKey(r, i)
           /\ IsDirect(r)' = IsDirect(r)
<1>1. call'[r] = call[r]
  BY DEF Move, Stays, Local, MovesOn, FindsRow, AddsLine, Pays, Fails, Answers, LosesOrder,
     LetsGo, IsStopped
<1>. QED BY <1>1 DEF KeyOf, ItemsOf, LineKey, IsDirect

\* The lines of a request stay, but for the one that it adds.
LEMMA LinesAreKept ==
    ASSUME Inv, NEW r \in Requests, Move(r)
    PROVE  /\ AddsLine(r) => LineKeys(r)' = LineKeys(r) \cup {NextKey(r)}
           /\ ~AddsLine(r) => /\ reserved'[r] = reserved[r]
                              /\ LineKeys(r)' = LineKeys(r)
<1>0. reserved[r] \in Nat
  BY DEF Inv, TypeOK
<1>1. ASSUME ~Arrives(r), reserved'[r] = reserved[r] PROVE LineKeys(r)' = LineKeys(r)
  BY <1>1, CallIsKept DEF LineKeys
<1>2. ASSUME AddsLine(r) PROVE LineKeys(r)' = LineKeys(r) \cup {NextKey(r)}
  <2>1. ~Arrives(r)
    BY <1>2 DEF AddsLine, Arrives
  <2>2. /\ reserved'[r] = reserved[r] + 1
        /\ \A i : LineKey(r, i)' = LineKey(r, i)
    BY <1>2, <2>1, CallIsKept DEF AddsLine
  <2>3. NextKey(r) = LineKey(r, reserved[r] + 1)
    BY DEF NextKey, NextItem, LineKey
  <2>4. 1 .. reserved[r] + 1 = (1 .. reserved[r]) \cup {reserved[r] + 1}
    BY <1>0
  <2>5. LineKeys(r)' = {LineKey(r, i) : i \in 1 .. reserved[r] + 1}
    BY <2>2 DEF LineKeys
  <2>. QED BY <2>3, <2>4, <2>5 DEF LineKeys
<1>3. ASSUME Arrives(r) PROVE reserved'[r] = reserved[r] /\ LineKeys(r)' = LineKeys(r)
  <2>1. reserved[r] = 0 /\ reserved'[r] = 0
    BY <1>3 DEF Arrives, Inv, HandlerInv
  <2>. QED BY <2>1 DEF LineKeys
<1>4. ASSUME ~AddsLine(r), ~Arrives(r) PROVE reserved'[r] = reserved[r]
  BY <1>4 DEF Move, Stays, Local, MovesOn, FindsRow, Pays, Fails, Answers, LosesOrder,
     LetsGo, IsStopped
<1>. QED BY <1>1, <1>2, <1>3, <1>4

\* A line's row is one of the table.
LEMMA LineIsRow ==
    ASSUME Inv, NEW r \in Requests, NEW k \in LineKeys(r)
    PROVE  k \in ResKeys /\ k[1] = KeyOf(r) /\ KeyOf(r) \in Keys
<1>1. PICK i \in 1 .. reserved[r] : k = LineKey(r, i)
  BY DEF LineKeys
<1>. QED BY <1>1, LineKeyShape

\* HandInv holds in every reachable state.
LEMMA HandInvIsInvariant == Spec => []HandInv
<1>1. Init => HandInv
  BY DEF Init, HandInv, LineKeys
<1>2. Inv /\ HandInv /\ [Next]_vars => HandInv'
  <2>. SUFFICES ASSUME Inv, HandInv, [Next]_vars, NEW r \in Requests
                PROVE  /\ \A k \in LineKeys(r)' : rows'[k] # NoRow
                       /\ pc'[r] = "refetch" => rows'[NextKey(r)'] # NoRow
    BY DEF HandInv
  <2>0. Move(r)
    BY NextMoves
  <2>1. \A k \in LineKeys(r)' : rows'[k] # NoRow
    <3>1. \A k \in LineKeys(r) : rows'[k] # NoRow
      BY TablesGrow, LineIsRow DEF HandInv
    <3>. QED BY <2>0, <3>1, LinesAreKept DEF AddsLine
  <2>2. ASSUME pc'[r] = "refetch" PROVE rows'[NextKey(r)'] # NoRow
    <3>1. FindsRow(r) \/ Stays(r)
      BY <2>0, <2>2 DEF Move, Arrives, MovesOn, AddsLine, Pays, Fails, Answers, LosesOrder,
           LetsGo, IsStopped
    <3>2. NextKey(r)' = NextKey(r) /\ pc[r] \in {"check", "insert", "refetch"}
      BY <2>2, <3>1 DEF FindsRow, Stays, Local, NextKey, NextItem, ItemsOf, KeyOf
    <3>3. rows[NextKey(r)] # NoRow
      BY <2>2, <3>1 DEF FindsRow, Stays, Local, HandInv
    <3>. QED BY <3>2, <3>3, NextItemShape, TablesGrow
  <2>. QED BY <2>1, <2>2
<1>. QED BY <1>1, <1>2, InvIsInvariant, PTL DEF Spec
-----------------------------------------------------------------------------
(* What a handler answers.                                                 *)

\* OutcomeTruthful with what makes it inductive: the answers are about keys of the
\* right kind, and a request that has not begun has no outcome that its call
\* could contradict.
AnswerInv ==
    /\ OutcomeTruthful
    /\ \A r \in Requests :
          /\ pc[r] = "idle" => outcome[r] = "none"
          /\ outcome[r] \in {"ok", "replay"} => KeyOf(r) \in Keys /\ HasOrder(KeyOf(r))
          /\ outcome[r] = "reserved" => IsDirect(r)

\* Only an answer makes an outcome an answer.
LEMMA OutcomesAreGiven ==
    ASSUME NEW r \in Requests, Move(r), ~Answers(r)
    PROVE  outcome'[r] \in {"ok", "replay", "reserved"} => outcome'[r] = outcome[r]
BY DEF Move, Stays, Local, Arrives, MovesOn, FindsRow, AddsLine, Pays, Fails, Aborts,
   LosesOrder, LetsGo, IsStopped

\* AnswerInv holds in every reachable state.
LEMMA AnswerInvIsInvariant == Spec => []AnswerInv
<1>1. Init => AnswerInv
  BY DEF Init, AnswerInv, OutcomeTruthful
<1>2. Inv /\ HandInv /\ AnswerInv /\ [Next]_vars => AnswerInv'
  <2>. SUFFICES ASSUME Inv, HandInv, AnswerInv, [Next]_vars, NEW r \in Requests
                PROVE  /\ outcome'[r] = "ok" => orders'[KeyOf(r)'] = OrderOf(r)'
                       /\ outcome'[r] = "replay" => orders'[KeyOf(r)'] # NoOrder
                       /\ outcome'[r] = "reserved" => rows'[<<KeyOf(r)', NoProduct>>] # NoRow
                       /\ pc'[r] = "idle" => outcome'[r] = "none"
                       /\ outcome'[r] \in {"ok", "replay"} =>
                              KeyOf(r)' \in Keys /\ orders'[KeyOf(r)'] # NoOrder
                       /\ outcome'[r] = "reserved" => IsDirect(r)'
    BY DEF AnswerInv, OutcomeTruthful, HasOrder
  <2>0. Move(r)
    BY NextMoves
  <2>1. pc'[r] = "idle" => outcome'[r] = "none"
    <3>1. pc'[r] = "idle" => Stays(r)
      BY <2>0 DEF Move, Arrives, MovesOn, FindsRow, AddsLine, Pays, Fails, Answers,
           LosesOrder, LetsGo, IsStopped
    <3>. QED BY <3>1 DEF AnswerInv, Stays, Local
  <2>2. CASE outcome'[r] \notin {"ok", "replay", "reserved"}
    BY <2>1, <2>2
  <2>3. CASE Answers(r)
    <3>1. /\ KeyOf(r)' = KeyOf(r) /\ ItemsOf(r)' = ItemsOf(r) /\ IsDirect(r)' = IsDirect(r)
          /\ OrderOf(r)' = OrderOf(r)
      BY <2>0, <2>3, CallIsKept DEF Answers, Arrives, OrderOf
    <3>2. pc[r] \in {"lookup", "finalize"} => KeyOf(r) \in Keys
      BY DEF Inv, HandlerInv
    <3>3. IsDirect(r) => NextKey(r) = <<KeyOf(r), NoProduct>>
      BY DEF IsDirect, NextKey, ResKey
    <3>4. pc[r] = "finalize" => OrderOf(r) # NoOrder
      BY FinalizeShape
    <3>. QED BY <2>1, <2>3, <3>1, <3>2, <3>3, <3>4 DEF Answers, AnswerIsTrue
  <2>4. CASE ~Answers(r) /\ outcome'[r] \in {"ok", "replay", "reserved"}
    <3>1. outcome'[r] = outcome[r] /\ pc[r] # "idle"
      BY <2>0, <2>4, OutcomesAreGiven DEF AnswerInv
    <3>2. /\ KeyOf(r)' = KeyOf(r) /\ ItemsOf(r)' = ItemsOf(r) /\ IsDirect(r)' = IsDirect(r)
          /\ OrderOf(r)' = OrderOf(r)
      BY <2>0, <3>1, CallIsKept DEF Arrives, OrderOf
    <3>3. IsDirect(r) => <<KeyOf(r), NoProduct>> \in ResKeys
      BY DEF IsDirect, ResKeys
    <3>. QED BY <2>1, <2>4, <3>1, <3>2, <3>3, TablesGrow DEF AnswerInv, OutcomeTruthful, HasOrder
  <2>. QED BY <2>2, <2>3, <2>4
<1>. QED BY <1>1, <1>2, InvIsInvariant, HandInvIsInvariant, PTL DEF Spec

\* "ok" means that the request's own order exists with its items, "replay" that
\* an order of the key does, "reserved" that a row of the key does.
THEOREM OutcomesAreTruthful == Spec => []OutcomeTruthful
<1>1. AnswerInv => OutcomeTruthful
  BY DEF AnswerInv
<1>. QED BY <1>1, AnswerInvIsInvariant, PTL
-----------------------------------------------------------------------------
(* Who releases a reservation.                                             *)

\* What a worker has listed was expired then, and is so still.
BatchInv ==
    \A w \in Workers : \A k \in batch[w] : rows[k] # NoRow /\ (IsActive(k) => rows[k].expired)

\* A list only gets longer by rows that are expired.
LEMMA ListsExpired ==
    ASSUME Inv, [Next]_vars, NEW w \in Workers
    PROVE  batch'[w] \subseteq batch[w] \cup Expired
<1>0. batch \in [Workers -> SUBSET ResKeys]
  BY DEF Inv, TypeOK
<1>1. ASSUME NEW v \in Workers, ListExpired(v) PROVE batch'[w] \subseteq batch[w] \cup Expired
  <2>1. PICK S \in SUBSET Expired : batch' = [batch EXCEPT ![v] = S]
    BY <1>1 DEF ListExpired
  <2>. QED BY <1>0, <2>1
<1>2. ASSUME NEW v \in Workers, WorkerStep(v) \/ WorkerFault(v), ~ListExpired(v)
      PROVE  batch'[w] \subseteq batch[w]
  BY <1>0, <1>2 DEF WorkerStep, ReleaseExpired, WorkerFault, ReleaseExpiredFails, WorkerRestart
<1>3. ASSUME NEW r \in Requests, HandlerStep(r) \/ HandlerFault(r) \/ Arrival(r)
      PROVE  UNCHANGED batch
  BY <1>3 DEF HandlerStep, Replay, LookupMiss, PriceFound, PriceMissing, MixedCurrency,
       CheckFindsRow, CheckFindsNoProduct, CheckPasses, Reserve, OutOfStock, ReserveConflict,
       Refetch, RefetchNotActive, ChargeAccepted, ChargeDeclined, ChargeTimesOut,
       ChargeInvalid, Finalize, FinalizeLinesLost, FinalizeDuplicate, ReleaseLine,
       HandlerFault, StatementFails, ReserveUnconfirmed, FinalizeFails, FinalizeUnconfirmed,
       ReleaseLineFails, Arrival, Start, Reject
<1>4. ASSUME Crash \/ UNCHANGED vars \/ \E k \in ResKeys : Expire(k) PROVE UNCHANGED batch
  BY <1>4 DEF Crash, vars, Expire
<1>. QED BY <1>1, <1>2, <1>3, <1>4 DEF Next, ServiceStep

\* BatchInv holds in every reachable state.
LEMMA BatchInvIsInvariant == Spec => []BatchInv
<1>1. Init => BatchInv
  BY DEF Init, BatchInv
<1>2. Inv /\ BatchInv /\ [Next]_vars => BatchInv'
  <2>. SUFFICES ASSUME Inv, BatchInv, [Next]_vars, NEW w \in Workers, NEW k \in batch'[w]
                PROVE  rows'[k] # NoRow /\ (rows'[k].status = "active" => rows'[k].expired)
    BY DEF BatchInv, IsActive
  <2>1. k \in ResKeys
    BY ListsExpired DEF Expired, Inv, TypeOK
  <2>2. rows[k] # NoRow /\ (rows[k].status = "active" => rows[k].expired)
    <3>1. CASE k \in batch[w]
      BY <3>1 DEF BatchInv, IsActive
    <3>2. CASE k \in Expired
      BY <3>2 DEF Expired, IsActive, NoRow
    <3>. QED BY <3>1, <3>2, ListsExpired
  <2>. QED BY <2>1, <2>2, TablesGrow
<1>. QED BY <1>1, <1>2, InvIsInvariant, PTL DEF Spec

\* An active row is released by a request that has a line for it, or by a worker
\* that has it in its list.
LEMMA WhoReleases ==
    ASSUME Inv, [Next]_vars, NEW k \in ResKeys, IsActive(k), rows'[k].status = "released"
    PROVE  \/ \E r \in Requests : pc[r] = "release" /\ k \in LineKeys(r)
           \/ \E w \in Workers : k \in batch[w]
<1>0. rows \in [ResKeys -> Row] /\ rows[k].status = "active" /\ rows'[k] # rows[k]
  BY DEF Inv, TypeOK, IsActive
<1>1. ASSUME NEW j \in ResKeys, Release(j) PROVE j = k
  BY <1>0, <1>1 DEF Release, IsActive
<1>2. ASSUME NEW r \in Requests, ReleaseLine(r) PROVE pc[r] = "release" /\ k \in LineKeys(r)
  <2>1. pc[r] = "release" /\ Release(LineKey(r, undone[r] + 1))
    BY <1>2 DEF ReleaseLine
  <2>2. undone[r] + 1 \in 1 .. reserved[r]
    BY <2>1 DEF Inv, HandlerInv, TypeOK
  <2>3. LineKey(r, undone[r] + 1) = k
    BY <1>1, <2>1, <2>2, LineKeyShape
  <2>. QED BY <2>1, <2>2, <2>3 DEF LineKeys
<1>3. ASSUME NEW r \in Requests, Reserve(r) \/ ReserveUnconfirmed(r) PROVE FALSE
  <2>1. PICK j : rows[j] = NoRow /\ rows' = [rows EXCEPT ![j] = ActiveRow(NextItem(r))]
    BY <1>3 DEF Reserve, ReserveUnconfirmed, TakeStock
  <2>2. j # k
    BY <1>0, <2>1 DEF NoRow
  <2>. QED BY <1>0, <2>1, <2>2
<1>4. ASSUME NEW r \in Requests, Finalize(r) \/ FinalizeUnconfirmed(r) PROVE FALSE
  <2>1. rows' = [j \in ResKeys |-> IF j \in LineKeys(r)
                                   THEN [rows[j] EXCEPT !.status = "consumed"] ELSE rows[j]]
    BY <1>4 DEF Finalize, FinalizeUnconfirmed, Commit
  <2>2. rows[k] \in Row
    BY <1>0
  <2>. QED BY <1>0, <2>1, <2>2 DEF Row
<1>5. ASSUME NEW r \in Requests, HandlerStep(r), ~Reserve(r), ~ReleaseLine(r), ~Finalize(r)
      PROVE  UNCHANGED rows
  BY <1>5 DEF HandlerStep, Replay, LookupMiss, PriceFound, PriceMissing, MixedCurrency,
       CheckFindsRow, CheckFindsNoProduct, CheckPasses, OutOfStock, ReserveConflict,
       Refetch, RefetchNotActive, ChargeAccepted, ChargeDeclined, ChargeTimesOut,
       ChargeInvalid, FinalizeLinesLost, FinalizeDuplicate, tables
<1>6. ASSUME NEW r \in Requests, HandlerFault(r), ~ReserveUnconfirmed(r), ~FinalizeUnconfirmed(r)
      PROVE  UNCHANGED rows
  BY <1>6 DEF HandlerFault, StatementFails, FinalizeFails, ReleaseLineFails, tables
<1>7. ASSUME NEW j \in ResKeys, Expire(j) PROVE FALSE
  BY <1>0, <1>7 DEF Expire, Row
<1>8. ASSUME NEW w \in Workers, WorkerStep(w) PROVE k \in batch[w]
  BY <1>0, <1>1, <1>8 DEF WorkerStep, ListExpired, ReleaseExpired, tables
<1>9. ASSUME \/ \E w \in Workers : WorkerFault(w)
             \/ \E r \in Requests : Arrival(r)
             \/ Crash \/ UNCHANGED vars
      PROVE  UNCHANGED rows
  BY <1>9 DEF WorkerFault, ReleaseExpiredFails, WorkerRestart, Arrival, Start, Reject,
       Crash, vars, tables
<1>. QED
  BY <1>0, <1>2, <1>3, <1>4, <1>5, <1>6, <1>7, <1>8, <1>9 DEF Next, ServiceStep

\* Nobody but its own request takes away a hold that is in time.
THEOREM HoldsAreRespected == Spec => NoForeignRelease
<1>1. Inv /\ BatchInv /\ [Next]_vars =>
        [\A k \in ResKeys :
          (/\ IsActive(k)
           /\ rows'[k].status = "released")
          => \/ rows[k].expired
             \/ \E r \in Requests : pc[r] = "release" /\ k \in LineKeys(r)]_vars
  BY WhoReleases DEF BatchInv
<1>. QED BY <1>1, InvIsInvariant, BatchInvIsInvariant, PTL DEF Spec, NoForeignRelease
-----------------------------------------------------------------------------
(* Payments.                                                               *)

\* A reservation that was released in time was released by a request that had a
\* line for it and has given up.
ReleasedInv ==
    \A k \in ResKeys :
        rows[k].status = "released" /\ ~rows[k].expired =>
            \E r \in Requests : pc[r] \in {"release", "done"} /\ k \in LineKeys(r)

\* A row that is released was so before or active.
LEMMA ReleasedFrom ==
    ASSUME Inv, [Next]_vars, NEW k \in ResKeys, rows'[k].status = "released"
    PROVE  rows[k].status \in {"active", "released"}
<1>0. rows \in [ResKeys -> Row] /\ TableStep
  BY NextIsTableStep DEF Inv, TypeOK
<1>1. CASE TakeStep
  BY <1>0, <1>1 DEF TakeStep, TakeStock, ActiveRow
<1>2. CASE ReleaseStep
  BY <1>0, <1>2 DEF ReleaseStep, Release, IsActive
<1>3. CASE CommitStep
  <2>1. PICK r \in Requests : Commit(r)
    BY <1>3 DEF CommitStep
  <2>2. rows'[k] = rows[k] \/ rows'[k] = [rows[k] EXCEPT !.status = "consumed"]
    BY <2>1 DEF Commit
  <2>. QED BY <1>0, <2>2 DEF Row
<1>4. CASE ExpireStep
  BY <1>0, <1>4 DEF ExpireStep, IsActive, Row
<1>5. CASE UNCHANGED tables
  BY <1>5 DEF tables
<1>. QED BY <1>0, <1>1, <1>2, <1>3, <1>4, <1>5 DEF TableStep

\* A request that has given up or is done stays so, with its lines.
LEMMA EndIsKept ==
    ASSUME Inv, NEW r \in Requests, Move(r), pc[r] \in {"release", "done"}
    PROVE  /\ pc'[r] \in {"release", "done"}
           /\ pc[r] = "done" => Stays(r)
           /\ LineKeys(r)' = LineKeys(r) /\ KeyOf(r)' = KeyOf(r)
<1>1. Stays(r) \/ LetsGo(r) \/ IsStopped(r)
  BY DEF Move, Arrives, MovesOn, FindsRow, AddsLine, Pays, Fails, Answers, LosesOrder
<1>2. ~Arrives(r) /\ ~AddsLine(r)
  BY DEF Arrives, AddsLine
<1>. QED BY <1>1, <1>2, CallIsKept, LinesAreKept DEF Stays, Local, LetsGo, IsStopped

\* ReleasedInv holds in every reachable state.
LEMMA ReleasedInvIsInvariant == Spec => []ReleasedInv
<1>1. Init => ReleasedInv
  BY DEF Init, ReleasedInv, NoRow
<1>2. Inv /\ HandInv /\ BatchInv /\ ReleasedInv /\ [Next]_vars => ReleasedInv'
  <2>. SUFFICES ASSUME Inv, HandInv, BatchInv, ReleasedInv, [Next]_vars,
                       NEW k \in ResKeys, rows'[k].status = "released", ~rows'[k].expired
                PROVE  \E r \in Requests : pc'[r] \in {"release", "done"} /\ k \in LineKeys(r)'
    BY DEF ReleasedInv
  <2>1. /\ rows[k].status \in {"active", "released"} /\ rows[k] # NoRow
        /\ rows[k].status = "released" => rows'[k] = rows[k]
    BY ReleasedFrom, TablesGrow DEF NoRow
  <2>2. ~rows[k].expired
    BY <2>1, TablesGrow
  <2>3. PICK r \in Requests : pc[r] \in {"release", "done"} /\ k \in LineKeys(r)
    <3>1. CASE rows[k].status = "released"
      BY <2>2, <3>1 DEF ReleasedInv
    <3>2. CASE IsActive(k)
      BY <2>2, <3>2, WhoReleases DEF BatchInv
    <3>. QED BY <2>1, <3>1, <3>2 DEF IsActive
  <2>. QED BY <2>3, NextMoves, EndIsKept
<1>. QED BY <1>1, <1>2, InvIsInvariant, HandInvIsInvariant, BatchInvIsInvariant, PTL DEF Spec

\* An order was placed by a request with its key, which is done.
OrderOwner ==
    \A k \in Keys : HasOrder(k) =>
        /\ orders[k].by \in Requests
        /\ pc[orders[k].by] = "done"
        /\ KeyOf(orders[k].by) = k

\* A commit is the end of its request.
LEMMA CommitEnds ==
    ASSUME Inv, [Next]_vars, NEW k \in Keys, orders'[k] # orders[k]
    PROVE  \E r \in Requests : /\ pc[r] = "finalize" /\ pc'[r] = "done" /\ KeyOf(r) = k
                               /\ UNCHANGED call
                               /\ orders'[k] = OrderOf(r)
<1>0. /\ pc \in [Requests -> Labels] /\ orders \in [Keys -> Order \cup {NoOrder}]
  BY DEF Inv, TypeOK
<1>1. ASSUME NEW r \in Requests, Finalize(r) \/ FinalizeUnconfirmed(r)
      PROVE  /\ pc[r] = "finalize" /\ pc'[r] = "done" /\ KeyOf(r) = k
             /\ UNCHANGED call
             /\ orders'[k] = OrderOf(r)
  BY <1>0, <1>1 DEF Finalize, FinalizeUnconfirmed, Commit, Return
<1>2. ASSUME NEW r \in Requests, HandlerStep(r), ~Finalize(r) PROVE UNCHANGED orders
  BY <1>2 DEF HandlerStep, Replay, LookupMiss, PriceFound, PriceMissing, MixedCurrency,
       CheckFindsRow, CheckFindsNoProduct, CheckPasses, Reserve, OutOfStock, ReserveConflict,
       Refetch, RefetchNotActive, ChargeAccepted, ChargeDeclined, ChargeTimesOut,
       ChargeInvalid, FinalizeLinesLost, FinalizeDuplicate, ReleaseLine, tables
<1>3. ASSUME NEW r \in Requests, HandlerFault(r), ~FinalizeUnconfirmed(r) PROVE UNCHANGED orders
  BY <1>3 DEF HandlerFault, StatementFails, ReserveUnconfirmed, FinalizeFails,
       ReleaseLineFails, tables
<1>4. ASSUME \/ \E j \in ResKeys : Expire(j)
             \/ \E w \in Workers : WorkerStep(w) \/ WorkerFault(w)
             \/ \E r \in Requests : Arrival(r)
             \/ Crash \/ UNCHANGED vars
      PROVE  UNCHANGED orders
  BY <1>4 DEF Expire, WorkerStep, ListExpired, ReleaseExpired, WorkerFault,
       ReleaseExpiredFails, WorkerRestart, Arrival, Start, Reject, Crash, vars, tables
<1>. QED BY <1>1, <1>2, <1>3, <1>4 DEF Next, ServiceStep

\* OrderOwner holds in every reachable state.
LEMMA OrderOwnerIsInvariant == Spec => []OrderOwner
<1>1. Init => OrderOwner
  BY DEF Init, OrderOwner, HasOrder
<1>2. Inv /\ HandInv /\ OrderOwner /\ [Next]_vars => OrderOwner'
  <2>. SUFFICES ASSUME Inv, HandInv, OrderOwner, [Next]_vars,
                       NEW k \in Keys, orders'[k] # NoOrder
                PROVE  /\ orders'[k].by \in Requests
                       /\ pc'[orders'[k].by] = "done"
                       /\ call'[orders'[k].by].key = k
    BY DEF OrderOwner, HasOrder, KeyOf
  <2>1. CASE orders'[k] = orders[k]
    <3>1. PICK r \in Requests : r = orders[k].by /\ pc[r] = "done" /\ KeyOf(r) = k
      BY <2>1 DEF OrderOwner, HasOrder
    <3>2. Stays(r)
      BY <3>1, NextMoves, EndIsKept
    <3>3. pc'[r] = "done" /\ call'[r].key = k
      BY <3>1, <3>2 DEF Stays, Local, KeyOf
    <3>. QED BY <2>1, <3>1, <3>3
  <2>2. CASE orders'[k] # orders[k]
    <3>1. PICK r \in Requests : /\ pc'[r] = "done" /\ KeyOf(r) = k /\ UNCHANGED call
                                /\ orders'[k] = OrderOf(r)
      BY <2>2, CommitEnds
    <3>2. orders'[k].by = r /\ call'[r].key = k
      BY <3>1 DEF OrderOf, KeyOf
    <3>. QED BY <3>1, <3>2
  <2>. QED BY <2>1, <2>2
<1>. QED BY <1>1, <1>2, InvIsInvariant, HandInvIsInvariant, PTL DEF Spec

\* A line that is not active any more was released, or consumed by an order of
\* the same key.
LEMMA LineIsGone ==
    ASSUME Inv, HandInv, OrderBacked, NEW r \in Requests, NEW k \in LineKeys(r), ~IsActive(k)
    PROVE  rows[k].status = "released" \/ HasOrder(KeyOf(r))
<1>1. PICK i \in 1 .. reserved[r] : k = LineKey(r, i)
  BY DEF LineKeys
<1>2. /\ KeyOf(r) \in Keys /\ ItemsOf(r)[i].product \in Products
      /\ k = <<KeyOf(r), ItemsOf(r)[i].product>> /\ k \in ResKeys
  BY <1>1, LineKeyShape
<1>3. rows[k].status \in {"consumed", "released"}
  <2>1. rows[k] \in Row /\ rows[k] # NoRow
    BY <1>2 DEF HandInv, Inv, TypeOK
  <2>. QED BY <1>2, <2>1 DEF Inv, RowInv, IsActive, Row, Statuses
<1>4. ASSUME ~HasOrder(KeyOf(r)) PROVE rows[k].status # "consumed"
  <2>1. orders[KeyOf(r)].items = <<>>
    BY <1>4 DEF HasOrder, NoOrder
  <2>2. DOMAIN orders[KeyOf(r)].items = {}
    BY <2>1
  <2>. QED BY <1>2, <2>2 DEF OrderBacked
<1>. QED BY <1>3, <1>4

\* A payment with a key of its own, whose lines have not expired, becomes an order.
THEOREM TimelyPaymentsLand == Spec => []TimelyPaymentLands
<1>1. Inv /\ HandInv /\ OrderBacked /\ OrderOwner /\ ReleasedInv => TimelyPaymentLands
  <2>. SUFFICES ASSUME Inv, HandInv, OrderBacked, OrderOwner, ReleasedInv,
                       NEW r \in Requests, pc[r] = "finalize",
                       \A s \in Requests \ {r} : KeyOf(s) # KeyOf(r),
                       \A k \in LineKeys(r) : ~rows[k].expired
                PROVE  CanFinalize(r)
    BY DEF TimelyPaymentLands
  <2>1. ~HasOrder(KeyOf(r))
    <3>1. KeyOf(r) \in Keys
      BY FinalizeShape
    <3>. QED BY <3>1 DEF OrderOwner
  <2>2. ASSUME NEW k \in LineKeys(r), ~IsActive(k) PROVE FALSE
    <3>1. k \in ResKeys /\ rows[k].status = "released"
      BY <2>1, <2>2, LineIsGone, LineIsRow
    <3>2. PICK s \in Requests : pc[s] \in {"release", "done"} /\ k \in LineKeys(s)
      BY <3>1 DEF ReleasedInv
    <3>3. KeyOf(s) = KeyOf(r)
      BY <2>2, <3>2, LineIsRow
    <3>. QED BY <3>2, <3>3
  <2>. QED BY <2>1, <2>2 DEF CanFinalize
<1>. QED BY <1>1, InvIsInvariant, HandInvIsInvariant, OrdersAreBacked, OrderOwnerIsInvariant,
            ReleasedInvIsInvariant, PTL
-----------------------------------------------------------------------------
(* What is left of a request that ended, when nothing fails.               *)

Released(r, i) == rows[LineKey(r, i)].status # "active"

\* A handler that gives up has released every line that it has been through, and
\* when it is done it has been through all of them.
AbortInv ==
    /\ \A r \in Requests :
          pc[r] = "release" => /\ outcome[r] \in Aborts
                               /\ \A i \in 1 .. undone[r] : Released(r, i)
    /\ AbortedHoldsNothing

\* A line that is not active any more never is again.
LEMMA LinesStayReleased ==
    ASSUME Inv, HandInv, [Next]_vars, NEW r \in Requests, ~Arrives(r),
           NEW i \in 1 .. reserved[r], Released(r, i)
    PROVE  Released(r, i)'
<1>1. LineKey(r, i) \in LineKeys(r)
  BY DEF LineKeys
<1>2. rows'[LineKey(r, i)] = rows[LineKey(r, i)]
  BY <1>1, LineIsRow, TablesGrow DEF HandInv, Released
<1>3. LineKey(r, i)' = LineKey(r, i)
  BY NextMoves, CallIsKept
<1>. QED BY <1>2, <1>3 DEF Released

\* AbortInv holds in every reachable state when no statement fails.
LEMMA AbortInvIsInvariant ==
    ASSUME ~Faults PROVE Spec => []AbortInv
<1>1. Init => AbortInv
  BY DEF Init, AbortInv, AbortedHoldsNothing
<1>2. Inv /\ HandInv /\ AbortInv /\ [Next]_vars => AbortInv'
  <2>. SUFFICES ASSUME Inv, HandInv, AbortInv, [Next]_vars, NEW r \in Requests
                PROVE  /\ pc'[r] = "release" =>
                            /\ outcome'[r] \in Aborts
                            /\ \A i \in 1 .. undone'[r] : Released(r, i)'
                       /\ pc'[r] = "done" /\ outcome'[r] \in Aborts =>
                            \A k \in LineKeys(r)' : rows'[k].status # "active"
    BY DEF AbortInv, AbortedHoldsNothing, Aborts, IsActive
  <2>0. Move(r) /\ reserved[r] \in Nat /\ undone[r] \in Nat
    BY NextMoves DEF Inv, TypeOK
  <2>1. CASE Stays(r)
    <3>1. ~Arrives(r) /\ LineKeys(r)' = LineKeys(r) /\ undone'[r] = undone[r]
          /\ pc'[r] = pc[r] /\ outcome'[r] = outcome[r]
      BY <2>0, <2>1, LinesAreKept DEF Stays, Local, Arrives, AddsLine
    <3>2. ASSUME pc[r] = "release" PROVE \A i \in 1 .. undone[r] : Released(r, i)'
      <4>1. undone[r] < reserved[r]
        BY <3>2 DEF Inv, HandlerInv
      <4>. QED BY <2>0, <3>1, <3>2, <4>1, LinesStayReleased DEF AbortInv
    <3>3. ASSUME pc[r] = "done", outcome[r] \in Aborts, NEW k \in LineKeys(r)
          PROVE  rows'[k].status # "active"
      <4>1. rows[k].status # "active"
        BY <3>3 DEF AbortInv, AbortedHoldsNothing, Aborts, IsActive
      <4>. QED BY <4>1, LineIsRow, TablesGrow DEF HandInv
    <3>. QED BY <3>1, <3>2, <3>3 DEF AbortInv
  <2>2. CASE Fails(r)
    <3>1. /\ pc'[r] = IF reserved[r] = 0 THEN "done" ELSE "release"
          /\ outcome'[r] \in Aborts /\ undone'[r] = undone[r]
      BY <2>2 DEF Fails
    <3>2. undone[r] = 0
      BY <2>2 DEF Fails, Inv, HandlerInv
    <3>3. reserved[r] = 0 => LineKeys(r)' = {}
      <4>1. reserved[r] = 0 => LineKeys(r) = {}
        BY DEF LineKeys
      <4>. QED BY <2>0, <2>2, <4>1, LinesAreKept DEF Fails, AddsLine
    <3>. QED BY <3>1, <3>2, <3>3
  <2>3. CASE LetsGo(r)
    <3>1. /\ ~Arrives(r) /\ LineKeys(r)' = LineKeys(r) /\ undone'[r] = undone[r] + 1
          /\ outcome'[r] = outcome[r] /\ pc[r] = "release"
          /\ pc'[r] = "release" \/ undone[r] + 1 = reserved[r]
      BY <2>0, <2>3, LinesAreKept DEF LetsGo, Arrives, AddsLine
    <3>2. undone[r] < reserved[r]
      BY <3>1 DEF Inv, HandlerInv
    <3>3. \A i : LineKey(r, i)' = LineKey(r, i)
      BY <2>0, <3>1, CallIsKept
    <3>4. ASSUME NEW i \in 1 .. undone[r] + 1 PROVE Released(r, i)'
      <4>1. CASE i \in 1 .. undone[r]
        BY <2>0, <3>1, <3>2, <4>1, LinesStayReleased DEF AbortInv
      <4>2. CASE i = undone[r] + 1
        BY <2>3, <3>3, <4>2 DEF LetsGo, Released
      <4>. QED BY <2>0, <4>1, <4>2
    <3>5. ASSUME undone[r] + 1 = reserved[r], NEW k \in LineKeys(r)'
          PROVE  rows'[k].status # "active"
      <4>1. PICK i \in 1 .. reserved[r] : k = LineKey(r, i)
        BY <3>1 DEF LineKeys
      <4>. QED BY <3>3, <3>4, <3>5, <4>1 DEF Released
    <3>. QED BY <3>1, <3>4, <3>5 DEF AbortInv
  <2>4. CASE Arrives(r) \/ MovesOn(r) \/ FindsRow(r) \/ AddsLine(r) \/ Pays(r)
             \/ Answers(r) \/ LosesOrder(r) \/ IsStopped(r)
    BY <2>4 DEF Arrives, MovesOn, FindsRow, AddsLine, Pays, Answers, LosesOrder, IsStopped,
       Aborts
  <2>. QED BY <2>0, <2>1, <2>2, <2>3, <2>4 DEF Move
<1>. QED BY <1>1, <1>2, InvIsInvariant, HandInvIsInvariant, PTL DEF Spec

\* When no statement fails, a handler that has answered with an error from before
\* the finalize step holds no active reservation.
THEOREM AbortsHoldNothing ==
    ASSUME ~Faults PROVE Spec => []AbortedHoldsNothing
<1>1. AbortInv => AbortedHoldsNothing
  BY DEF AbortInv
<1>. QED BY <1>1, AbortInvIsInvariant, PTL

\* What the outcome of a request says of its payment and its lines: a charged
\* request ended in the finalize step, in a payment that timed out or in a crash;
\* "lines_lost" means that a line is not active, and without a fault
\* "finalize_failed" means that the key has an order.
EndInv ==
    \A r \in Requests :
        /\ pc[r] \notin {"release", "done"} => outcome[r] = "none"
        /\ r \in charges =>
              /\ reserved[r] > 0
              /\ pc[r] \in {"finalize", "release", "done"}
              /\ pc[r] # "finalize" => outcome[r] \in {"payment_declined", "ok", "lines_lost",
                                                       "finalize_failed", "crashed"}
        /\ outcome[r] = "lines_lost" => \E k \in LineKeys(r) : ~IsActive(k)
        /\ outcome[r] = "finalize_failed" =>
              KeyOf(r) \in Keys /\ (Faults \/ HasOrder(KeyOf(r)))
        /\ outcome[r] = "crashed" => Faults

\* EndInv holds in every reachable state.
LEMMA EndInvIsInvariant == Spec => []EndInv
<1>1. Init => EndInv
  BY DEF Init, EndInv
<1>2. Inv /\ HandInv /\ EndInv /\ [Next]_vars => EndInv'
  <2>. SUFFICES ASSUME Inv, HandInv, EndInv, [Next]_vars, NEW r \in Requests
                PROVE  /\ pc'[r] \notin {"release", "done"} => outcome'[r] = "none"
                       /\ r \in charges' =>
                             /\ reserved'[r] > 0
                             /\ pc'[r] \in {"finalize", "release", "done"}
                             /\ pc'[r] # "finalize" =>
                                   outcome'[r] \in {"payment_declined", "ok", "lines_lost",
                                                    "finalize_failed", "crashed"}
                       /\ outcome'[r] = "lines_lost" =>
                             \E k \in LineKeys(r)' : rows'[k].status # "active"
                       /\ outcome'[r] = "finalize_failed" =>
                             KeyOf(r)' \in Keys /\ (Faults \/ orders'[KeyOf(r)'] # NoOrder)
                       /\ outcome'[r] = "crashed" => Faults
    BY DEF EndInv, IsActive, HasOrder
  <2>0. Move(r) /\ reserved[r] \in Nat
    BY NextMoves DEF Inv, TypeOK
  <2>1. pc'[r] \notin {"release", "done"} => outcome'[r] = "none"
    BY <2>0 DEF EndInv, Move, Stays, Local, Arrives, MovesOn, FindsRow, AddsLine, Pays, Fails,
       Answers, LosesOrder, LetsGo, IsStopped
  <2>2. ASSUME r \in charges'
        PROVE  /\ reserved'[r] > 0
               /\ pc'[r] \in {"finalize", "release", "done"}
               /\ pc'[r] # "finalize" =>
                     outcome'[r] \in {"payment_declined", "ok", "lines_lost",
                                      "finalize_failed", "crashed"}
    <3>1. CASE r \in charges
      BY <2>0, <3>1 DEF EndInv, Move, Stays, Local, Arrives, MovesOn, FindsRow, AddsLine, Pays,
         Fails, Answers, LosesOrder, LetsGo, IsStopped
    <3>2. CASE r \notin charges
      <4>1. Pays(r) \/ (Fails(r) /\ pc[r] = "charge" /\ outcome'[r] = "payment_declined")
        BY <2>0, <2>2, <3>2 DEF Move, Stays, Arrives, MovesOn, FindsRow, AddsLine, Fails,
           Answers, LosesOrder, LetsGo, IsStopped, SameCharge
      <4>2. pc[r] = "charge" /\ reserved'[r] = reserved[r]
        BY <4>1 DEF Pays, Fails
      <4>3. reserved[r] > 0
        <5>1. reserved[r] = Len(ItemsOf(r)) /\ Valid(ItemsOf(r)) /\ call[r] \in Calls
          BY <4>2 DEF Inv, HandlerInv
        <5>2. ItemsOf(r) \in Seq(Item) /\ ItemsOf(r) # <<>>
          BY <5>1, CallsAssumption DEF ItemsOf, Valid
        <5>. QED BY <5>1, <5>2
      <4>. QED BY <4>1, <4>2, <4>3 DEF Pays, Fails
    <3>. QED BY <3>1, <3>2
  <2>3. ASSUME outcome'[r] = "lines_lost" PROVE \E k \in LineKeys(r)' : rows'[k].status # "active"
    <3>1. /\ LineKeys(r)' = LineKeys(r)
          /\ outcome[r] = "lines_lost" \/ LosesOrder(r)
      BY <2>0, <2>3, LinesAreKept DEF EndInv, Move, Stays, Local, Arrives, MovesOn, FindsRow,
         AddsLine, Pays, Fails, Aborts, Answers, LetsGo, IsStopped
    <3>2. PICK k \in LineKeys(r) : rows[k].status # "active"
      BY <2>3, <3>1 DEF EndInv, LosesOrder, IsActive
    <3>3. rows'[k] = rows[k]
      BY <3>2, LineIsRow, TablesGrow DEF HandInv
    <3>. QED BY <3>1, <3>2, <3>3
  <2>4. ASSUME outcome'[r] = "finalize_failed"
        PROVE  KeyOf(r)' \in Keys /\ (Faults \/ orders'[KeyOf(r)'] # NoOrder)
    <3>1. /\ KeyOf(r)' = KeyOf(r)
          /\ outcome[r] = "finalize_failed" \/ LosesOrder(r)
      BY <2>0, <2>4, CallIsKept DEF EndInv, Move, Stays, Local, Arrives, MovesOn, FindsRow,
         AddsLine, Pays, Fails, Aborts, Answers, LetsGo, IsStopped
    <3>2. CASE outcome[r] = "finalize_failed"
      BY <3>1, <3>2, TablesGrow DEF EndInv, HasOrder
    <3>3. CASE LosesOrder(r)
      <4>1. KeyOf(r) \in Keys
        BY <3>3 DEF LosesOrder, Inv, HandlerInv
      <4>. QED BY <2>4, <3>1, <3>3, <4>1 DEF LosesOrder
    <3>. QED BY <3>1, <3>2, <3>3
  <2>5. outcome'[r] = "crashed" => Faults
    BY <2>0 DEF EndInv, Move, Stays, Local, Arrives, MovesOn, FindsRow, AddsLine, Pays, Fails,
       Aborts, Answers, LosesOrder, LetsGo, IsStopped
  <2>. QED BY <2>1, <2>2, <2>3, <2>4, <2>5
<1>. QED BY <1>1, <1>2, InvIsInvariant, HandInvIsInvariant, PTL DEF Spec

\* When no statement fails, a payment that does not end in an order lost a line
\* that was released before the finalize transaction.
THEOREM LostPaymentsAreExplained ==
    ASSUME ~Faults PROVE Spec => []LostPaymentExplained
<1>1. Inv /\ HandInv /\ OrderBacked /\ AnswerInv /\ AbortInv /\ EndInv => LostPaymentExplained
  <2>. SUFFICES ASSUME Inv, HandInv, OrderBacked, AnswerInv, AbortInv, EndInv,
                       NEW r \in charges, pc[r] = "done", ~HasOrder(KeyOf(r))
                PROVE  \E k \in LineKeys(r) : rows[k].status = "released"
    BY DEF LostPaymentExplained
  <2>1. /\ r \in Requests /\ reserved[r] > 0 /\ reserved[r] \in Nat
        /\ outcome[r] \in {"payment_declined", "ok", "lines_lost", "finalize_failed", "crashed"}
    BY DEF EndInv, Inv, TypeOK
  <2>2. outcome[r] \in {"payment_declined", "lines_lost"}
    BY <2>1 DEF AnswerInv, EndInv
  <2>3. \E k \in LineKeys(r) : ~IsActive(k)
    <3>1. CASE outcome[r] = "lines_lost"
      BY <2>1, <3>1 DEF EndInv
    <3>2. CASE outcome[r] = "payment_declined"
      <4>1. LineKey(r, 1) \in LineKeys(r)
        BY <2>1 DEF LineKeys
      <4>. QED BY <2>1, <3>2, <4>1 DEF AbortInv, AbortedHoldsNothing
    <3>. QED BY <2>2, <3>1, <3>2
  <2>. QED BY <2>1, <2>3, LineIsGone
<1>. QED BY <1>1, InvIsInvariant, HandInvIsInvariant, OrdersAreBacked, AnswerInvIsInvariant,
            AbortInvIsInvariant, EndInvIsInvariant, PTL
-----------------------------------------------------------------------------
(* What is sold.                                                           *)

AskedFor(k, p, q) ==
    \E c \in Calls : c.key = k /\ \E i \in DOMAIN c.items :
        c.items[i].product = p /\ c.items[i].quantity = q

\* A row holds what a call with its key asked for, and so has an order.
CallsInv ==
    /\ \A k \in Keys, p \in Products :
          rows[<<k, p>>] # NoRow => /\ rows[<<k, p>>].product = p
                                    /\ AskedFor(k, p, rows[<<k, p>>].quantity)
    /\ \A k \in Keys :
          HasOrder(k) => /\ Valid(orders[k].items)
                         /\ \E c \in Calls : c.key = k /\ c.items = orders[k].items

\* A row is inserted for the next item of a request.
LEMMA WhoInserts ==
    ASSUME Inv, [Next]_vars, NEW k \in ResKeys, rows[k] = NoRow, rows'[k] # NoRow
    PROVE  \E r \in Requests : pc[r] = "insert" /\ k = NextKey(r)
                               /\ rows'[k] = ActiveRow(NextItem(r))
<1>0. rows \in [ResKeys -> Row] /\ ~IsActive(k) /\ rows'[k] # rows[k]
  BY DEF Inv, TypeOK, IsActive, NoRow
<1>1. ASSUME NEW r \in Requests, Reserve(r) \/ ReserveUnconfirmed(r)
      PROVE  pc[r] = "insert" /\ k = NextKey(r) /\ rows'[k] = ActiveRow(NextItem(r))
  <2>1. /\ pc[r] = "insert"
        /\ rows' = [rows EXCEPT ![NextKey(r)] = ActiveRow(NextItem(r))]
    BY <1>1 DEF Reserve, ReserveUnconfirmed, TakeStock
  <2>. QED BY <1>0, <2>1
<1>2. ASSUME NEW j, Release(j) PROVE FALSE
  BY <1>0, <1>2 DEF Release, IsActive
<1>3. ASSUME NEW r \in Requests, Finalize(r) \/ FinalizeUnconfirmed(r) PROVE FALSE
  <2>1. /\ rows' = [j \in ResKeys |-> IF j \in LineKeys(r)
                                      THEN [rows[j] EXCEPT !.status = "consumed"] ELSE rows[j]]
        /\ \A j \in LineKeys(r) : IsActive(j)
    BY <1>3 DEF Finalize, FinalizeUnconfirmed, Commit, CanFinalize
  <2>. QED BY <1>0, <2>1
<1>4. ASSUME NEW r \in Requests, HandlerStep(r), ~Reserve(r), ~ReleaseLine(r), ~Finalize(r)
      PROVE  UNCHANGED rows
  BY <1>4 DEF HandlerStep, Replay, LookupMiss, PriceFound, PriceMissing, MixedCurrency,
       CheckFindsRow, CheckFindsNoProduct, CheckPasses, OutOfStock, ReserveConflict,
       Refetch, RefetchNotActive, ChargeAccepted, ChargeDeclined, ChargeTimesOut,
       ChargeInvalid, FinalizeLinesLost, FinalizeDuplicate, tables
<1>5. ASSUME NEW r \in Requests, HandlerFault(r), ~ReserveUnconfirmed(r), ~FinalizeUnconfirmed(r)
      PROVE  UNCHANGED rows
  BY <1>5 DEF HandlerFault, StatementFails, FinalizeFails, ReleaseLineFails, tables
<1>6. ASSUME NEW r \in Requests, ReleaseLine(r) PROVE FALSE
  BY <1>2, <1>6 DEF ReleaseLine
<1>7. ASSUME NEW j \in ResKeys, Expire(j) PROVE FALSE
  BY <1>0, <1>7 DEF Expire, IsActive
<1>8. ASSUME NEW w \in Workers, WorkerStep(w) PROVE FALSE
  BY <1>0, <1>2, <1>8 DEF WorkerStep, ListExpired, ReleaseExpired, tables
<1>9. ASSUME \/ \E w \in Workers : WorkerFault(w)
             \/ \E r \in Requests : Arrival(r)
             \/ Crash \/ UNCHANGED vars
      PROVE  UNCHANGED rows
  BY <1>9 DEF WorkerFault, ReleaseExpiredFails, WorkerRestart, Arrival, Start, Reject,
       Crash, vars, tables
<1>. QED
  BY <1>0, <1>1, <1>3, <1>4, <1>5, <1>6, <1>7, <1>8, <1>9 DEF Next, ServiceStep

\* CallsInv holds in every reachable state.
LEMMA CallsInvIsInvariant == Spec => []CallsInv
<1>1. Init => CallsInv
  BY PurchaseKey DEF Init, CallsInv, HasOrder
<1>2. Inv /\ CallsInv /\ [Next]_vars => CallsInv'
  <2>. SUFFICES ASSUME Inv, CallsInv, [Next]_vars PROVE CallsInv'
    OBVIOUS
  <2>1. ASSUME NEW k \in Keys, NEW p \in Products, rows'[<<k, p>>] # NoRow
        PROVE  /\ rows'[<<k, p>>].product = p
               /\ AskedFor(k, p, rows'[<<k, p>>].quantity)
    <3> DEFINE j == <<k, p>>
    <3>0. j \in ResKeys
      BY PurchaseKey
    <3>1. CASE rows[j] # NoRow
      <4>1. /\ rows'[j].product = rows[j].product
            /\ rows'[j].quantity = rows[j].quantity
        BY <3>0, <3>1, NextIsTableStep, RowStep
      <4>. QED BY <3>1, <4>1 DEF CallsInv
    <3>2. CASE rows[j] = NoRow
      <4>1. PICK r \in Requests : pc[r] = "insert" /\ j = NextKey(r)
                                 /\ rows'[j] = ActiveRow(NextItem(r))
        BY <2>1, <3>0, <3>2, WhoInserts
      <4>2. /\ call[r] \in Calls /\ reserved[r] + 1 \in DOMAIN ItemsOf(r)
        <5>1. /\ call[r] \in Calls /\ reserved[r] < Len(ItemsOf(r)) /\ reserved[r] \in Nat
          BY <4>1 DEF Inv, TypeOK, HandlerInv
        <5>2. ItemsOf(r) \in Seq(Item)
          BY <5>1, CallShape DEF ItemsOf
        <5>. QED BY <5>1, <5>2
      <4>3. KeyOf(r) = k /\ NextItem(r).product = p
        <5>1. KeyOf(r) \notin DirectKeys
          <6>1. KeyOf(r) \in DirectKeys => j = <<KeyOf(r), NoProduct>>
            BY <4>1 DEF NextKey, ResKey
          <6>. QED BY <6>1, ProductsAssumption
        <5>. QED BY <4>1, <5>1 DEF NextKey, ResKey
      <4>4. /\ rows'[j].product = NextItem(r).product
            /\ rows'[j].quantity = NextItem(r).quantity
        BY <4>1 DEF ActiveRow
      <4>5. AskedFor(k, p, NextItem(r).quantity)
        BY <4>2, <4>3 DEF AskedFor, NextItem, KeyOf, ItemsOf
      <4>. QED BY <4>3, <4>4, <4>5
    <3>. QED BY <3>1, <3>2
  <2>2. ASSUME NEW k \in Keys, orders'[k] # NoOrder
        PROVE  /\ Valid(orders'[k].items)
               /\ \E c \in Calls : c.key = k /\ c.items = orders'[k].items
    <3>1. CASE orders'[k] = orders[k]
      BY <2>2, <3>1 DEF CallsInv, HasOrder
    <3>2. CASE orders'[k] # orders[k]
      <4>1. PICK r \in Requests : /\ pc[r] = "finalize" /\ KeyOf(r) = k
                                 /\ orders'[k] = OrderOf(r)
        BY <3>2, CommitEnds
      <4>2. call[r] \in Calls /\ Valid(ItemsOf(r))
        BY <4>1 DEF Inv, HandlerInv
      <4>. QED BY <4>1, <4>2 DEF OrderOf, KeyOf, ItemsOf
    <3>. QED BY <3>1, <3>2
  <2>. QED BY <2>1, <2>2 DEF CallsInv, HasOrder
<1>. QED BY <1>1, <1>2, InvIsInvariant, PTL DEF Spec

\* With one quantity per key, an order line of p has a consumed row of p with its
\* quantity, and no other line has the same.
LEMMA LineHasRow ==
    ASSUME Inv, CallsInv, OrderBacked, OneQuantityPerKey,
           NEW k \in Keys, NEW p \in Products, NEW i \in ItemIndexes(k, p)
    PROVE  /\ <<k, p>> \in HeldKeys(p)
           /\ rows[<<k, p>>].quantity = orders[k].items[i].quantity
           /\ \A j \in ItemIndexes(k, p) : j = i
<1>1. i \in DOMAIN orders[k].items /\ orders[k].items[i].product = p
  BY DEF ItemIndexes
<1>2. HasOrder(k)
  <2>1. DOMAIN NoOrder.items = {}
    BY DEF NoOrder
  <2>. QED BY <1>1, <2>1 DEF HasOrder
<1>3. rows[<<k, p>>].status = "consumed" /\ <<k, p>> \in ResKeys
  BY <1>1, PurchaseKey DEF OrderBacked
<1>4. /\ rows[<<k, p>>].product = p
      /\ AskedFor(k, p, rows[<<k, p>>].quantity)
  BY <1>3 DEF CallsInv, NoRow
<1>5. PICK c \in Calls : c.key = k /\ c.items = orders[k].items
  BY <1>2 DEF CallsInv
<1>6. rows[<<k, p>>].quantity = orders[k].items[i].quantity
  BY <1>1, <1>4, <1>5 DEF AskedFor, OneQuantityPerKey
<1>7. \A j \in ItemIndexes(k, p) : j = i
  BY <1>1, <1>2 DEF CallsInv, Valid, ItemIndexes
<1>. QED BY <1>3, <1>4, <1>6, <1>7 DEF HeldKeys

\* If a key that is sent again asks for the same quantities, no item is oversold:
\* a changed quantity under an old key is the only way to sell more than there is,
\* whatever requests race, expire, fail and crash.
THEOREM NothingIsOversold ==
    ASSUME OneQuantityPerKey PROVE Spec => []SoldWithinStock
<1>1. Inv /\ CallsInv /\ OrderBacked /\ StockInv => SoldWithinStock
  <2>. SUFFICES ASSUME Inv, CallsInv, OrderBacked, StockInv, NEW p \in Products
                PROVE  Cardinality(SoldUnits(p)) <= Stock[p]
    BY DEF SoldWithinStock
  <2> DEFINE f == [u \in SoldUnits(p) |-> <<<<u[1][1], p>>, u[2]>>]
             SoldAs(u, k, i, n) == /\ i \in ItemIndexes(k, p)
                                   /\ n \in 1 .. rows[<<k, p>>].quantity
                                   /\ <<k, p>> \in HeldKeys(p)
                                   /\ u = <<<<k, i>>, n>>
                                   /\ f[u] = <<<<k, p>>, n>>
  <2>1. ASSUME NEW u \in SoldUnits(p)
        PROVE  \E k \in Keys : \E i, n : SoldAs(u, k, i, n)
    <3>0. PICK k \in Keys : \E i \in ItemIndexes(k, p) :
             u \in {<<k, i>>} \X (1 .. orders[k].items[i].quantity)
      BY DEF SoldUnits
    <3>1. PICK i \in ItemIndexes(k, p) :
             u \in {<<k, i>>} \X (1 .. orders[k].items[i].quantity)
      BY <3>0
    <3>2. PICK n \in 1 .. orders[k].items[i].quantity : u = <<<<k, i>>, n>>
      BY <3>1
    <3>3. /\ <<k, p>> \in HeldKeys(p)
          /\ rows[<<k, p>>].quantity = orders[k].items[i].quantity
      BY LineHasRow
    <3>4. f[u] = <<<<k, p>>, n>>
      BY <3>2
    <3> HIDE DEF f
    <3>5. SoldAs(u, k, i, n)
      BY <3>2, <3>3, <3>4
    <3> HIDE DEF SoldAs
    <3>. QED BY <3>5
  <2>2. f \in [SoldUnits(p) -> HeldUnits(p)]
    <3>1. ASSUME NEW u \in SoldUnits(p) PROVE f[u] \in HeldUnits(p)
      <4> HIDE DEF f, SoldAs
      <4>1. PICK k \in Keys : \E i, n : SoldAs(u, k, i, n)
        BY <2>1
      <4>2. PICK i, n : SoldAs(u, k, i, n)
        BY <4>1
      <4>3. /\ f[u] \in {<<k, p>>} \X (1 .. rows[<<k, p>>].quantity)
            /\ <<k, p>> \in HeldKeys(p)
        BY <4>2 DEF SoldAs
      <4>. QED BY <4>3 DEF HeldUnits
    <3>. QED BY <3>1
  <2> HIDE DEF f, SoldAs
  <2>3. ASSUME NEW u \in SoldUnits(p), NEW v \in SoldUnits(p), f[u] = f[v] PROVE u = v
    <3>1. PICK k \in Keys : \E i, n : SoldAs(u, k, i, n)
      BY <2>1
    <3>2. PICK i, n : SoldAs(u, k, i, n)
      BY <3>1
    <3>3. PICK l \in Keys : \E j, m : SoldAs(v, l, j, m)
      BY <2>1
    <3>4. PICK j, m : SoldAs(v, l, j, m)
      BY <3>3
    <3>5. k = l /\ n = m
      BY <2>3, <3>2, <3>4 DEF SoldAs
    <3>6. i \in ItemIndexes(k, p) /\ j \in ItemIndexes(k, p)
      BY <3>2, <3>4, <3>5 DEF SoldAs
    <3>7. i = j
      BY <3>6, LineHasRow
    <3>. QED BY <3>2, <3>4, <3>5, <3>7 DEF SoldAs
  <2>4. f \in Injection(SoldUnits(p), HeldUnits(p))
    BY <2>2, <2>3 DEF Injection, IsInjective
  <2>5. IsFiniteSet(HeldUnits(p)) /\ available[p] + Cardinality(HeldUnits(p)) = Stock[p]
    BY DEF StockInv
  <2>6. /\ Cardinality(SoldUnits(p)) <= Cardinality(HeldUnits(p))
        /\ IsFiniteSet(SoldUnits(p))
    BY <2>4, <2>5, FS_Injection
  <2>7. /\ Cardinality(HeldUnits(p)) \in Nat /\ Cardinality(SoldUnits(p)) \in Nat
        /\ available[p] \in Nat
    BY <2>5, <2>6, FS_CardinalityType DEF Inv, TypeOK
  <2>. QED BY <2>5, <2>6, <2>7
<1>. QED BY <1>1, InvIsInvariant, CallsInvIsInvariant, OrdersAreBacked, StockInvIsInvariant, PTL
=============================================================================
