----------------------------- MODULE Storefront -----------------------------
(***************************************************************************)
(* The cart in the pages of the frontend (frontend/features/cart): clicks, *)
(* the optimistic view, the server actions and the calls these make to the *)
(* cart service, which is module Cart.                                     *)
(*                                                                         *)
(* One page is looked at.  It runs its actions one after the other and     *)
(* keeps the optimistic view until all of them are done; then it shows the *)
(* cart as the last action that succeeded rendered it.  Meanwhile other    *)
(* pages write to the carts, and the session of the browser may become     *)
(* another user's.                                                         *)
(***************************************************************************)
EXTENDS Integers, Sequences

CONSTANTS
    Users, Products, MaxQuantity, Faults,   \* as in Cart
    Pending                                 \* at most so many actions wait

VARIABLES
    cart, edit,   \* as in Cart; the edit is the last call of the running action
    session,      \* the user whose session the browser is in
    view,         \* the quantities that the page shows, zero for no line
    fresh,        \* the quantities as the server last rendered them
    todo,         \* the actions that were clicked; the first one runs
    running,      \* the calls that it has still to make, and for whom
    doubt         \* the products of which the page cannot know the quantity

Carts == INSTANCE Cart WITH Edits <- {"page"}, EditCalls <- {}, Missing <- {},
                            CartFaults <- Faults

page == <<view, fresh, todo, running, doubt>>
vars == <<cart, edit, session, page>>

ASSUME StorefrontAssumption ==
    /\ Pending \in Nat \ {0} /\ MaxQuantity \in Nat \ {0}
    /\ "nobody" \notin Users

Nobody == [user |-> "nobody", calls |-> <<>>]

Nothing == [p \in Products |-> 0]

Init ==
    /\ Carts!Init
    /\ session \in Users
    /\ view = Nothing /\ fresh = Nothing
    /\ todo = <<>>
    /\ running = Nobody
    /\ doubt = {}

Quantity(u, p) ==
    IF Carts!Holds(cart[u], p)
    THEN LET i == CHOOSE j \in DOMAIN cart[u] : cart[u][j].product = p
         IN  cart[u][i].quantity
    ELSE 0

Stored(u) == [p \in Products |-> Quantity(u, p)]

Busy == running # Nobody

-----------------------------------------------------------------------------
(* Clicks.  An action is the list of calls that it will make.              *)

Call(op, p, q) == [op |-> op, product |-> p, quantity |-> q]

\* Mutant: the second call sends the difference.
ShrinkByDelta(p, before, after) == <<Call("remove", p, 0), Call("add", p, before - after)>>

\* There is no call yet, says the comment, that sets a quantity.
Shrink(p, before, after) == <<Call("remove", p, 0), Call("add", p, after)>>

\* Mutant: any other quantity is set by two calls, a larger one as well.
CallsOfTwoSteps(p, before, after) ==
    IF after <= 0 THEN <<Call("remove", p, 0)>> ELSE Shrink(p, before, after)

CallsOf(p, before, after) ==
    CASE after <= 0     -> <<Call("remove", p, 0)>>
      [] after > before -> <<Call("add", p, after - before)>>
      [] OTHER          -> Shrink(p, before, after)

Click(p, after) ==
    /\ Len(todo) < Pending
    /\ after <= MaxQuantity + 1     \* a bound: one more than a line can hold
    /\ view' = [view EXCEPT ![p] = after]
    /\ todo' = Append(todo, [product |-> p, calls |-> CallsOf(p, view[p], after)])
    /\ UNCHANGED <<cart, edit, session, fresh, running, doubt>>

\* Add to cart, plus, minus and the dustbin; the last three need the line.
Add(p)   == Click(p, view[p] + 1)
Minus(p) == view[p] > 0 /\ Click(p, view[p] - 1)
Trash(p) == view[p] > 0 /\ Click(p, 0)

-----------------------------------------------------------------------------
(* The server actions.                                                     *)

\* The action takes the session along for all its calls.
ActionStarts ==
    /\ ~Busy /\ todo # <<>>
    /\ running' = [user |-> session, calls |-> Head(todo).calls]
    /\ UNCHANGED <<cart, edit, session, view, fresh, todo, doubt>>

Request ==
    LET c == Head(running.calls)
    IN  [user |-> running.user, op |-> c.op, product |-> c.product, quantity |-> c.quantity]

Failed == edit["page"].answer \notin {"none", "ok"}

\* One call to the cart routes; a number that is no int32 does not get there.
CallMade ==
    /\ Busy /\ running.calls # <<>> /\ ~Failed
    /\ IF Request.quantity <= MaxQuantity
       THEN Carts!Handle("page", Request)
       ELSE Carts!Refuse("page", Request, "invalid")
    /\ running' = [running EXCEPT !.calls = Tail(@)]
    /\ UNCHANGED <<session, view, fresh, todo, doubt>>

\* The action is over.  After the last one the page shows what was rendered.
ActionEnds(rendered) ==
    /\ todo' = Tail(todo)
    /\ running' = Nobody
    /\ edit' = [edit EXCEPT !["page"] = Carts!NoEdit]
    /\ fresh' = rendered
    /\ view' = IF Len(todo) = 1 THEN rendered ELSE view
    /\ UNCHANGED <<cart, session>>

\* revalidatePath: the layout reads the cart again, for the same user.
ActionSucceeds ==
    /\ Busy /\ running.calls = <<>> /\ ~Failed
    /\ ActionEnds(Stored(running.user))
    /\ UNCHANGED doubt

\* getCart fails: the layout takes the cart for empty.
RenderedEmpty ==
    /\ Faults
    /\ Busy /\ running.calls = <<>> /\ ~Failed
    /\ ActionEnds(Nothing)
    /\ doubt' = Products

\* Mutant: an action that failed stays the first of the list, to be tried again.
ActionFailsAndStays ==
    /\ Busy /\ Failed
    /\ running' = Nobody
    /\ edit' = [edit EXCEPT !["page"] = Carts!NoEdit]
    /\ doubt' = doubt \union {Head(todo).product}
    /\ UNCHANGED <<cart, session, view, fresh, todo>>

\* Nothing is rendered, and the page shows what it had.
ActionFails ==
    /\ Busy /\ Failed
    /\ ActionEnds(fresh)
    /\ doubt' = doubt \union {Head(todo).product}

\* The page is loaded again.
Load(rendered) ==
    /\ todo = <<>>
    /\ view' = rendered
    /\ fresh' = rendered
    /\ UNCHANGED <<cart, edit, session, todo, running>>

Loaded == Load(Stored(session)) /\ doubt' = {}

LoadedEmpty == Faults /\ Load(Nothing) /\ doubt' = Products

-----------------------------------------------------------------------------
(* What else happens to the carts and to the browser.                      *)

\* Another page, device or checkout of u adds, changes or removes a line.
Elsewhere(u, p, q) ==
    /\ \/ /\ q > 0 /\ ~Carts!Holds(cart[u], p)
          /\ cart' = [cart EXCEPT ![u] = Append(@, Carts!Line(p, q))]
       \/ \E i \in DOMAIN cart[u] :
             /\ cart[u][i].product = p /\ cart[u][i].quantity # q
             /\ cart' = [cart EXCEPT ![u] = IF q = 0 THEN Carts!Without(@, i)
                                           ELSE [@ EXCEPT ![i].quantity = q]]
    /\ doubt' = doubt \union {p}
    /\ UNCHANGED <<edit, session, view, fresh, todo, running>>

\* Somebody else logs in; a page that is open does not notice.
Switch(u) ==
    /\ u # session
    /\ session' = u
    /\ doubt' = Products
    /\ UNCHANGED <<cart, edit, view, fresh, todo, running>>

-----------------------------------------------------------------------------
Action == ActionStarts \/ CallMade \/ ActionSucceeds \/ ActionFails

Next ==
    \/ \E p \in Products : Add(p) \/ Minus(p) \/ Trash(p)
    \/ Action \/ RenderedEmpty \/ Loaded \/ LoadedEmpty
    \/ \E u \in Users, p \in Products, q \in 0 .. MaxQuantity : Elsewhere(u, p, q)
    \/ \E u \in Users : Switch(u)

Spec == Init /\ [][Next]_vars

\* Actions run and their calls return.
FairSpec == Spec /\ WF_vars(Action)

-----------------------------------------------------------------------------
(* What the page promises.                                                 *)

\* Types.  No cart holds a line without a quantity, and no line twice.
StorefrontTypeOK ==
    /\ session \in Users
    /\ cart \in [Users -> Seq([product : Products, quantity : 1 .. MaxQuantity])]
    /\ \A u \in Users : \A i, j \in DOMAIN cart[u] :
          cart[u][i].product = cart[u][j].product => i = j
    /\ view \in [Products -> 0 .. MaxQuantity + 1]
    /\ fresh \in [Products -> 0 .. MaxQuantity]
    /\ Len(todo) <= Pending
    /\ running.user \in Users \union {"nobody"}
    /\ doubt \in SUBSET Products

\* The optimistic view is what becomes of the cart: when the actions that were
\* clicked are done, each line in which no failed action, other page or other
\* session had a part has the quantity the page showed before, in the page and
\* in the cart, although shrinking a line takes two calls (actions.ts:78).
OptimismConfirmed ==
    [][todo # <<>> /\ todo' = <<>> =>
          \A p \in Products \ doubt' :
              view'[p] = view[p] /\ view[p] = Quantity(session, p)]_vars

\* What a call makes of a line of n units, none for no line.
Result(n, call) == IF call.op = "remove" THEN 0 ELSE n + call.quantity

\* What the calls of an action, one or two of them, are to make of it.
Goal(n, calls) ==
    IF Len(calls) = 1 THEN Result(n, calls[1]) ELSE Result(Result(n, calls[1]), calls[2])

\* The atomicity contract of actions.ts:52.  An action that failed has done nothing
\* or, when only its answer was lost, all it was to do; what it may leave besides
\* is a line cleared, and that only if the line was to shrink.  (A line in doubt is
\* one in which another failed action, page or session had a part as well.)
FailureIsContained ==
    [][Busy /\ Failed /\ running' = Nobody =>
          LET p == Head(todo).product
              was == fresh[p]
              goal == Goal(was, Head(todo).calls)
              now == Quantity(session, p)
          IN  p \in doubt \/ now \in {was, goal} \/ (now = 0 /\ goal <= was)]_vars

\* As long as actions wait, the first one leaves the list, again and again: each
\* action that was clicked has its turn and is settled, whether those before it
\* succeeded or failed.
ClicksAreSettled ==
    []<>(todo = <<>>) \/ []<><<todo # <<>> /\ todo' = Tail(todo)>>_todo
=============================================================================
