------------------------------ MODULE Catalog -------------------------------
(***************************************************************************)
(* The catalog service (backend/services/catalog) behind the gateway's     *)
(* product routes: one client walks over the listing page by page while    *)
(* products are inserted.                                                  *)
(*                                                                         *)
(* The listing is by (created_at, id), newest first, and a cursor is the   *)
(* key of the last row of a page.  Ids are compared like the numbers that  *)
(* stand for them.  Nothing in the code changes a product's key or deletes *)
(* a product; rows are inserted by the seed script, which chooses the      *)
(* value of created_at, or with the clock's.                               *)
(***************************************************************************)
EXTENDS Integers, FiniteSets

CONSTANTS
    Ids,              \* product ids
    MaxId,            \* maxUUID
    Times,            \* values of created_at and of the clock
    Hour,             \* how far ahead of the clock the listing starts
    PageSizes,        \* what clients send as page_size
    DefaultPageSize,
    MaxPageSize,
    NoCursor          \* the zero cursor, encoded as the empty string

VARIABLES
    products,   \* the rows of the table, as the keys of the listing
    now,        \* the clock of the service
    walk,       \* "idle", "reading" or "done"
    cursor,     \* next_page_cursor of the last page, or NoCursor
    seen,       \* the rows of the pages before the last one
    page,       \* the rows of the last page
    start,      \* the rows the walk could list when it began
    answer      \* the status of the last response

vars == <<products, now, walk, cursor, seen, page, start, answer>>

walkVars == <<walk, cursor, seen, page, start>>

Keys == [created : Times, id : Ids]

ASSUME CatalogAssumption ==
    /\ Ids \subseteq Nat
    /\ Times \subseteq Nat
    /\ Hour \in Nat
    /\ MaxId \in Nat /\ \A i \in Ids : i <= MaxId
    /\ PageSizes \subseteq Int
    /\ DefaultPageSize \in Nat \ {0}
    /\ MaxPageSize \in Nat /\ DefaultPageSize <= MaxPageSize
    /\ NoCursor \notin Keys

Init ==
    /\ products = {}
    /\ now \in Times
    /\ walk = "idle"
    /\ cursor = NoCursor
    /\ seen = {}
    /\ page = {}
    /\ start = {}
    /\ answer = "none"

-----------------------------------------------------------------------------
(* The rows.                                                               *)

(* r is listed before q: ORDER BY created_at DESC, id DESC. *)
Above(r, q) ==
    \/ r.created > q.created
    \/ r.created = q.created /\ r.id > q.id

BelowOrAt(c) == {r \in products : Above(c, r) \/ r = c}

(* WHERE (created_at, id) < (c.created, c.id). *)
Below(c) == {r \in products : Above(c, r)}

(* The sets that can be the first n rows of S: there is one. *)
FirstOf(S, n) ==
    {T \in SUBSET S :
        /\ \A r \in T, q \in S \ T : Above(r, q)
        /\ Cardinality(T) <= n
        /\ Cardinality(T) < n => T = S}

ListByCursor(c, limit) == FirstOf(Below(c), limit)

Insert(i, t) ==
    /\ \A r \in products : r.id # i
    /\ products' = products \union {[created |-> t, id |-> i]}
    /\ UNCHANGED <<now, answer>> /\ UNCHANGED walkVars

Tick ==
    /\ now' \in {t \in Times : t > now}
    /\ UNCHANGED <<products, answer>> /\ UNCHANGED walkVars

-----------------------------------------------------------------------------
(* The service.                                                            *)

ClampFromBelow(n) == IF n <= 0 THEN DefaultPageSize ELSE n

ClampPageSize(n) ==
    IF n <= 0 THEN DefaultPageSize ELSE IF n > MaxPageSize THEN MaxPageSize ELSE n

(* Where the first page starts: an hour ahead of the clock. *)
Sentinel == [created |-> now + Hour, id |-> MaxId]

From == IF cursor = NoCursor THEN Sentinel ELSE cursor

FetchedNoMore(n) == ListByCursor(From, n)

(* One row more than asked for tells whether there is a next page. *)
Fetched(n) == ListByCursor(From, n + 1)

(* rows[:pageSize] *)
Trimmed(rows, n) == FirstOf(rows, n)

HeadOf(rows) == {r \in rows : \A q \in rows \ {r} : Above(r, q)}

LastOf(rows) == {r \in rows : \A q \in rows \ {r} : Above(q, r)}

-----------------------------------------------------------------------------
(* The client.                                                             *)

(* The first request of a walk has no cursor. *)
Begin ==
    /\ walk # "reading"
    /\ walk' = "reading"
    /\ cursor' = NoCursor
    /\ seen' = {}
    /\ page' = {}
    /\ start' = Below(Sentinel)
    /\ UNCHANGED <<products, now, answer>>

Turn(rows, next) ==
    /\ seen' = seen \union page
    /\ page' = rows
    /\ cursor' = next
    /\ answer' = "200"
    /\ UNCHANGED <<products, now, start>>

NextPage(size) ==
    /\ walk = "reading"
    /\ LET n == ClampPageSize(size)
       IN  \E rows \in Fetched(n) :
               /\ Cardinality(rows) > n
               /\ \E kept \in Trimmed(rows, n) :
                      \E last \in LastOf(kept) : Turn(kept, last)
    /\ UNCHANGED walk

LastPage(size) ==
    /\ walk = "reading"
    /\ LET n == ClampPageSize(size)
       IN  \E rows \in Fetched(n) : Cardinality(rows) <= n /\ Turn(rows, NoCursor)
    /\ walk' = "done"

(* The statement fails: Internal, and the gateway answers 502. *)
PageFails ==
    /\ walk = "reading"
    /\ answer' = "502"
    /\ UNCHANGED <<products, now>> /\ UNCHANGED walkVars

(* A page_size that is no int32, or a cursor that does not decode. *)
PageRefused ==
    /\ walk = "reading"
    /\ answer' = "400"
    /\ UNCHANGED <<products, now>> /\ UNCHANGED walkVars

(* Opening a product: its id may be malformed, unknown, or the read fail. *)
GetProduct(i) ==
    /\ answer' \in {"400", "502",
                    IF \E r \in products : r.id = i THEN "200" ELSE "404"}
    /\ UNCHANGED <<products, now>> /\ UNCHANGED walkVars

-----------------------------------------------------------------------------
Read == \E size \in PageSizes : NextPage(size) \/ LastPage(size)

Next ==
    \/ \E i \in Ids, t \in Times : Insert(i, t)
    \/ Tick
    \/ Begin
    \/ Read
    \/ PageFails
    \/ PageRefused
    \/ \E i \in Ids : GetProduct(i)

Spec == Init /\ [][Next]_vars

(* A client that goes on reading, and reads that succeed at last. *)
FairSpec == Spec /\ WF_vars(Read)

-----------------------------------------------------------------------------
(* What the listing promises.                                              *)

(* Types.  A page is never longer than the cap, whatever size was asked    *)
(* for (clampPageSize), and a walk that goes on has the key of a row it    *)
(* was given as its cursor.                                                *)
CatalogTypeOK ==
    /\ products \in SUBSET Keys /\ IsFiniteSet(products)
    /\ now \in Times
    /\ walk \in {"idle", "reading", "done"}
    /\ cursor \in Keys \union {NoCursor}
    /\ seen \in SUBSET products
    /\ page \in SUBSET products /\ Cardinality(page) <= MaxPageSize
    /\ start \in SUBSET products
    /\ answer \in {"none", "200", "400", "404", "502"}
    /\ cursor = NoCursor \/ (walk = "reading" /\ cursor \in page)

(* A walk that has ended returned every product that was in the table, and *)
(* not dated more than an hour ahead, when it began: inserts during the    *)
(* walk, above or below its cursor or at the same created_at, and pages of *)
(* different sizes make it miss none (ADR 006).                            *)
WalkComplete == walk = "done" => start \subseteq seen \union page

(* Pages come in the order of the listing: every row of a page is listed   *)
(* below all rows of the pages before it, so that no product is returned   *)
(* twice, however the table grew in between.                               *)
PagesGoDown == \A q \in seen, r \in page : Above(q, r)

(* A client that goes on asking gets to the last page: no sequence of page *)
(* sizes, zero and negative ones included, makes the cursor stand still.   *)
WalkEnds == walk = "reading" ~> walk = "done"

=============================================================================
