--------------------------- MODULE CatalogProofs ----------------------------
(***************************************************************************)
(* What is proved about Catalog for every set of products, times and page  *)
(* sizes.  The inductive invariant is Frontier: the cursor divides the     *)
(* rows a walk began with into those it was given and those still below.   *)
(***************************************************************************)
EXTENDS Catalog, FiniteSetTheorems, TLAPS

(* The cursor is the last row given, and nothing that was there at the     *)
(* start has been passed over.                                             *)
Frontier ==
    /\ walk = "reading" =>
           /\ \A r \in start : r \in seen \union page \/ Above(From, r)
           /\ IF cursor = NoCursor THEN seen \union page = {}
              ELSE \A r \in seen \union page : r = cursor \/ Above(r, cursor)
    /\ WalkComplete

WalkInv == CatalogTypeOK /\ PagesGoDown /\ Frontier

-----------------------------------------------------------------------------
(* The order of the listing is transitive on keys. *)
LEMMA AboveTransitive ==
    ASSUME NEW a \in [created : Nat, id : Nat], NEW b \in [created : Nat, id : Nat],
           NEW c \in [created : Nat, id : Nat], Above(a, b), Above(b, c)
    PROVE  Above(a, c)
BY DEF Above

(* clampPageSize gives a size between one and the cap. *)
LEMMA ClampInRange ==
    ASSUME NEW n \in PageSizes
    PROVE  ClampPageSize(n) \in Nat /\ ClampPageSize(n) > 0 /\ ClampPageSize(n) <= MaxPageSize
<1>1. n \in Int
  BY CatalogAssumption
<1> QED
  BY <1>1, CatalogAssumption DEF ClampPageSize

(* A row that the trimmed page leaves out is below every row of the page.  *)
LEMMA PageIsOnTop ==
    ASSUME NEW S, NEW m, NEW n, NEW rows \in FirstOf(S, m), NEW kept \in FirstOf(rows, n)
    PROVE  /\ kept \subseteq rows /\ rows \subseteq S
           /\ \A q \in kept, r \in S \ kept : Above(q, r)
BY DEF FirstOf

LEMMA KeysAreNumbers == Keys \subseteq [created : Nat, id : Nat]
BY CatalogAssumption DEF Keys

(* The clock only moves the start of the listing further ahead. *)
LEMMA FromIsAhead ==
    ASSUME CatalogTypeOK, now' \in Times, now' > now, cursor' = cursor,
           NEW r \in products, Above(From, r)
    PROVE  Above(From', r)
<1>1. CASE cursor = NoCursor
  <2>1. now \in Nat /\ now' \in Nat /\ Hour \in Nat
    BY CatalogAssumption DEF CatalogTypeOK
  <2>2. r.created \in Nat /\ r.id \in Nat
    BY KeysAreNumbers DEF CatalogTypeOK
  <2>3. now + Hour > r.created \/ now + Hour = r.created
    BY <1>1 DEF From, Sentinel, Above
  <2>4. now' + Hour > r.created
    BY <2>1, <2>2, <2>3
  <2> QED
    BY <1>1, <2>4 DEF From, Sentinel, Above
<1>2. CASE cursor # NoCursor
  BY <1>2 DEF From, Above
<1> QED
  BY <1>1, <1>2

(* The rows below the start of a page come after everything given so far. *)
LEMMA PageIsBelow ==
    ASSUME WalkInv, walk = "reading", NEW r \in Below(From), NEW q \in seen \union page
    PROVE  Above(q, r)
<1>1. cursor # NoCursor /\ (q = cursor \/ Above(q, cursor))
  BY DEF WalkInv, Frontier
<1>2. Above(cursor, r) /\ r \in products
  BY <1>1 DEF Below, From
<1>3. cursor \in Keys /\ q \in Keys /\ r \in Keys
  BY <1>1, <1>2 DEF WalkInv, CatalogTypeOK
<1> QED
  BY <1>1, <1>2, <1>3, KeysAreNumbers, AboveTransitive

-----------------------------------------------------------------------------
LEMMA NextPageKeepsInv ==
    ASSUME WalkInv, NEW size \in PageSizes, NextPage(size)
    PROVE  WalkInv'
<1> DEFINE n == ClampPageSize(size)
<1>0. PICK rows \in Fetched(n) : \E T \in Trimmed(rows, n) : \E last \in LastOf(T) : Turn(T, last)
  BY DEF NextPage
<1>1. PICK kept \in Trimmed(rows, n) : \E last \in LastOf(kept) : Turn(kept, last)
  BY <1>0
<1>2. PICK last \in LastOf(kept) : Turn(kept, last)
  BY <1>1
<1>3. walk = "reading" /\ walk' = "reading"
  BY DEF NextPage
<1>4. /\ seen' = seen \union page /\ page' = kept /\ cursor' = last /\ answer' = "200"
      /\ products' = products /\ now' = now /\ start' = start
  BY <1>2 DEF Turn
<1>5. /\ kept \subseteq Below(From)
      /\ \A q \in kept, r \in Below(From) \ kept : Above(q, r)
  BY <1>1, PageIsOnTop DEF Fetched, ListByCursor, Trimmed
<1>6. last \in kept /\ \A q \in kept \ {last} : Above(q, last)
  BY <1>2 DEF LastOf
<1>7. kept \subseteq products /\ last \in Keys /\ last # NoCursor
  BY <1>5, <1>6, CatalogAssumption DEF Below, WalkInv, CatalogTypeOK
<1>8. CatalogTypeOK'
  <2>1. Cardinality(kept) <= n
    BY <1>1 DEF Trimmed, FirstOf
  <2>2. Cardinality(kept) <= MaxPageSize
    <3>1. kept \in SUBSET products /\ IsFiniteSet(products)
      BY <1>7 DEF WalkInv, CatalogTypeOK
    <3>2. Cardinality(kept) \in Nat
      BY <3>1, FS_Subset, FS_CardinalityType
    <3> QED
      BY <2>1, <3>2, ClampInRange, CatalogAssumption
  <2> QED
    BY <1>3, <1>4, <1>6, <1>7, <2>2 DEF WalkInv, CatalogTypeOK
<1>9. PagesGoDown'
  BY <1>3, <1>4, <1>5, PageIsBelow DEF PagesGoDown
<1>10. Frontier'
  <2>1. From' = last
    BY <1>4, <1>7 DEF From
  <2>2. ASSUME NEW r \in start
        PROVE  r \in seen' \union page' \/ Above(last, r)
    <3>1. CASE r \in seen \union page
      BY <1>4, <3>1
    <3>2. CASE Above(From, r)
      <4>1. r \in Below(From)
        BY <3>2 DEF Below, WalkInv, CatalogTypeOK
      <4> QED
        BY <1>4, <1>5, <1>6, <4>1
    <3> QED
      BY <1>3, <3>1, <3>2 DEF WalkInv, Frontier
  <2>3. ASSUME NEW r \in seen' \union page'
        PROVE  r = last \/ Above(r, last)
    BY <1>3, <1>4, <1>5, <1>6, PageIsBelow
  <2> QED
    BY <1>3, <1>4, <1>7, <2>1, <2>2, <2>3 DEF Frontier, WalkComplete
<1> QED
  BY <1>8, <1>9, <1>10 DEF WalkInv

LEMMA LastPageKeepsInv ==
    ASSUME WalkInv, NEW size \in PageSizes, LastPage(size)
    PROVE  WalkInv'
<1> DEFINE n == ClampPageSize(size)
<1>1. PICK rows \in Fetched(n) : Cardinality(rows) <= n /\ Turn(rows, NoCursor)
  BY DEF LastPage
<1>2. walk = "reading" /\ walk' = "done"
  BY DEF LastPage
<1>3. /\ seen' = seen \union page /\ page' = rows /\ cursor' = NoCursor /\ answer' = "200"
      /\ products' = products /\ now' = now /\ start' = start
  BY <1>1 DEF Turn
<1>4. n \in Nat /\ n <= MaxPageSize
  BY ClampInRange
<1>5. rows \subseteq Below(From) /\ Below(From) \subseteq products
  BY <1>1 DEF Fetched, ListByCursor, FirstOf, Below
<1>6. Cardinality(rows) \in Nat
  <2>1. rows \in SUBSET products /\ IsFiniteSet(products)
    BY <1>5 DEF WalkInv, CatalogTypeOK
  <2> QED
    BY <2>1, FS_Subset, FS_CardinalityType
<1>7. Cardinality(rows) < n + 1
  BY <1>1, <1>4, <1>6
<1>8. rows = Below(From)
  BY <1>1, <1>7 DEF Fetched, ListByCursor, FirstOf
<1>9. CatalogTypeOK'
  <2>1. Cardinality(rows) <= MaxPageSize
    BY <1>1, <1>4, <1>6, CatalogAssumption
  <2> QED
    BY <1>2, <1>3, <1>5, <2>1 DEF WalkInv, CatalogTypeOK
<1>10. PagesGoDown'
  BY <1>2, <1>3, <1>5, PageIsBelow DEF PagesGoDown
<1>11. Frontier'
  <2>1. ASSUME NEW r \in start
        PROVE  r \in seen' \union page'
    <3>1. r \in seen \union page \/ Above(From, r)
      BY <1>2 DEF WalkInv, Frontier
    <3> QED
      BY <1>3, <1>8, <3>1 DEF Below, WalkInv, CatalogTypeOK
  <2> QED
    BY <1>2, <1>3, <2>1 DEF Frontier, WalkComplete
<1> QED
  BY <1>9, <1>10, <1>11 DEF WalkInv

-----------------------------------------------------------------------------
(* The steps that give no page leave the walk alone. *)
LEMMA InsertKeepsInv ==
    ASSUME WalkInv, NEW i \in Ids, NEW t \in Times, Insert(i, t)
    PROVE  WalkInv'
<1>1. [created |-> t, id |-> i] \in Keys
  BY DEF Keys
<1>2. products' \in SUBSET Keys /\ products \subseteq products'
  BY <1>1 DEF Insert, WalkInv, CatalogTypeOK
<1>3. IsFiniteSet(products')
  BY FS_AddElement DEF Insert, WalkInv, CatalogTypeOK
<1>4. CatalogTypeOK'
  BY <1>2, <1>3 DEF Insert, walkVars, WalkInv, CatalogTypeOK
<1>5. PagesGoDown' /\ Frontier'
  BY DEF Insert, walkVars, WalkInv, PagesGoDown, Frontier, WalkComplete, From, Sentinel, Above
<1> QED
  BY <1>4, <1>5 DEF WalkInv

LEMMA TickKeepsInv ==
    ASSUME WalkInv, Tick
    PROVE  WalkInv'
<1>1. CatalogTypeOK' /\ PagesGoDown'
  BY DEF Tick, walkVars, WalkInv, CatalogTypeOK, PagesGoDown
<1>2. ASSUME NEW r \in start, Above(From, r)
      PROVE  Above(From', r)
  BY <1>2, FromIsAhead DEF Tick, walkVars, WalkInv, CatalogTypeOK
<1>3. Frontier'
  BY <1>2 DEF Tick, walkVars, WalkInv, Frontier, WalkComplete
<1> QED
  BY <1>1, <1>3 DEF WalkInv

LEMMA BeginKeepsInv ==
    ASSUME WalkInv, Begin
    PROVE  WalkInv'
<1>1. Cardinality({}) <= MaxPageSize
  BY FS_EmptySet, CatalogAssumption
<1>2. CatalogTypeOK'
  BY <1>1 DEF Begin, WalkInv, CatalogTypeOK, Below
<1>3. PagesGoDown' /\ Frontier'
  BY DEF Begin, PagesGoDown, Frontier, WalkComplete, From, Sentinel, Below, Above
<1> QED
  BY <1>2, <1>3 DEF WalkInv

LEMMA WalkInvIsInductive == WalkInv /\ [Next]_vars => WalkInv'
<1> SUFFICES ASSUME WalkInv, [Next]_vars
             PROVE  WalkInv'
  OBVIOUS
<1>1. ASSUME NEW size \in PageSizes, NextPage(size) \/ LastPage(size)
      PROVE  WalkInv'
  BY <1>1, NextPageKeepsInv, LastPageKeepsInv
<1>2. ASSUME PageFails \/ PageRefused \/ \E i \in Ids : GetProduct(i)
      PROVE  WalkInv'
  BY <1>2 DEF PageFails, PageRefused, GetProduct, walkVars, WalkInv, CatalogTypeOK,
              PagesGoDown, Frontier, WalkComplete, From, Sentinel
<1>3. CASE UNCHANGED vars
  BY <1>3 DEF vars, WalkInv, CatalogTypeOK, PagesGoDown, Frontier, WalkComplete, From, Sentinel
<1> QED
  BY <1>1, <1>2, <1>3, InsertKeepsInv, TickKeepsInv, BeginKeepsInv DEF Next, Read

LEMMA WalkInvHolds == Spec => []WalkInv
<1>1. Init => WalkInv
  BY FS_EmptySet, CatalogAssumption
     DEF Init, WalkInv, CatalogTypeOK, PagesGoDown, Frontier, WalkComplete
<1> QED
  BY <1>1, WalkInvIsInductive, PTL DEF Spec

-----------------------------------------------------------------------------
(* The types, and with them the cap on the length of a page and that a     *)
(* cursor is the key of a row on the page it came with.                    *)
THEOREM CatalogTypeCorrect == Spec => []CatalogTypeOK
<1>1. WalkInv => CatalogTypeOK
  BY DEF WalkInv
<1> QED
  BY <1>1, WalkInvHolds, PTL

(* A walk that has ended missed no product that was there when it began,   *)
(* for any inserts meanwhile and any page sizes.                           *)
THEOREM WalksAreComplete == Spec => []WalkComplete
<1>1. WalkInv => WalkComplete
  BY DEF WalkInv, Frontier
<1> QED
  BY <1>1, WalkInvHolds, PTL

(* No product comes twice in a walk, and pages come newest first. *)
THEOREM PagesDescend == Spec => []PagesGoDown
<1>1. WalkInv => PagesGoDown
  BY DEF WalkInv
<1> QED
  BY <1>1, WalkInvHolds, PTL

=============================================================================
