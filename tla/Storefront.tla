----------------------------- MODULE Storefront -----------------------------
(***************************************************************************)
(* The public reads of the catalog, apps/products/selectors.py, while the  *)
(* catalog changes under them.                                             *)
(*                                                                         *)
(* No read runs in a transaction, so every statement of a request sees the *)
(* catalog as it is by then.  A visit is one facets, index or detail       *)
(* request, or a walk through the pages of the grid, and takes one action  *)
(* per statement.  A write is a commit of the seller's calls, which        *)
(* Catalog models.  A category is named by its slug: slugs are unique in a *)
(* store, and a product's category is one of its own store.                *)
(***************************************************************************)
EXTENDS Integers, Sequences, FiniteSets, SequencesExt

CONSTANTS
  Products, Stores, Shelves, Values, Words, Prices,
  Sheet,      \* per product, what no update changes
  Axis,       \* per name of a variant group, the axis it names when case is ignored
  Split,      \* per value, what _multi makes of it: itself, unless it holds commas or outer blanks
  Stamps,     \* what the clock may say when a product is inserted
  Catalogs,   \* the catalogs that a visit may start from
  Patches,    \* what an update may change
  Requests,   \* what a visitor may ask for
  MaxPage,    \* _MAX_PAGE: 60 in the code
  MaxWrites,  \* bound on the writes during a visit
  None

Options == [group: DOMAIN Axis, value: Values, hex: Nat]
Sheets == [store: Stores, images: Nat, options: SUBSET Options]
\* new: not yet created; bare: there without its images and variants; gone: deleted
Rows == [visible: BOOLEAN, featured: BOOLEAN, price: Prices, category: Shelves,
         words: SUBSET Words, stamp: Nat, state: {"new", "whole", "bare", "gone"}]
Filters == [category: Shelves \cup {None}, colours: SUBSET Values, sizes: SUBSET Values,
            min: Prices \cup {None}, max: Prices \cup {None}, q: Words \cup {None}]
Asks == [kind: {"page", "facets", "index", "detail"}, store: Stores \cup {None}, filter: Filters,
         sort: {"newest", "price_asc", "price_desc", "featured", "unknown"},
         limit: Int, offset: Int, product: Products]

\* the sub-tables that a detail page is prefetched from, in that order
Parts == <<"images", "groups", "options", "swatches">>
Opening == [page |-> "count", facets |-> "ids", index |-> "tally", detail |-> "row"]
Ends == {"done", "missing"}

FacetRows == [value: Values, n: Nat \ {0}, hex: Nat]
Cards == [n: Nat, cover: Products \cup {None}]

ASSUME StorefrontAssumption ==
  /\ IsFiniteSet(Products)
  /\ Axis \in [DOMAIN Axis -> {"colour", "size", "other"}]
  /\ Split \in [Values -> SUBSET Values]
  /\ Sheet \in [Products -> Sheets]
  /\ \A p \in Products : IsFiniteSet(Sheet[p].options)
  /\ Catalogs \subseteq [Products -> Rows]
  /\ Prices \subseteq Nat /\ Stamps \subseteq Nat
  /\ \A f \in Patches : /\ DOMAIN f \subseteq {"visible", "featured", "price", "category", "words"}
                        /\ {f[i] : i \in DOMAIN f \cap {"visible", "featured"}} \subseteq BOOLEAN
                        /\ "price" \in DOMAIN f => f["price"] \in Prices
                        /\ "category" \in DOMAIN f => f["category"] \in Shelves
                        /\ "words" \in DOMAIN f => f["words"] \subseteq Words
  /\ Requests \subseteq Asks
  /\ MaxPage \in Nat \ {0} /\ MaxWrites \in Nat
  /\ None \notin Products \cup Stores \cup Shelves \cup Words \cup Prices \cup Asks
             \cup [lo: Prices, hi: Prices]

VARIABLES
  product,         \* the committed rows of the products
  stage, request,  \* the visitor's next statement, and what it asked for
  found,           \* what its statements returned
  change,          \* history: what the writes did since the visit began
  writes

vars == <<product, stage, request, found, change, writes>>

Blank == [ids |-> {}, span |-> None, categories |-> {}, colours |-> {}, sizes |-> {},
          offset |-> 0, count |-> 0, page |-> <<>>, given |-> <<>>,
          todo |-> Shelves, cards |-> [k \in Shelves |-> [n |-> 0, cover |-> None]], parts |-> {}]

\* the products written; those that left, joined or moved in what the visitor asked for; those
\* that joined or moved since its last count; and those that left and were inserted again
Still == [touched |-> {}, left |-> {}, joined |-> {}, late |-> {}, again |-> {}]

-----------------------------------------------------------------------------
(* Queries *)

Exists(p) == product[p].state \in {"whole", "bare"}

\* the variant options, and the images, that are there for p
OptionsOf(p) == IF product[p].state = "whole" THEN Sheet[p].options ELSE {}
ImagesOf(p) == IF product[p].state = "whole" THEN Sheet[p].images ELSE 0

\* mutant: the value is looked for in any group of the product
Carries_AnyGroup(p, axis, v) == \E o \in OptionsOf(p) : o.value = v

\* a filter() on a group's name and its options' value: both of one group
Carries(p, axis, v) == \E o \in OptionsOf(p) : Axis[o.group] = axis /\ o.value = v

OnDisplay(p, store) == Sheet[p].store = store /\ Exists(p) /\ product[p].visible

\* _multi: what the chosen values are searched as, once they have been joined with commas
Multi(chosen) == UNION {Split[v] : v \in chosen}

\* _filtered: OR within an axis, AND across axes
Matches(p, store, f) ==
  /\ OnDisplay(p, store)
  /\ f.category # None => product[p].category = f.category
  /\ Multi(f.colours) # {} => \E v \in Multi(f.colours) : Carries(p, "colour", v)
  /\ Multi(f.sizes) # {} => \E v \in Multi(f.sizes) : Carries(p, "size", v)
  /\ f.min # None => product[p].price >= f.min
  /\ f.max # None => product[p].price <= f.max
  /\ f.q # None => f.q \in product[p].words

Filtered(store, f) == {p \in Products : Matches(p, store, f)}
Shown(p) == Matches(p, request.store, request.filter)
Result == Filtered(request.store, request.filter)

\* _SORTS: a first key, unless newest, and then the newest first
SortKey(p) ==
  CASE request.sort = "price_asc" -> product[p].price
    [] request.sort = "price_desc" -> 0 - product[p].price
    [] request.sort = "featured" /\ product[p].featured -> 0
    [] OTHER -> 1

\* mutant: the second key is forgotten
Precedes_OneKey(p, q) == SortKey(p) < SortKey(q)

Precedes(p, q) ==
  \/ SortKey(p) < SortKey(q)
  \/ SortKey(p) = SortKey(q) /\ product[p].stamp > product[q].stamp

\* the lists that order_by may return: products with equal keys come in any order
Listings(S) == {l \in SetToSeqs(S) : \A i, j \in DOMAIN l : Precedes(l[i], l[j]) => i < j}

\* mutant: the page size is taken as it comes
Limit_Unclamped == request.limit

Limit == Max({1, Min({request.limit, MaxPage})})

-----------------------------------------------------------------------------
Init ==
  /\ product \in Catalogs
  /\ stage = "idle"
  /\ request = None
  /\ found = Blank
  /\ change = Still
  /\ writes = 0

Goto(s) == stage' = s /\ UNCHANGED <<product, request, writes>>

\* every route looks its store up first
Visit ==
  /\ stage = "idle"
  /\ \E r \in Requests :
       /\ request' = r
       /\ stage' = IF r.store = None THEN "missing" ELSE Opening[r.kind]
       /\ found' = [Blank EXCEPT !.offset = Max({0, r.offset})]
  /\ UNCHANGED <<product, change, writes>>

-----------------------------------------------------------------------------
(* GET .../facets: product_facets *)

FindIds ==
  /\ stage = "ids"
  /\ found' = [found EXCEPT !.ids = Result]
  /\ Goto("span") /\ UNCHANGED change

Span ==
  /\ stage = "span"
  /\ LET prices == {product[p].price : p \in {q \in found.ids : Exists(q)}} IN
       found' = [found EXCEPT !.span = IF prices = {} THEN None
                                       ELSE [lo |-> Min(prices), hi |-> Max(prices)]]
  /\ Goto("categories") /\ UNCHANGED change

\* mutant: all products of the category are counted
InCategory_All(ids, k) == {p \in Products : OnDisplay(p, request.store) /\ product[p].category = k}

InCategory(ids, k) == {p \in ids : Exists(p) /\ product[p].category = k}

CountCategories ==
  /\ stage = "categories"
  /\ found' = [found EXCEPT !.categories =
                 {[category |-> k, n |-> Cardinality(InCategory(found.ids, k))] :
                    k \in {z \in Shelves : InCategory(found.ids, z) # {}}}]
  /\ Goto("colours") /\ UNCHANGED change

\* .values("value"): what goes into one facet
SameFacet(o, z) == o.value = z.value

\* the products and options that the facets of an axis are counted from
Tagged(axis) ==
  UNION {{<<p, o>> : o \in {z \in OptionsOf(p) : Axis[z.group] = axis}} : p \in found.ids}

\* one facet: its value, how many products have it, one of its swatches
FacetOf(r, rows) ==
  LET alike == {z \in rows : SameFacet(r[2], z[2])} IN
  [value |-> r[2].value, n |-> Cardinality({z[1] : z \in alike}), hex |-> Max({z[2].hex : z \in alike})]

FacetsOn(axis) == {FacetOf(r, Tagged(axis)) : r \in Tagged(axis)}

CountColours ==
  /\ stage = "colours"
  /\ found' = [found EXCEPT !.colours = FacetsOn("colour")]
  /\ Goto("sizes") /\ UNCHANGED change

CountSizes ==
  /\ stage = "sizes"
  /\ found' = [found EXCEPT !.sizes = {[value |-> r.value, n |-> r.n, hex |-> 0] : r \in FacetsOn("size")}]
  /\ Goto("done") /\ UNCHANGED change

-----------------------------------------------------------------------------
(* GET .../products: count(), then the slice; the prefetch of its images is left out.  The  *)
(* visitor asks for the next page while the answered count, offset and limit promise one.   *)

CountPage ==
  /\ stage = "count"
  /\ found' = [found EXCEPT !.count = Cardinality(Result)]
  /\ change' = [change EXCEPT !.late = {}]
  /\ Goto("slice")

SlicePage ==
  /\ stage = "slice"
  /\ \E l \in Listings(Result) :
       LET next == found.offset + Limit
           page == SubSeq(l, found.offset + 1, Min({next, Len(l)})) IN
       /\ found' = [found EXCEPT !.page = page, !.given = @ \o page, !.offset = next]
       /\ Goto(IF next < found.count THEN "count" ELSE "done")
  /\ UNCHANGED change

-----------------------------------------------------------------------------
(* GET .../categories: one count over all categories, then a query per category *)

Tally ==
  /\ stage = "tally"
  /\ found' = [found EXCEPT !.cards = [k \in Shelves |->
       [n |-> Cardinality({p \in Products : OnDisplay(p, request.store) /\ product[p].category = k}),
        cover |-> None]]]
  /\ Goto("cover") /\ UNCHANGED change

\* mutant: hidden products may give the cover
Pictured_Hidden(k) ==
  {p \in Products : Sheet[p].store = request.store /\ ImagesOf(p) > 0 /\ product[p].category = k}

Pictured(k) == {p \in Products : OnDisplay(p, request.store) /\ ImagesOf(p) > 0 /\ product[p].category = k}

\* order_by("-product__is_featured", "-product__created_at", ...)
Outranks(p, q) ==
  \/ product[p].featured /\ ~product[q].featured
  \/ product[p].featured = product[q].featured /\ product[p].stamp > product[q].stamp

\* mutant: the covers come in any order
Foremost_Any(S) == S

Foremost(S) == {p \in S : \A q \in S : ~Outranks(q, p)}

Covered(cards, k, p) == [cards EXCEPT ![k] = [n |-> cards[k].n, cover |-> p]]

PickCover ==
  /\ stage = "cover"
  /\ \E k \in found.todo :
       /\ \/ Pictured(k) = {} /\ found' = [found EXCEPT !.todo = @ \ {k}]
          \/ \E p \in Foremost(Pictured(k)) :
               found' = [found EXCEPT !.todo = @ \ {k}, !.cards = Covered(found.cards, k, p)]
       /\ Goto(IF found.todo = {k} THEN "done" ELSE "cover")
  /\ UNCHANGED change

-----------------------------------------------------------------------------
(* GET .../products/{slug}: the row, then one prefetch per sub-table *)

FindRow ==
  /\ stage = "row"
  /\ Goto(IF OnDisplay(request.product, request.store) THEN "images" ELSE "missing")
  /\ UNCHANGED <<found, change>>

\* the sub-tables that hold rows of p
PartsOf(p) ==
  (IF ImagesOf(p) > 0 THEN {"images"} ELSE {})
  \cup (IF OptionsOf(p) # {} THEN {"groups", "options"} ELSE {})
  \cup (IF ImagesOf(p) > 0 /\ OptionsOf(p) # {} THEN {"swatches"} ELSE {})

\* mutant: the options are read before the groups
PartAfter_Lazy(s) ==
  CASE s = "images" -> "options" [] s = "options" -> "groups" [] s = "groups" -> "swatches" [] OTHER -> "done"

PartAfter(s) == IF s = "swatches" THEN "done" ELSE Parts[CHOOSE i \in 2..4 : Parts[i - 1] = s]

Prefetch ==
  /\ stage \in Range(Parts)
  /\ found' = [found EXCEPT !.parts = @ \cup (PartsOf(request.product) \cap {stage})]
  /\ Goto(PartAfter(stage)) /\ UNCHANGED change

-----------------------------------------------------------------------------
(* Commits of the seller's writes *)

Merge(row, patch) ==
  LET now(f) == IF f \in DOMAIN patch THEN patch[f] ELSE row[f] IN
  [visible |-> now("visible"), featured |-> now("featured"), price |-> now("price"),
   category |-> now("category"), words |-> now("words"), stamp |-> row.stamp, state |-> row.state]

\* what the write of p changes for the visitor
Track(p) ==
  IF stage = "idle" THEN UNCHANGED change
  ELSE LET moves == Shown(p) /\ Shown(p)' /\ SortKey(p) # SortKey(p)'
           left == IF moves \/ (Shown(p) /\ ~Shown(p)') THEN {p} ELSE {}
           joined == IF moves \/ (~Shown(p) /\ Shown(p)') THEN {p} ELSE {}
           again == {p} \cap {q \in change.left : product[q].stamp # product'[q].stamp}
       IN change' = [touched |-> change.touched \cup {p}, left |-> change.left \cup left,
                     joined |-> change.joined \cup joined, late |-> change.late \cup joined,
                     again |-> change.again \cup again]

\* nothing is asked of the catalog after the visit
Write(p, row) ==
  /\ stage \notin Ends
  /\ writes < MaxWrites
  /\ writes' = writes + 1
  /\ product' = [product EXCEPT ![p] = row]
  /\ UNCHANGED <<stage, request, found>>
  /\ Track(p)

\* the row of p when it is inserted: created_at is what the clock says (auto_now_add)
Stamped(p, state, t) == [product[p] EXCEPT !.state = state, !.stamp = t]

Create(p) == product[p].state = "new" /\ \E t \in Stamps : Write(p, Stamped(p, "whole", t))

Update(p) == Exists(p) /\ \E f \in Patches : Merge(product[p], f) # product[p] /\ Write(p, Merge(product[p], f))

Delete(p) == Exists(p) /\ Write(p, [product[p] EXCEPT !.state = "gone"])

\* a save that loaded the product before its deletion brings the row back, alone, as a new one
Restore(p) ==
  product[p].state = "gone" /\ \E f \in Patches, t \in Stamps : Write(p, Merge(Stamped(p, "bare", t), f))

-----------------------------------------------------------------------------
Facets == FindIds \/ Span \/ CountCategories \/ CountColours \/ CountSizes
Grid == CountPage \/ SlicePage
Index == Tally \/ PickCover
Detail == FindRow \/ Prefetch

Next ==
  \/ Visit \/ Facets \/ Grid \/ Index \/ Detail
  \/ \E p \in Products : Create(p) \/ Update(p) \/ Delete(p) \/ Restore(p)

Spec == Init /\ [][Next]_vars

-----------------------------------------------------------------------------
(* Properties *)

Asked(kind) == stage = "done" /\ request.kind = kind

\* Rows, requests and answers keep their shape; in particular a page is never longer than
\* the largest page, whatever limit was asked for.
TypeOK ==
  /\ product \in [Products -> Rows]
  /\ request \in Requests \cup {None}
  /\ found.ids \subseteq Products
  /\ Range(found.given) \subseteq Products
  /\ Len(found.page) <= MaxPage
  /\ found.offset \in Nat /\ found.count \in Nat
  /\ found.span # None => found.span.lo \in Prices /\ found.span.hi \in Prices
  /\ found.categories \subseteq [category: Shelves, n: Nat \ {0}]
  /\ found.colours \cup found.sizes \subseteq FacetRows
  /\ found.cards \in [Shelves -> Cards] /\ found.todo \subseteq Shelves
  /\ found.parts \subseteq Range(Parts)
  /\ change \in [DOMAIN Still -> SUBSET Products]
  /\ writes \in 0..MaxWrites

\* the products that an answer tells of
Told ==
  found.ids \cup Range(found.given) \cup ({found.cards[k].cover : k \in Shelves} \ {None})
  \cup (IF Asked("detail") THEN {request.product} ELSE {})

\* "Nothing leaks across stores": an answer tells of products of its own store only, and of
\* none that was hidden, deleted or not yet there during the whole visit.
OnlyDisplayedIsTold ==
  \A p \in Told : Sheet[p].store = request.store /\ (p \in change.touched \/ OnDisplay(p, request.store))

\* what an answer offers for value v, or category k: how many products there will be
Offer(rows, v) == IF \E r \in rows : r.value = v THEN (CHOOSE r \in rows : r.value = v).n ELSE 0
Shelf(k) ==
  IF \E r \in found.categories : r.category = k
  THEN (CHOOSE r \in found.categories : r.category = k).n ELSE 0

\* the values that can be chosen as they are
Plain == {v \in Values : Split[v] = {v}}

\* The numbers of the filter rail are those that the grid shows when the filter is set: for
\* an axis not filtered yet, choosing a category, colour or size gives as many products as
\* its facet said, what was not offered gives none, and the price range loses nothing.  A value
\* that _multi takes apart is counted, but cannot be chosen: no promise is made for it.
FacetsKeepTheirPromise ==
  Asked("facets") /\ change.touched = {} =>
    LET f == request.filter
        Size(g) == Cardinality(Filtered(request.store, g))
    IN /\ Cardinality(found.ids) = Size(f)
       /\ f.category = None => \A k \in Shelves : Shelf(k) = Size([f EXCEPT !.category = k])
       /\ Multi(f.colours) = {} =>
            \A v \in Plain : Offer(found.colours, v) = Size([f EXCEPT !.colours = {v}])
       /\ Multi(f.sizes) = {} => \A v \in Plain : Offer(found.sizes, v) = Size([f EXCEPT !.sizes = {v}])
       /\ found.span # None => Size([f EXCEPT !.min = found.span.lo, !.max = found.span.hi]) = Size(f)
       /\ found.span = None <=> Size(f) = 0

\* Whatever is written between the statements of the facets, they stay within the ids that
\* were read first: no facet is larger than the count, each product that was left alone is
\* in the price range, and is counted for its category, its colours and its sizes.
StaleValuesAreBounded ==
  Asked("facets") =>
    LET calm == found.ids \ change.touched
        In(k) == {p \in calm : product[p].category = k}
        Has(axis, v) == {p \in calm : Carries(p, axis, v)}
        all == Cardinality(found.ids)
    IN /\ \A p \in calm : found.span.lo <= product[p].price /\ product[p].price <= found.span.hi
       /\ \A k \in Shelves : Shelf(k) \in Cardinality(In(k))..all
       /\ \A v \in Values : /\ Offer(found.colours, v) \in Cardinality(Has("colour", v))..all
                            /\ Offer(found.sizes, v) \in Cardinality(Has("size", v))..all

\* one mark per product that the facet of a category counts
Marks == UNION {{k} \X (1..Shelf(k)) : k \in Shelves}

\* No product is counted in two categories, and one that was left alone is in one.
StaleShelvesAreBounded ==
  Asked("facets") =>
    Cardinality(Marks) \in Cardinality(found.ids \ change.touched)..Cardinality(found.ids)

\* Facets that are read while the catalog changes are off by no more than what was written.
StaleFacetsAreBounded == StaleValuesAreBounded /\ StaleShelvesAreBounded

\* A colour is one facet, although its products disagree on its swatch or leave it blank,
\* and spell their groups differently.
ColoursAreNotSplit == \A r, z \in found.colours : r.value = z.value => r = z

\* What the filter rail offers is what the grid has: each value once, with the number of
\* products that choosing it shows, if _multi leaves the value whole.
FacetsMatchTheGrid == FacetsKeepTheirPromise /\ ColoursAreNotSplit

Times(p) == Cardinality({i \in DOMAIN found.given : found.given[i] = p})

\* another product that is listed, or was, has the same second key
Tied(p) ==
  \E q \in Products \ {p} : product[q].stamp = product[p].stamp /\ (Shown(q) \/ q \in change.left)

\* A walk from the first page misses a product that was there all the time only when another
\* one left or moved meanwhile, or came between the count and the slice of the last page, or
\* has the very same keys.
WalkMissesOnlyAfterChange ==
  Asked("page") /\ request.offset <= 0 =>
    \A p \in Result \ change.touched :
      Times(p) = 0 => change.left # {} \/ change.late # {} \/ Tied(p)

\* A walk is given a product twice only when one came or moved meanwhile, or left and was
\* inserted again, or has its keys.
WalkRepeatsOnlyAfterArrival ==
  Asked("page") =>
    \A p \in Products : Times(p) > 1 => change.joined # {} \/ change.again # {} \/ Tied(p)

\* A walk through the pages strays, by a product too few or too many, only after a change
\* that moves the offsets, or at a tie that the ordering leaves open.
WalksStrayOnlyAfterChange == WalkMissesOnlyAfterChange /\ WalkRepeatsOnlyAfterArrival

\* The card of a category counts the products that were left alone, and its cover is no
\* worse than any of them: not missing, and not outranked by a featured or newer one.
CardsAreRepresentative ==
  Asked("index") =>
    \A k \in Shelves :
      LET card == found.cards[k]
          calm == {p \in Products \ change.touched : OnDisplay(p, request.store) /\ product[p].category = k}
      IN /\ card.n >= Cardinality(calm)
         /\ \A p \in calm : ImagesOf(p) > 0 =>
              card.cover # None /\ (card.cover \notin change.touched => ~Outranks(p, card.cover))

\* A detail page is torn only by a deletion, and only once: what comes first is there, what
\* comes later is not, so no page has options without the groups that they belong to.
DetailTearsOnce ==
  Asked("detail") =>
    /\ request.product \notin change.touched => found.parts = PartsOf(request.product)
    /\ "options" \in found.parts => "groups" \in found.parts
    /\ "swatches" \in found.parts => {"images", "options"} \subseteq found.parts
=============================================================================
