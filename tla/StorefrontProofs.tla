-------------------------- MODULE StorefrontProofs --------------------------
(***************************************************************************)
(* Theorems about Storefront, for every catalog, every request, any number *)
(* of writes during a visit and any size of a page.                        *)
(*                                                                         *)
(* Each kind of visit has a part of the invariant that says what its       *)
(* answers still have to do with the catalog after the writes so far:      *)
(* ToldInv (any), FacetsInv while nothing was written and StaleInv and     *)
(* ShelvesInv otherwise (facets), CardsInv (index) and DetailInv (detail). *)
(***************************************************************************)
EXTENDS Storefront, FiniteSetTheorems, FunctionTheorems, WellFoundedInduction, TLAPS

-----------------------------------------------------------------------------
(* Least and largest numbers of a set *)

LEMMA LeastNatural ==
  ASSUME NEW S \in SUBSET Nat, S # {}
  PROVE  \E x \in S : \A y \in S : x <= y
<1>1. PICK x \in S : \A y \in S : ~(<<y, x>> \in OpToRel(<, Nat))
  BY NatLessThanWellFounded, WFMin
<1>2. \A y \in S : ~(y < x)
  BY <1>1 DEF OpToRel
<1>3. QED  BY <1>2

LEMMA MinOfNaturals ==
  ASSUME NEW S \in SUBSET Nat, S # {}
  PROVE  Min(S) \in S /\ \A y \in S : Min(S) <= y
  BY LeastNatural DEF Min

LEMMA MaxOfNaturals ==
  ASSUME NEW S \in SUBSET Nat, S # {}, IsFiniteSet(S)
  PROVE  Max(S) \in S /\ \A y \in S : y <= Max(S)
<1>1. PICK n \in Nat : \E f \in [1..n -> S] : \A x \in S : \E i \in 1..n : f[i] = x
  <2>1. ExistsBijection(1..Cardinality(S), S) /\ Cardinality(S) \in Nat
    BY FS_CardinalityType
  <2>2. QED  BY <2>1 DEF ExistsBijection, Bijection, Surjection
<1>0. PICK f \in [1..n -> S] : \A x \in S : \E i \in 1..n : f[i] = x
  BY <1>1
<1> DEFINE J == {j \in Nat : j <= n /\ \E x \in S : \A i \in 1..(n - j) : f[i] <= x}
<1>2. n \in J
  <2>1. n \in Nat /\ n <= n /\ \A i \in 1..(n - n) : FALSE
    OBVIOUS
  <2>2. QED  BY <2>1
<1>3. PICK j \in J : \A k \in J : j <= k
  BY <1>2, LeastNatural
<1>4. PICK x \in S : \A i \in 1..(n - j) : f[i] <= x
  OBVIOUS
<1>5. j \in Nat /\ j <= n /\ n \in Nat /\ x \in Nat /\ \A i \in 1..n : f[i] \in S /\ f[i] \in Nat
  OBVIOUS
<1>6. ASSUME j # 0 PROVE FALSE
  <2> DEFINE m == n - j + 1
  <2>1. m \in 1..n /\ j - 1 \in Nat /\ j - 1 <= n /\ ~(j <= j - 1)
    BY <1>5, <1>6
  <2>2. PICK y \in S : y >= x /\ y >= f[m]
    <3>1. f[m] \in S /\ f[m] \in Nat
      BY <1>5, <2>1
    <3>2. CASE x >= f[m]
      BY <1>5, <3>2
    <3>3. CASE f[m] >= x
      BY <3>1, <3>3
    <3>4. QED  BY <1>5, <3>1, <3>2, <3>3
  <2>3. ASSUME NEW i \in 1..(n - (j - 1)) PROVE f[i] <= y
    <3>1. y \in Nat /\ i \in 1..n /\ (i \in 1..(n - j) \/ i = m)
      BY <1>5, <2>1
    <3>2. f[i] \in Nat
      BY <1>5, <3>1
    <3>3. QED  BY <1>4, <1>5, <2>2, <3>1, <3>2
  <2>4. j - 1 \in J
    BY <2>1, <2>3
  <2> HIDE DEF J, m
  <2>5. QED  BY <1>3, <2>1, <2>4
<1>7. \A y \in S : y <= x
  BY <1>0, <1>4, <1>5, <1>6
<1>8. QED  BY <1>7 DEF Max

LEMMA MaxOfTwo ==
  ASSUME NEW a \in Int, NEW b \in Int
  PROVE  Max({a, b}) \in {a, b} /\ Max({a, b}) >= a /\ Max({a, b}) >= b
<1>1. \E x \in {a, b} : \A y \in {a, b} : x >= y
  OBVIOUS
<1>2. QED  BY <1>1 DEF Max

LEMMA MinOfTwo ==
  ASSUME NEW a \in Int, NEW b \in Int
  PROVE  Min({a, b}) \in {a, b} /\ Min({a, b}) <= a /\ Min({a, b}) <= b
<1>1. \E x \in {a, b} : \A y \in {a, b} : x <= y
  OBVIOUS
<1>2. QED  BY <1>1 DEF Min

-----------------------------------------------------------------------------
(* The state of a visit *)

StagesOf == [page |-> {"count", "slice"}, facets |-> {"ids", "span", "categories", "colours", "sizes"},
             index |-> {"tally", "cover"}, detail |-> {"row", "images", "groups", "options", "swatches"}]

Found ==
  [ids: SUBSET Products, span: [lo: Prices, hi: Prices] \cup {None},
   categories: SUBSET [category: Shelves, n: Nat \ {0}], colours: SUBSET FacetRows, sizes: SUBSET FacetRows,
   offset: Nat, count: Nat, page: Seq(Products), given: Seq(Products),
   todo: SUBSET Shelves, cards: [Shelves -> Cards], parts: SUBSET {"images", "groups", "options", "swatches"}]

Changes == [touched: SUBSET Products, left: SUBSET Products, joined: SUBSET Products, late: SUBSET Products,
            again: SUBSET Products]

\* What has been asked decides what is read next.
VisitInv ==
  /\ \/ stage = "idle" /\ request = None /\ found = Blank /\ change = Still
     \/ request \in Requests /\ stage \in Ends \cup StagesOf[request.kind]
  /\ product \in [Products -> Rows]
  /\ found \in Found /\ Len(found.page) <= MaxPage
  /\ change \in Changes
  /\ writes \in 0..MaxWrites

LEMMA Constants ==
  /\ IsFiniteSet(Products) /\ \A p \in Products : IsFiniteSet(Sheet[p].options)
  /\ Sheet \in [Products -> Sheets] /\ Catalogs \subseteq [Products -> Rows] /\ Prices \subseteq Nat
  /\ Stamps \subseteq Nat /\ Split \in [Values -> SUBSET Values]
  /\ Requests \subseteq Asks /\ MaxPage \in Nat \ {0} /\ MaxWrites \in Nat
  /\ None \notin Products /\ None \notin Requests /\ None \notin [lo: Prices, hi: Prices]
  /\ None \notin Shelves /\ None \notin Prices
  BY StorefrontAssumption DEF StorefrontAssumption

LEMMA PartsAre == Range(Parts) = {"images", "groups", "options", "swatches"}
  BY DEF Parts, Range

LEMMA PartsFollow ==
  /\ PartAfter("images") = "groups" /\ PartAfter("groups") = "options"
  /\ PartAfter("options") = "swatches" /\ PartAfter("swatches") = "done"
<1>1. Parts[1] = "images" /\ Parts[2] = "groups" /\ Parts[3] = "options" /\ Parts[4] = "swatches"
  BY DEF Parts
<1>2. \A i \in 2..4 : i = 2 \/ i = 3 \/ i = 4
  OBVIOUS
<1>3. /\ Parts[2 - 1] = "images" /\ Parts[3 - 1] = "groups" /\ Parts[4 - 1] = "options"
  BY <1>1
<1>4. /\ (CHOOSE i \in 2..4 : Parts[i - 1] = "images") = 2
      /\ (CHOOSE i \in 2..4 : Parts[i - 1] = "groups") = 3
      /\ (CHOOSE i \in 2..4 : Parts[i - 1] = "options") = 4
  BY <1>2, <1>3
<1>5. QED  BY <1>1, <1>4 DEF PartAfter

LEMMA LimitFits == ASSUME request \in Requests PROVE Limit \in 1..MaxPage
<1> DEFINE limit == request.limit
           m == Min({limit, MaxPage})
<1>1. limit \in Int /\ MaxPage \in Int /\ MaxPage \in Nat \ {0}
  BY Constants DEF Asks
<1>2. m \in Int /\ m <= MaxPage
  <2> HIDE DEF limit
  <2>1. m \in {limit, MaxPage} /\ m <= limit /\ m <= MaxPage
    BY <1>1, MinOfTwo
  <2>2. QED  BY <1>1, <2>1
<1> HIDE DEF m
<1>3. Max({1, m}) \in {1, m} /\ Max({1, m}) >= 1
  BY <1>2, MaxOfTwo
<1>4. QED  BY <1>1, <1>2, <1>3 DEF Limit, m

LEMMA FiniteResult == IsFiniteSet(Result) /\ Cardinality(Result) \in Nat /\ Result \subseteq Products
<1>1. Result \in SUBSET Products
  BY DEF Result, Filtered
<1>2. QED  BY <1>1, Constants, FS_Subset, FS_CardinalityType

\* A listing is a sequence of the products of the result, and so is a page of it.
LEMMA PageOfListing ==
  ASSUME NEW l \in Listings(Result), NEW a \in Nat, NEW n \in Nat
  PROVE  LET page == SubSeq(l, a + 1, Min({a + n, Len(l)})) IN
         /\ page \in Seq(Products) /\ Len(page) <= n
         /\ \A i \in DOMAIN page : page[i] \in Result
<1>1. l \in [1..Cardinality(Result) -> Result] /\ Cardinality(Result) \in Nat
  BY FiniteResult DEF Listings, SetToSeqs
<1>2. l \in Seq(Result) /\ Len(l) \in Nat
  BY <1>1
<1> DEFINE next == a + n
           len == Len(l)
           m == Min({next, len})
<1>3. m \in Int /\ m <= a + n /\ m <= Len(l) /\ (m = a + n \/ m = Len(l))
  <2>1. next \in Int /\ len \in Int
    BY <1>2
  <2> HIDE DEF next, len
  <2>2. m \in {next, len} /\ m <= next /\ m <= len
    BY <2>1, MinOfTwo
  <2>3. QED  BY <2>1, <2>2 DEF next, len
<1> HIDE DEF m
<1>4. SubSeq(l, a + 1, m) \in Seq(Result)
  BY <1>2, <1>3
<1>5. Len(SubSeq(l, a + 1, m)) <= n
  BY <1>2, <1>3
<1> DEFINE page == SubSeq(l, a + 1, m)
<1>6. page \in Seq(Result) /\ Len(page) <= n
  BY <1>4, <1>5
<1> HIDE DEF page
<1>7. page \in Seq(Products) /\ \A i \in DOMAIN page : page[i] \in Result
  BY <1>6, FiniteResult
<1>8. QED  BY <1>6, <1>7 DEF page, m

-----------------------------------------------------------------------------
(* The commits of the seller *)

LEMMA Merged ==
  ASSUME NEW row \in Rows, NEW f \in Patches
  PROVE  Merge(row, f) \in Rows /\ Merge(row, f).state = row.state /\ Merge(row, f).stamp = row.stamp
<1> DEFINE now(i) == IF i \in DOMAIN f THEN f[i] ELSE row[i]
<1>0. /\ \A i \in DOMAIN f \cap {"visible", "featured"} : f[i] \in BOOLEAN
      /\ "price" \in DOMAIN f => f["price"] \in Prices
      /\ "category" \in DOMAIN f => f["category"] \in Shelves
      /\ "words" \in DOMAIN f => f["words"] \subseteq Words
  <2>1. {f[i] : i \in DOMAIN f \cap {"visible", "featured"}} \subseteq BOOLEAN
    BY StorefrontAssumption DEF StorefrontAssumption
  <2>2. QED  BY <2>1, StorefrontAssumption DEF StorefrontAssumption
<1>1. now("visible") \in BOOLEAN
  BY <1>0 DEF Rows
<1>2. now("featured") \in BOOLEAN
  BY <1>0 DEF Rows
<1>3. now("price") \in Prices
  BY <1>0 DEF Rows
<1>4. now("category") \in Shelves
  BY <1>0 DEF Rows
<1>5. now("words") \in SUBSET Words
  BY <1>0 DEF Rows
<1>6. row.state \in {"new", "whole", "bare", "gone"} /\ row.stamp \in Nat
  BY DEF Rows
<1>7. Merge(row, f) = [visible |-> now("visible"), featured |-> now("featured"), price |-> now("price"),
                       category |-> now("category"), words |-> now("words"), stamp |-> row.stamp,
                       state |-> row.state]
  BY DEF Merge
<1> HIDE DEF now
<1>8. QED  BY <1>1, <1>2, <1>3, <1>4, <1>5, <1>6, <1>7 DEF Rows

\* A write stores a row of its product, makes it whole only if it was whole or not yet there, and
\* stamps it only if it was not there.
Writes(p, row) ==
  /\ row \in Rows /\ row.state # "new" /\ (row.state = "whole" => product[p].state \in {"new", "whole"})
  /\ Exists(p) => row.stamp = product[p].stamp
  /\ Write(p, row)

LEMMA WritesRow ==
  ASSUME VisitInv, NEW p \in Products, Create(p) \/ Update(p) \/ Delete(p) \/ Restore(p)
  PROVE  \E row : Writes(p, row)
<1>1. product[p] \in Rows
  BY DEF VisitInv
<1>2. ASSUME NEW s \in {"new", "whole", "bare", "gone"}, NEW t \in Stamps
      PROVE  Stamped(p, s, t) \in Rows /\ Stamped(p, s, t).state = s
  <2>1. t \in Nat
    BY Constants
  <2>2. QED  BY <1>1, <2>1 DEF Rows, Stamped
<1>3. CASE Create(p)
  <2>1. PICK t \in Stamps : Write(p, Stamped(p, "whole", t))
    BY <1>3 DEF Create
  <2>2. product[p].state = "new" /\ ~Exists(p)
    BY <1>3 DEF Create, Exists
  <2>3. QED  BY <1>2, <2>1, <2>2 DEF Writes
<1>4. CASE Update(p)
  <2>1. PICK f \in Patches : Write(p, Merge(product[p], f))
    BY <1>4 DEF Update
  <2>2. product[p].state \in {"whole", "bare"}
    BY <1>4 DEF Update, Exists
  <2>3. QED  BY <1>1, <2>1, <2>2, Merged DEF Writes
<1>5. CASE Delete(p)
  <2> DEFINE row == [product[p] EXCEPT !.state = "gone"]
  <2>1. row \in Rows /\ row.state = "gone" /\ row.stamp = product[p].stamp
    BY <1>1 DEF Rows
  <2>2. Write(p, row)
    BY <1>5 DEF Delete
  <2> HIDE DEF row
  <2>3. QED  BY <2>1, <2>2 DEF Writes
<1>6. CASE Restore(p)
  <2>1. product[p].state = "gone" /\ ~Exists(p)
    BY <1>6 DEF Restore, Exists
  <2>2. PICK f \in Patches, t \in Stamps : Write(p, Merge(Stamped(p, "bare", t), f))
    BY <1>6 DEF Restore
  <2>3. Merge(Stamped(p, "bare", t), f) \in Rows /\ Merge(Stamped(p, "bare", t), f).state = "bare"
    BY <1>2, Merged
  <2>4. QED  BY <2>1, <2>2, <2>3 DEF Writes
<1>7. QED  BY <1>3, <1>4, <1>5, <1>6

\* What every write does to a visit.
LEMMA WriteFacts ==
  ASSUME VisitInv, NEW p \in Products, NEW row, Writes(p, row)
  PROVE  /\ product' = [product EXCEPT ![p] = row] /\ product'[p] = row
         /\ \A q \in Products \ {p} : product'[q] = product[q]
         /\ stage' = stage /\ request' = request /\ found' = found
         /\ stage \notin Ends /\ writes' \in 0..MaxWrites
         /\ IF stage = "idle" THEN change' = change
            ELSE change' \in Changes /\ change'.touched = change.touched \cup {p}
<1>1. /\ product' = [product EXCEPT ![p] = row] /\ stage' = stage /\ request' = request /\ found' = found
      /\ stage \notin Ends /\ writes' = writes + 1 /\ writes < MaxWrites /\ Track(p)
  BY DEF Writes, Write
<1>2. product \in [Products -> Rows] /\ change \in Changes /\ writes \in 0..MaxWrites
  <2>1. Still \in Changes
    BY DEF Still, Changes
  <2>2. QED  BY <2>1 DEF VisitInv
<1>3. ASSUME stage # "idle" PROVE change' \in Changes /\ change'.touched = change.touched \cup {p}
  <2>1. PICK left \in SUBSET {p}, joined \in SUBSET {p}, again \in SUBSET {p} :
          change' = [touched |-> change.touched \cup {p}, left |-> change.left \cup left,
                     joined |-> change.joined \cup joined, late |-> change.late \cup joined,
                     again |-> change.again \cup again]
    <3> DEFINE moves == Shown(p) /\ Shown(p)' /\ SortKey(p) # SortKey(p)'
               left == IF moves \/ (Shown(p) /\ ~Shown(p)') THEN {p} ELSE {}
               joined == IF moves \/ (~Shown(p) /\ Shown(p)') THEN {p} ELSE {}
               again == {p} \cap {q \in change.left : product[q].stamp # product'[q].stamp}
    <3>1. change' = [touched |-> change.touched \cup {p}, left |-> change.left \cup left,
                     joined |-> change.joined \cup joined, late |-> change.late \cup joined,
                     again |-> change.again \cup again]
      BY <1>1, <1>3 DEF Track
    <3>2. left \in SUBSET {p} /\ joined \in SUBSET {p} /\ again \in SUBSET {p}
      OBVIOUS
    <3> HIDE DEF left, joined, again
    <3>3. QED  BY <3>1, <3>2
  <2>2. QED  BY <1>2, <2>1 DEF Changes
<1>4. stage = "idle" => change' = change
  BY <1>1 DEF Track
<1>5. MaxWrites \in Nat /\ writes' \in 0..MaxWrites
  BY <1>1, <1>2, Constants
<1>6. QED  BY <1>1, <1>2, <1>3, <1>4, <1>5

-----------------------------------------------------------------------------
(* The answers of the statements keep their shape *)

LEMMA TaggedRows ==
  ASSUME found \in Found, product \in [Products -> Rows], NEW axis, NEW r
  PROVE  r \in Tagged(axis) <=> \E p \in found.ids : \E o \in OptionsOf(p) : Axis[o.group] = axis /\ r = <<p, o>>
  BY DEF Tagged

LEMMA OptionsAre ==
  ASSUME NEW p \in Products
  PROVE  OptionsOf(p) \subseteq Sheet[p].options /\ Sheet[p].options \subseteq Options
  BY Constants DEF OptionsOf, Sheets

LEMMA FiniteTagged ==
  ASSUME found \in Found, product \in [Products -> Rows], NEW axis
  PROVE  IsFiniteSet(Tagged(axis))
<1> DEFINE All == {Sheet[p].options : p \in Products}
           f == [p \in Products |-> Sheet[p].options]
<1>1. IsFiniteSet(All)
  <2>1. f \in Surjection(Products, All)
    BY DEF Surjection
  <2>2. QED  BY <2>1, Constants, FS_Surjection
<1>2. IsFiniteSet(UNION All)
  <2>1. \A T \in All : IsFiniteSet(T)
    BY Constants
  <2> HIDE DEF All
  <2>2. QED  BY <1>1, <2>1, FS_UNION
<1>3. IsFiniteSet(Products \X UNION All)
  <2> HIDE DEF All
  <2>1. QED  BY <1>2, Constants, FS_Product
<1>4. Tagged(axis) \subseteq Products \X UNION All
  <2>1. ASSUME NEW r \in Tagged(axis) PROVE r \in Products \X UNION All
    <3>1. PICK p \in found.ids : \E o \in OptionsOf(p) : r = <<p, o>>
      BY <2>1, TaggedRows
    <3>2. p \in Products
      BY DEF Found
    <3>3. Sheet[p].options \in All
      BY <3>2
    <3>4. QED  BY <3>1, <3>2, <3>3, OptionsAre
  <2>2. QED  BY <2>1
<1> HIDE DEF All
<1>5. QED  BY <1>3, <1>4, FS_Subset

\* What a facet counts, and of how many.
LEMMA FacetShape ==
  ASSUME found \in Found, product \in [Products -> Rows], NEW axis, NEW r \in Tagged(axis)
  PROVE  FacetOf(r, Tagged(axis)) \in FacetRows
<1> DEFINE rows == Tagged(axis)
           alike == {z \in rows : SameFacet(r[2], z[2])}
           ps == {z[1] : z \in alike}
           hs == {z[2].hex : z \in alike}
<1>1. \A z \in rows : z[1] \in Products /\ z[2] \in Options
  BY TaggedRows, OptionsAre DEF Found
<1>2. r \in alike
  BY DEF SameFacet
<1>3. IsFiniteSet(alike)
  BY FiniteTagged, FS_Subset
<1>4. Cardinality(ps) \in Nat \ {0}
  <2>1. ps \subseteq Products /\ ps # {}
    BY <1>1, <1>2
  <2> HIDE DEF ps
  <2>2. IsFiniteSet(ps) /\ Cardinality(ps) \in Nat
    BY <2>1, Constants, FS_Subset, FS_CardinalityType
  <2>3. Cardinality(ps) # 0
    BY <2>1, <2>2, FS_EmptySet
  <2>4. QED  BY <2>2, <2>3
<1>5. Max(hs) \in Nat
  <2>1. hs \subseteq Nat /\ hs # {}
    BY <1>1, <1>2 DEF Options
  <2>2. IsFiniteSet(hs)
    <3> DEFINE f == [z \in alike |-> z[2].hex]
    <3>1. f \in Surjection(alike, hs)
      BY DEF Surjection
    <3> HIDE DEF f, alike, hs
    <3>2. QED  BY <1>3, <3>1, FS_Surjection
  <2> HIDE DEF hs
  <2>3. QED  BY <2>1, <2>2, MaxOfNaturals
<1>6. r[2].value \in Values
  BY <1>1 DEF Options
<1>7. FacetOf(r, rows) = [value |-> r[2].value, n |-> Cardinality(ps), hex |-> Max(hs)]
  BY DEF FacetOf
<1> HIDE DEF ps, hs
<1>8. QED  BY <1>4, <1>5, <1>6, <1>7 DEF FacetRows

LEMMA FacetsShape ==
  ASSUME found \in Found, product \in [Products -> Rows], NEW axis
  PROVE  FacetsOn(axis) \subseteq FacetRows
  BY FacetShape DEF FacetsOn

\* The price range of a set of products.
LEMMA SpanShape ==
  ASSUME NEW S \in SUBSET Prices, S # {}, IsFiniteSet(S)
  PROVE  /\ Min(S) \in S /\ Max(S) \in S
         /\ \A n \in S : Min(S) <= n /\ n <= Max(S)
<1>1. S \in SUBSET Nat
  BY Constants
<1>2. QED  BY <1>1, MinOfNaturals, MaxOfNaturals

LEMMA PricesFinite ==
  ASSUME product \in [Products -> Rows], NEW S \in SUBSET Products
  PROVE  LET prices == {product[p].price : p \in S} IN
         IsFiniteSet(prices) /\ prices \subseteq Prices
<1> DEFINE prices == {product[p].price : p \in S}
           f == [p \in S |-> product[p].price]
<1>1. IsFiniteSet(S)
  BY Constants, FS_Subset
<1>2. f \in Surjection(S, prices)
  BY DEF Surjection
<1>3. prices \subseteq Prices
  BY DEF Rows
<1> HIDE DEF f, prices
<1>4. IsFiniteSet(prices)
  BY <1>1, <1>2, FS_Surjection
<1>5. QED  BY <1>3, <1>4 DEF prices

-----------------------------------------------------------------------------
(* VisitInv *)

LEMMA KindOfStage ==
  ASSUME VisitInv
  PROVE  /\ stage # "idle" => request \in Requests
         /\ stage \in {"count", "slice"} => request.kind = "page"
         /\ stage \in {"ids", "span", "categories", "colours", "sizes"} => request.kind = "facets"
         /\ stage \in {"tally", "cover"} => request.kind = "index"
         /\ stage \in {"row", "images", "groups", "options", "swatches"} => request.kind = "detail"
<1>1. \A r \in Requests : r.kind \in {"page", "facets", "index", "detail"}
  BY Constants DEF Asks
<1>2. stage # "idle" => request \in Requests /\ stage \in Ends \cup StagesOf[request.kind]
  BY DEF VisitInv
<1>3. /\ StagesOf["page"] = {"count", "slice"} /\ StagesOf["index"] = {"tally", "cover"}
      /\ StagesOf["facets"] = {"ids", "span", "categories", "colours", "sizes"}
      /\ StagesOf["detail"] = {"row", "images", "groups", "options", "swatches"}
  BY DEF StagesOf
<1>4. QED  BY <1>1, <1>2, <1>3 DEF Ends

LEMMA StagesAre ==
  /\ StagesOf["page"] = {"count", "slice"} /\ StagesOf["index"] = {"tally", "cover"}
  /\ StagesOf["facets"] = {"ids", "span", "categories", "colours", "sizes"}
  /\ StagesOf["detail"] = {"row", "images", "groups", "options", "swatches"}
  BY DEF StagesOf

LEMMA ReadKeeps ==
  ASSUME VisitInv, stage # "idle", UNCHANGED <<product, request, writes>>,
         stage' \in Ends \cup StagesOf[request.kind],
         found' \in Found, Len(found'.page) <= MaxPage, change' \in Changes
  PROVE  VisitInv'
  BY KindOfStage DEF VisitInv

LEMMA BlankFound == Blank \in Found /\ Blank.page = <<>> /\ Blank.given = <<>>
<1>1. [k \in Shelves |-> [n |-> 0, cover |-> None]] \in [Shelves -> Cards]
  BY DEF Cards
<1>2. QED  BY <1>1 DEF Blank, Found

LEMMA VisitStep == ASSUME VisitInv, Visit PROVE VisitInv'
<1>1. PICK r \in Requests :
        /\ request' = r
        /\ stage' = IF r.store = None THEN "missing" ELSE Opening[r.kind]
        /\ found' = [Blank EXCEPT !.offset = Max({0, r.offset})]
  BY DEF Visit
<1>2. UNCHANGED <<product, change, writes>> /\ change \in Changes
  BY DEF Visit, VisitInv
<1>3. stage' \in Ends \cup StagesOf[request'.kind]
  <2>1. r.kind \in {"page", "facets", "index", "detail"}
    BY Constants DEF Asks
  <2>2. Opening["page"] = "count" /\ Opening["facets"] = "ids" /\ Opening["index"] = "tally" /\ Opening["detail"] = "row"
    BY DEF Opening
  <2>3. Opening[r.kind] \in StagesOf[r.kind]
    BY <2>1, <2>2, StagesAre
  <2>4. QED  BY <1>1, <2>3 DEF Ends
<1>4. Max({0, r.offset}) \in Nat
  <2> DEFINE o == r.offset
  <2>1. o \in Int
    BY Constants DEF Asks
  <2> HIDE DEF o
  <2>2. Max({0, o}) \in {0, o} /\ Max({0, o}) >= 0
    BY <2>1, MaxOfTwo
  <2>3. QED  BY <2>1, <2>2 DEF o
<1>5. found' \in Found /\ found'.page = <<>>
  BY <1>1, <1>4, BlankFound DEF Found
<1>6. Len(found'.page) <= MaxPage
  BY <1>5, Constants
<1>7. QED  BY <1>1, <1>2, <1>3, <1>5, <1>6 DEF VisitInv

LEMMA FacetsStep == ASSUME VisitInv, Facets PROVE VisitInv'
<1>1. /\ UNCHANGED <<product, request, writes, change>> /\ stage # "idle"
      /\ stage \in {"ids", "span", "categories", "colours", "sizes"}
      /\ stage' \in {"span", "categories", "colours", "sizes", "done"}
  BY DEF Facets, FindIds, Span, CountCategories, CountColours, CountSizes, Goto
<1>2. stage' \in Ends \cup StagesOf[request.kind]
  BY <1>1, KindOfStage, StagesAre DEF Ends
<1>3. found \in Found /\ Len(found.page) <= MaxPage /\ change \in Changes /\ product \in [Products -> Rows]
  BY DEF VisitInv
<1>4. found' \in Found /\ found'.page = found.page
  <2>1. CASE FindIds
    BY <1>3, <2>1, FiniteResult DEF FindIds, Found
  <2>2. CASE Span
    <3> DEFINE S == {q \in found.ids : Exists(q)}
               prices == {product[p].price : p \in S}
               span == IF prices = {} THEN None ELSE [lo |-> Min(prices), hi |-> Max(prices)]
    <3>1. S \in SUBSET Products
      BY <1>3 DEF Found
    <3>2. IsFiniteSet(prices) /\ prices \subseteq Prices
      <4> HIDE DEF S
      <4>1. QED  BY <1>3, <3>1, PricesFinite
    <3>3. span \in [lo: Prices, hi: Prices] \cup {None}
      <4> HIDE DEF prices
      <4>1. prices # {} => Min(prices) \in Prices /\ Max(prices) \in Prices
        BY <3>2, SpanShape
      <4>2. QED  BY <4>1
    <3>4. found' = [found EXCEPT !.span = span]
      BY <2>2 DEF Span
    <3> HIDE DEF span
    <3>5. QED  BY <1>3, <3>3, <3>4 DEF Found
  <2>3. CASE CountCategories
    <3> DEFINE rows == {[category |-> k, n |-> Cardinality(InCategory(found.ids, k))] :
                          k \in {z \in Shelves : InCategory(found.ids, z) # {}}}
    <3>1. ASSUME NEW k \in Shelves, InCategory(found.ids, k) # {}
          PROVE  Cardinality(InCategory(found.ids, k)) \in Nat \ {0}
      <4>1. InCategory(found.ids, k) \in SUBSET Products
        BY <1>3 DEF InCategory, Found
      <4>2. IsFiniteSet(InCategory(found.ids, k))
        BY <4>1, Constants, FS_Subset
      <4>3. QED  BY <3>1, <4>2, FS_CardinalityType, FS_EmptySet
    <3>2. rows \subseteq [category: Shelves, n: Nat \ {0}]
      BY <3>1
    <3>3. found' = [found EXCEPT !.categories = rows]
      BY <2>3 DEF CountCategories
    <3> HIDE DEF rows
    <3>4. QED  BY <1>3, <3>2, <3>3 DEF Found
  <2>4. CASE CountColours
    <3>1. FacetsOn("colour") \subseteq FacetRows
      BY <1>3, FacetsShape
    <3>2. QED  BY <1>3, <2>4, <3>1 DEF CountColours, Found
  <2>5. CASE CountSizes
    <3> DEFINE rows == {[value |-> r.value, n |-> r.n, hex |-> 0] : r \in FacetsOn("size")}
    <3>1. rows \subseteq FacetRows
      BY <1>3, FacetsShape DEF FacetRows
    <3>2. found' = [found EXCEPT !.sizes = rows]
      BY <2>5 DEF CountSizes
    <3> HIDE DEF rows
    <3>3. QED  BY <1>3, <3>1, <3>2 DEF Found
  <2>6. QED  BY <2>1, <2>2, <2>3, <2>4, <2>5 DEF Facets
<1>5. QED  BY <1>1, <1>2, <1>3, <1>4, ReadKeeps

LEMMA GridStep == ASSUME VisitInv, Grid PROVE VisitInv'
<1>1. /\ UNCHANGED <<product, request, writes>> /\ stage # "idle"
      /\ stage \in {"count", "slice"} /\ stage' \in {"slice", "count", "done"}
  BY DEF Grid, CountPage, SlicePage, Goto
<1>2. stage' \in Ends \cup StagesOf[request.kind] /\ request \in Requests
  BY <1>1, KindOfStage, StagesAre DEF Ends
<1>3. found \in Found /\ Len(found.page) <= MaxPage /\ change \in Changes /\ product \in [Products -> Rows]
  BY DEF VisitInv
<1>4. CASE CountPage
  <2>1. found' \in Found /\ found'.page = found.page
    BY <1>3, <1>4, FiniteResult DEF CountPage, Found
  <2>2. change' \in Changes
    BY <1>3, <1>4 DEF CountPage, Changes
  <2>3. QED  BY <1>1, <1>2, <1>3, <2>1, <2>2, ReadKeeps
<1>5. CASE SlicePage
  <2> DEFINE next == found.offset + Limit
  <2>1. PICK l \in Listings(Result) :
          found' = [found EXCEPT !.page = SubSeq(l, found.offset + 1, Min({next, Len(l)})),
                                 !.given = @ \o SubSeq(l, found.offset + 1, Min({next, Len(l)})),
                                 !.offset = next]
    BY <1>5 DEF SlicePage
  <2> DEFINE page == SubSeq(l, found.offset + 1, Min({next, Len(l)}))
  <2>2. Limit \in Nat /\ Limit <= MaxPage /\ MaxPage \in Nat /\ found.offset \in Nat /\ next \in Nat
    BY <1>2, <1>3, LimitFits, Constants DEF Found
  <2>3. page \in Seq(Products) /\ Len(page) <= Limit
    BY <2>2, PageOfListing
  <2>4. found' = [found EXCEPT !.page = page, !.given = found.given \o page, !.offset = next]
    BY <2>1
  <2> HIDE DEF page, next
  <2>5. found.given \o page \in Seq(Products) /\ Len(page) <= MaxPage
    BY <1>3, <2>2, <2>3 DEF Found
  <2>6. found' \in Found /\ found'.page = page
    BY <1>3, <2>2, <2>3, <2>4, <2>5 DEF Found
  <2>7. change' = change
    BY <1>5 DEF SlicePage
  <2>8. QED  BY <1>1, <1>2, <1>3, <2>5, <2>6, <2>7, ReadKeeps
<1>6. QED  BY <1>4, <1>5 DEF Grid

LEMMA IndexStep == ASSUME VisitInv, Index PROVE VisitInv'
<1>1. /\ UNCHANGED <<product, request, writes, change>> /\ stage # "idle"
      /\ stage \in {"tally", "cover"} /\ stage' \in {"cover", "done"}
  BY DEF Index, Tally, PickCover, Goto
<1>2. stage' \in Ends \cup StagesOf[request.kind]
  BY <1>1, KindOfStage, StagesAre DEF Ends
<1>3. found \in Found /\ Len(found.page) <= MaxPage /\ change \in Changes /\ product \in [Products -> Rows]
  BY DEF VisitInv
<1>4. found' \in Found /\ found'.page = found.page
  <2>1. CASE Tally
    <3> DEFINE ps(k) == {p \in Products : OnDisplay(p, request.store) /\ product[p].category = k}
               cards == [k \in Shelves |-> [n |-> Cardinality(ps(k)), cover |-> None]]
    <3>1. \A k \in Shelves : Cardinality(ps(k)) \in Nat
      BY Constants, FS_Subset, FS_CardinalityType
    <3>2. cards \in [Shelves -> Cards]
      BY <3>1 DEF Cards
    <3>3. found' = [found EXCEPT !.cards = cards]
      BY <2>1 DEF Tally
    <3> HIDE DEF cards
    <3>4. QED  BY <1>3, <3>2, <3>3 DEF Found
  <2>2. CASE PickCover
    <3>1. PICK k \in found.todo :
            \/ found' = [found EXCEPT !.todo = @ \ {k}]
            \/ \E p \in Foremost(Pictured(k)) :
                 found' = [found EXCEPT !.todo = @ \ {k}, !.cards = Covered(found.cards, k, p)]
      BY <2>2 DEF PickCover
    <3>2. \A p \in Foremost(Pictured(k)) : Covered(found.cards, k, p) \in [Shelves -> Cards]
      BY <1>3 DEF Foremost, Pictured, Covered, Found, Cards
    <3>3. PICK cards \in [Shelves -> Cards] : found' = [found EXCEPT !.todo = @ \ {k}, !.cards = cards]
      <4>1. CASE found' = [found EXCEPT !.todo = @ \ {k}]
        <5>1. found' = [found EXCEPT !.todo = @ \ {k}, !.cards = found.cards] /\ found.cards \in [Shelves -> Cards]
          BY <1>3, <4>1 DEF Found
        <5>2. QED  BY <5>1
      <4>2. QED  BY <3>1, <3>2, <4>1
    <3>4. QED  BY <1>3, <3>3 DEF Found
  <2>3. QED  BY <2>1, <2>2 DEF Index
<1>5. QED  BY <1>1, <1>2, <1>3, <1>4, ReadKeeps

LEMMA DetailStep == ASSUME VisitInv, Detail PROVE VisitInv'
<1>1. /\ UNCHANGED <<product, request, writes, change>> /\ stage # "idle"
      /\ stage \in {"row", "images", "groups", "options", "swatches"}
      /\ stage' \in {"images", "groups", "options", "swatches", "missing", "done"}
  <2>1. CASE FindRow
    BY <2>1 DEF FindRow, Goto
  <2>2. CASE Prefetch
    BY <2>2, PartsAre, PartsFollow DEF Prefetch, Goto
  <2>3. QED  BY <2>1, <2>2 DEF Detail
<1>2. stage' \in Ends \cup StagesOf[request.kind]
  BY <1>1, KindOfStage, StagesAre DEF Ends
<1>3. found \in Found /\ Len(found.page) <= MaxPage /\ change \in Changes
  BY DEF VisitInv
<1>4. found' \in Found /\ found'.page = found.page
  <2>1. CASE FindRow
    BY <1>3, <2>1 DEF FindRow
  <2>2. CASE Prefetch
    BY <1>1, <1>3, <2>2, PartsAre DEF Prefetch, Found
  <2>3. QED  BY <2>1, <2>2 DEF Detail
<1>5. QED  BY <1>1, <1>2, <1>3, <1>4, ReadKeeps

LEMMA SellerStep ==
  ASSUME VisitInv, NEW p \in Products, NEW row, Writes(p, row)
  PROVE  VisitInv'
<1>1. row \in Rows
  BY DEF Writes
<1>2. product' \in [Products -> Rows]
  BY <1>1, WriteFacts DEF VisitInv
<1>3. change' \in Changes /\ (stage = "idle" => change' = change)
  BY WriteFacts DEF VisitInv
<1>4. QED  BY <1>2, <1>3, WriteFacts DEF VisitInv

LEMMA VisitInit == Init => VisitInv
<1> SUFFICES ASSUME Init PROVE VisitInv
  OBVIOUS
<1>1. product \in [Products -> Rows] /\ stage = "idle" /\ request = None
  BY Constants DEF Init
<1>2. found = Blank /\ found \in Found /\ found.page = <<>>
  BY BlankFound DEF Init
<1>3. change = Still /\ change \in Changes
  BY DEF Init, Still, Changes
<1>4. Len(found.page) <= MaxPage /\ writes \in 0..MaxWrites
  BY <1>2, Constants DEF Init
<1>5. QED  BY <1>1, <1>2, <1>3, <1>4 DEF VisitInv

LEMMA VisitNext == VisitInv /\ [Next]_vars => VisitInv'
<1> SUFFICES ASSUME VisitInv, [Next]_vars PROVE VisitInv'
  OBVIOUS
<1>1. CASE UNCHANGED vars
  BY <1>1 DEF vars, VisitInv
<1>2. CASE Next
  BY <1>2, VisitStep, FacetsStep, GridStep, IndexStep, DetailStep, SellerStep, WritesRow DEF Next
<1>3. QED  BY <1>1, <1>2

-----------------------------------------------------------------------------
(* What an answer tells of *)

\* of the store, and on display unless it was written during the visit
Shows(p) == Sheet[p].store = request.store /\ (p \in change.touched \/ OnDisplay(p, request.store))

InDetail == stage \in {"images", "groups", "options", "swatches"} \/ Asked("detail")

Tells(p) ==
  \/ p \in found.ids
  \/ \E i \in DOMAIN found.given : found.given[i] = p
  \/ \E k \in Shelves : found.cards[k].cover = p
  \/ InDetail /\ request.product = p

ToldInv == \A p \in Products : Tells(p) => Shows(p)

LEMMA ReadFacts ==
  ASSUME VisitInv, Facets \/ Grid \/ Index \/ Detail
  PROVE  /\ stage # "idle" /\ product' = product /\ request' = request /\ change'.touched = change.touched
         /\ request \in Requests
<1>1. change \in Changes
  BY DEF VisitInv
<1>2. CASE Facets
  BY <1>2, KindOfStage DEF Facets, FindIds, Span, CountCategories, CountColours, CountSizes, Goto
<1>3. CASE Grid
  BY <1>1, <1>3, KindOfStage DEF Grid, CountPage, SlicePage, Goto, Changes
<1>4. CASE Index
  BY <1>4, KindOfStage DEF Index, Tally, PickCover, Goto
<1>5. CASE Detail
  BY <1>5, KindOfStage, PartsAre DEF Detail, FindRow, Prefetch, Goto
<1>6. QED  BY <1>2, <1>3, <1>4, <1>5

\* A statement tells of no product but those on display when it runs.
LEMMA FacetsTell ==
  ASSUME VisitInv, Facets, NEW p \in Products, Tells(p)'
  PROVE  Tells(p) \/ OnDisplay(p, request.store)
<1>1. found \in Found /\ request' = request /\ request.kind = "facets" /\ stage' \in {"span", "categories", "colours", "sizes", "done"}
  BY ReadFacts, KindOfStage DEF VisitInv, Facets, FindIds, Span, CountCategories, CountColours, CountSizes, Goto
<1>2. found'.given = found.given /\ found'.cards = found.cards /\ (found'.ids = found.ids \/ found'.ids = Result)
  BY <1>1 DEF Facets, FindIds, Span, CountCategories, CountColours, CountSizes, Found
<1>3. ~InDetail'
  BY <1>1 DEF InDetail, Asked
<1>4. QED  BY <1>2, <1>3 DEF Tells, Result, Filtered, Matches

LEMMA GridTells ==
  ASSUME VisitInv, Grid, NEW p \in Products, Tells(p)'
  PROVE  Tells(p) \/ OnDisplay(p, request.store)
<1>1. found \in Found /\ request' = request /\ request.kind = "page" /\ stage' \in {"slice", "count", "done"} /\ request \in Requests
  BY ReadFacts, KindOfStage DEF VisitInv, Grid, CountPage, SlicePage, Goto
<1>2. found'.ids = found.ids /\ found'.cards = found.cards
  BY <1>1 DEF Grid, CountPage, SlicePage, Found
<1>3. ~InDetail'
  BY <1>1 DEF InDetail, Asked
<1>4. ASSUME NEW i \in DOMAIN found'.given, found'.given[i] = p
      PROVE  p \in Result \/ \E j \in DOMAIN found.given : found.given[j] = p
  <2>1. CASE CountPage
    <3>1. found'.given = found.given
      BY <1>1, <2>1 DEF CountPage, Found
    <3>2. QED  BY <1>4, <3>1
  <2>2. CASE SlicePage
    <3>1. PICK l \in Listings(Result) :
            found'.given = found.given \o SubSeq(l, found.offset + 1, Min({found.offset + Limit, Len(l)}))
      BY <1>1, <2>2 DEF SlicePage, Found
    <3> DEFINE page == SubSeq(l, found.offset + 1, Min({found.offset + Limit, Len(l)}))
    <3>2. Limit \in Nat /\ found.offset \in Nat
      BY <1>1, LimitFits, Constants DEF Found
    <3>3. page \in Seq(Products) /\ \A j \in DOMAIN page : page[j] \in Result
      BY <3>2, PageOfListing
    <3>4. found.given \in Seq(Products)
      BY <1>1 DEF Found
    <3>5. found'.given = found.given \o page
      BY <3>1
    <3> HIDE DEF page
    <3>6. CASE i \in DOMAIN found.given
      <4>1. found.given[i] = p
        BY <1>4, <3>3, <3>4, <3>5, <3>6
      <4>2. QED  BY <3>6, <4>1
    <3>7. CASE i \notin DOMAIN found.given
      <4>1. i - Len(found.given) \in DOMAIN page /\ page[i - Len(found.given)] = p
        BY <1>4, <3>3, <3>4, <3>5, <3>7
      <4>2. QED  BY <3>3, <4>1
    <3>8. QED  BY <3>6, <3>7
  <2>3. QED  BY <2>1, <2>2 DEF Grid
<1>5. p \in Result => OnDisplay(p, request.store)
  BY DEF Result, Filtered, Matches
<1>6. QED  BY <1>2, <1>3, <1>4, <1>5 DEF Tells

LEMMA IndexTells ==
  ASSUME VisitInv, Index, NEW p \in Products, Tells(p)'
  PROVE  Tells(p) \/ OnDisplay(p, request.store)
<1>1. found \in Found /\ request' = request /\ request.kind = "index" /\ stage' \in {"cover", "done"}
  BY ReadFacts, KindOfStage DEF VisitInv, Index, Tally, PickCover, Goto
<1>2. found'.ids = found.ids /\ found'.given = found.given
  BY <1>1 DEF Index, Tally, PickCover, Found
<1>3. ~InDetail'
  BY <1>1 DEF InDetail, Asked
<1>4. ASSUME NEW k \in Shelves, found'.cards[k].cover = p
      PROVE  found.cards[k].cover = p \/ OnDisplay(p, request.store)
  <2>1. CASE Tally
    <3>1. found'.cards[k].cover = None
      BY <1>1, <2>1 DEF Tally, Found
    <3>2. QED  BY <1>4, <3>1, Constants
  <2>2. CASE PickCover
    <3>1. PICK j \in found.todo :
            \/ found' = [found EXCEPT !.todo = @ \ {j}]
            \/ \E q \in Foremost(Pictured(j)) :
                 found' = [found EXCEPT !.todo = @ \ {j}, !.cards = Covered(found.cards, j, q)]
      BY <2>2 DEF PickCover
    <3>2. CASE found' = [found EXCEPT !.todo = @ \ {j}]
      <4>1. found'.cards = found.cards
        BY <1>1, <3>2 DEF Found
      <4>2. QED  BY <1>4, <4>1
    <3>3. ASSUME NEW q \in Foremost(Pictured(j)),
                 found' = [found EXCEPT !.todo = @ \ {j}, !.cards = Covered(found.cards, j, q)]
          PROVE  found.cards[k].cover = p \/ OnDisplay(p, request.store)
      <4>1. OnDisplay(q, request.store)
        BY DEF Foremost, Pictured
      <4>2. found'.cards[k].cover = q \/ found'.cards[k].cover = found.cards[k].cover
        BY <1>1, <3>3 DEF Covered, Found
      <4>3. QED  BY <1>4, <4>1, <4>2
    <3>4. QED  BY <3>1, <3>2, <3>3
  <2>3. QED  BY <2>1, <2>2 DEF Index
<1>5. QED  BY <1>2, <1>3, <1>4 DEF Tells

LEMMA DetailTells ==
  ASSUME VisitInv, Detail, NEW p \in Products, Tells(p)'
  PROVE  Tells(p) \/ OnDisplay(p, request.store)
<1>1. found \in Found /\ request' = request
  BY ReadFacts DEF VisitInv
<1>2. found'.ids = found.ids /\ found'.given = found.given /\ found'.cards = found.cards
  BY <1>1 DEF Detail, FindRow, Prefetch, Found
<1>3. InDetail' => InDetail \/ OnDisplay(request.product, request.store)
  <2>1. CASE FindRow
    BY <2>1 DEF FindRow, Goto, InDetail, Asked
  <2>2. CASE Prefetch
    BY <2>2, PartsAre DEF Prefetch, InDetail
  <2>3. QED  BY <2>1, <2>2 DEF Detail
<1>4. QED  BY <1>1, <1>2, <1>3 DEF Tells

LEMMA ToldRead == ASSUME VisitInv, ToldInv, Facets \/ Grid \/ Index \/ Detail PROVE ToldInv'
<1> SUFFICES ASSUME NEW p \in Products, Tells(p)' PROVE Shows(p)'
  BY DEF ToldInv
<1>1. Tells(p) \/ OnDisplay(p, request.store)
  BY FacetsTell, GridTells, IndexTells, DetailTells
<1>2. Shows(p)
  BY <1>1 DEF ToldInv, Shows, OnDisplay
<1>3. QED  BY <1>2, ReadFacts DEF Shows, OnDisplay, Exists

LEMMA ToldVisit == ASSUME VisitInv, Visit PROVE ToldInv'
<1>1. PICK r \in Requests :
        /\ request' = r
        /\ stage' = IF r.store = None THEN "missing" ELSE Opening[r.kind]
        /\ found' = [Blank EXCEPT !.offset = Max({0, r.offset})]
  BY DEF Visit
<1>2. /\ found'.ids = {} /\ found'.given = <<>> /\ \A k \in Shelves : found'.cards[k].cover = None
  BY <1>1 DEF Blank
<1>3. stage' \in {"missing", "count", "ids", "tally", "row"}
  <2>1. r.kind \in {"page", "facets", "index", "detail"}
    BY Constants DEF Asks
  <2>2. Opening["page"] = "count" /\ Opening["facets"] = "ids" /\ Opening["index"] = "tally" /\ Opening["detail"] = "row"
    BY DEF Opening
  <2>3. QED  BY <1>1, <2>1, <2>2
<1>4. ~InDetail'
  BY <1>3 DEF InDetail, Asked
<1>5. \A p \in Products : ~Tells(p)'
  BY <1>2, <1>4, Constants DEF Tells
<1>6. QED  BY <1>5 DEF ToldInv

\* Before the visit nothing is told of.
LEMMA NothingYet == ASSUME VisitInv, stage = "idle" PROVE \A p \in Products : ~Tells(p)
<1>1. found = Blank
  <2>1. \A r \in Requests : "idle" \notin Ends \cup StagesOf[r.kind]
    <3>1. \A r \in Requests : r.kind \in {"page", "facets", "index", "detail"}
      BY Constants DEF Asks
    <3>2. QED  BY <3>1, StagesAre DEF Ends
  <2>2. QED  BY <2>1 DEF VisitInv
<1>2. found.ids = {} /\ found.given = <<>> /\ \A k \in Shelves : found.cards[k].cover = None
  BY <1>1 DEF Blank
<1>3. ~InDetail
  BY DEF InDetail, Asked
<1>4. QED  BY <1>2, <1>3, Constants DEF Tells

LEMMA ToldWrite ==
  ASSUME VisitInv, ToldInv, NEW p \in Products, NEW row, Writes(p, row)
  PROVE  ToldInv'
<1>1. stage' = stage /\ request' = request /\ found' = found
  BY WriteFacts
<1>2. \A q \in Products : Tells(q)' = Tells(q)
  BY <1>1 DEF Tells, InDetail, Asked
<1>3. CASE stage = "idle"
  BY <1>2, <1>3, NothingYet DEF ToldInv
<1>4. CASE stage # "idle"
  <2>1. ASSUME NEW q \in Products, Shows(q) PROVE Shows(q)'
    BY <1>1, <1>4, <2>1, WriteFacts DEF Shows, OnDisplay, Exists
  <2>2. QED  BY <1>2, <2>1 DEF ToldInv
<1>5. QED  BY <1>3, <1>4

-----------------------------------------------------------------------------
(* A detail page *)

\* the sub-tables that were read before a statement
Before == [row |-> {}, images |-> {}, groups |-> {"images"}, options |-> {"images", "groups"},
           swatches |-> {"images", "groups", "options"},
           done |-> {"images", "groups", "options", "swatches"}]

OnDetail == stage \notin {"idle", "missing"} /\ request.kind = "detail"

\* What has been read is all there was, unless the product was deleted meanwhile; and a product
\* that was deleted never has all its rows again.
DetailInv ==
  OnDetail =>
    /\ found.parts \subseteq Before[stage]
    /\ stage # "row" => product[request.product].state # "new"
    /\ (request.product \notin change.touched \/ product[request.product].state = "whole") =>
         found.parts = PartsOf(request.product) \cap Before[stage]
    /\ "options" \in found.parts => "groups" \in found.parts
    /\ "swatches" \in found.parts => {"images", "options"} \subseteq found.parts

LEMMA RequestsAre ==
  ASSUME request \in Requests
  PROVE  request.product \in Products /\ request.filter \in Filters
  BY Constants DEF Asks

LEMMA BeforeIs ==
  /\ Before["row"] = {} /\ Before["images"] = {} /\ Before["groups"] = {"images"}
  /\ Before["options"] = {"images", "groups"} /\ Before["swatches"] = {"images", "groups", "options"}
  /\ Before["done"] = {"images", "groups", "options", "swatches"}
  BY DEF Before

LEMMA OnDetailStages ==
  ASSUME VisitInv, OnDetail
  PROVE  stage \in {"row", "images", "groups", "options", "swatches", "done"} /\ request \in Requests
<1>1. request \in Requests /\ stage \in Ends \cup StagesOf["detail"]
  BY KindOfStage DEF OnDetail, VisitInv
<1>2. QED  BY <1>1, StagesAre DEF Ends, OnDetail

\* Which sub-tables hold rows of a product depends on its state alone.
LEMMA PartsOfState ==
  ASSUME NEW p \in Products
  PROVE  /\ product[p].state # "whole" => PartsOf(p) = {}
         /\ PartsOf(p) \subseteq {"images", "groups", "options", "swatches"}
         /\ "options" \in PartsOf(p) => "groups" \in PartsOf(p)
         /\ "swatches" \in PartsOf(p) => {"images", "options"} \subseteq PartsOf(p)
  BY DEF PartsOf, ImagesOf, OptionsOf

LEMMA DetailRead ==
  ASSUME VisitInv, DetailInv, Detail
  PROVE  DetailInv'
<1>1. /\ found \in Found /\ product' = product /\ request' = request /\ change'.touched = change.touched
      /\ request.product \in Products
  BY ReadFacts, RequestsAre DEF VisitInv
<1> DEFINE P == request.product
<1>2. CASE FindRow
  <2>1. stage = "row" /\ found' = found /\ OnDetail
    BY <1>2, KindOfStage DEF FindRow, OnDetail
  <2>2. found.parts = {}
    BY <2>1, BeforeIs DEF DetailInv
  <2>3. stage' = "missing" \/ (stage' = "images" /\ Exists(P))
    BY <1>2 DEF FindRow, Goto, OnDisplay
  <2>4. Before["images"] = {}
    BY BeforeIs
  <2>5. QED  BY <1>1, <2>1, <2>2, <2>3, <2>4 DEF DetailInv, OnDetail, Exists
<1>3. CASE Prefetch
  <2>1. stage \in {"images", "groups", "options", "swatches"} /\ OnDetail
    BY <1>3, PartsAre, KindOfStage DEF Prefetch, OnDetail
  <2>2. found'.parts = found.parts \cup (PartsOf(P) \cap {stage})
    BY <1>1, <1>3 DEF Prefetch, Found
  <2>3. Before[stage'] = Before[stage] \cup {stage} /\ stage' # "row"
    BY <1>3, <2>1, PartsFollow, BeforeIs DEF Prefetch, Goto
  <2>4. PartsOf(P)' = PartsOf(P)
    BY <1>1 DEF PartsOf, ImagesOf, OptionsOf
  <2>5. /\ found.parts \subseteq Before[stage]
        /\ product[P].state # "new"
        /\ (P \notin change.touched \/ product[P].state = "whole") => found.parts = PartsOf(P) \cap Before[stage]
        /\ "options" \in found.parts => "groups" \in found.parts
        /\ "swatches" \in found.parts => {"images", "options"} \subseteq found.parts
    BY <2>1 DEF DetailInv
  <2>6. /\ found'.parts \subseteq Before[stage']
        /\ (P \notin change.touched \/ product[P].state = "whole") => found'.parts = PartsOf(P) \cap Before[stage']
    BY <2>2, <2>3, <2>5
  <2>7. /\ "options" \in found'.parts => "groups" \in found'.parts
        /\ "swatches" \in found'.parts => {"images", "options"} \subseteq found'.parts
    <3>1. stage \in PartsOf(P) => found.parts = PartsOf(P) \cap Before[stage]
      BY <1>1, <2>5, PartsOfState
    <3>2. CASE stage \in {"images", "groups"}
      BY <2>2, <2>5, <3>2
    <3>3. CASE stage = "options"
      BY <1>1, <2>2, <2>5, <3>1, <3>3, PartsOfState, BeforeIs
    <3>4. CASE stage = "swatches"
      BY <1>1, <2>2, <2>5, <3>1, <3>4, PartsOfState, BeforeIs
    <3>5. QED  BY <2>1, <3>2, <3>3, <3>4
  <2>8. QED  BY <1>1, <2>3, <2>4, <2>5, <2>6, <2>7 DEF DetailInv
<1>4. QED  BY <1>2, <1>3 DEF Detail

LEMMA DetailWrite ==
  ASSUME VisitInv, DetailInv, NEW p \in Products, NEW row, Writes(p, row)
  PROVE  DetailInv'
<1> SUFFICES ASSUME OnDetail' PROVE DetailInv'
  BY DEF DetailInv
<1>1. stage' = stage /\ request' = request /\ found' = found /\ OnDetail
  BY WriteFacts DEF OnDetail
<1>2. stage \in {"row", "images", "groups", "options", "swatches", "done"} /\ request.product \in Products
  BY <1>1, OnDetailStages, RequestsAre
<1> DEFINE P == request.product
<1>3. change'.touched = change.touched \cup {p} /\ stage # "idle"
  BY <1>2, WriteFacts
<1>4. CASE P # p
  <2>1. product'[P] = product[P] /\ PartsOf(P)' = PartsOf(P)
    BY <1>1, <1>2, <1>4, WriteFacts DEF PartsOf, ImagesOf, OptionsOf
  <2>2. QED  BY <1>1, <1>3, <1>4, <2>1 DEF DetailInv
<1>5. CASE P = p
  <2>1. /\ product'[P].state # "new"
        /\ product'[P].state = "whole" => product[P].state \in {"new", "whole"}
    BY <1>5, WriteFacts DEF Writes
  <2>2. P \in change'.touched
    BY <1>3, <1>5
  <2>3. ASSUME product'[P].state = "whole" PROVE found.parts = PartsOf(P)' \cap Before[stage]
    <3>1. CASE stage = "row"
      BY <1>1, <3>1, BeforeIs DEF DetailInv
    <3>2. CASE stage # "row"
      <4>1. product[P].state = "whole"
        BY <1>1, <2>1, <2>3, <3>2 DEF DetailInv
      <4>2. PartsOf(P)' = PartsOf(P)
        BY <1>1, <2>3, <4>1 DEF PartsOf, ImagesOf, OptionsOf
      <4>3. QED  BY <1>1, <4>1, <4>2 DEF DetailInv
    <3>3. QED  BY <3>1, <3>2
  <2>4. QED  BY <1>1, <2>1, <2>2, <2>3 DEF DetailInv
<1>6. QED  BY <1>4, <1>5

-----------------------------------------------------------------------------
(* The cards of the categories *)

\* the products of a category that were left alone, on display all the time
Calm(k) == {p \in Products \ change.touched : OnDisplay(p, request.store) /\ product[p].category = k}

\* its cover is no worse than a product that was left alone
CoverInv(k) ==
  \A p \in Calm(k) : ImagesOf(p) > 0 =>
    /\ found.cards[k].cover # None
    /\ found.cards[k].cover \notin change.touched => ~Outranks(p, found.cards[k].cover)

CardsInv ==
  /\ stage = "tally" => found.todo = Shelves
  /\ stage \in {"cover", "done"} /\ request.kind = "index" =>
       /\ \A k \in Shelves : Cardinality(Calm(k)) <= found.cards[k].n
       /\ \A k \in Shelves \ found.todo : CoverInv(k)
       /\ stage = "done" => found.todo = {}

LEMMA CalmFinite ==
  ASSUME NEW k
  PROVE  IsFiniteSet(Calm(k)) /\ Cardinality(Calm(k)) \in Nat /\ Calm(k) \subseteq Products
<1>1. Calm(k) \in SUBSET Products
  BY DEF Calm
<1>2. QED  BY <1>1, Constants, FS_Subset, FS_CardinalityType

\* A write leaves fewer products alone, and those as they were.
LEMMA CalmShrinks ==
  ASSUME VisitInv, stage # "idle", NEW p \in Products, NEW row, Writes(p, row), NEW k
  PROVE  /\ Calm(k)' \subseteq Calm(k) \ {p}
         /\ Cardinality(Calm(k)') <= Cardinality(Calm(k))
         /\ Cardinality(Calm(k)') \in Nat
<1>1. Calm(k)' \subseteq Calm(k) \ {p}
  BY WriteFacts DEF Calm, OnDisplay, Exists
<1>2. IsFiniteSet(Calm(k)) /\ Calm(k)' \subseteq Calm(k)
  BY <1>1, CalmFinite
<1>3. Cardinality(Calm(k)') <= Cardinality(Calm(k)) /\ IsFiniteSet(Calm(k)')
  BY <1>2, FS_Subset
<1>4. QED  BY <1>1, <1>3, FS_CardinalityType

LEMMA CardsWrite ==
  ASSUME VisitInv, CardsInv, NEW p \in Products, NEW row, Writes(p, row)
  PROVE  CardsInv'
<1> SUFFICES ASSUME stage' \in {"cover", "done"}, request'.kind = "index" PROVE CardsInv'
  BY WriteFacts DEF CardsInv
<1>1. /\ stage' = stage /\ request' = request /\ found' = found /\ stage = "cover"
      /\ change'.touched = change.touched \cup {p} /\ found \in Found
  BY WriteFacts DEF VisitInv, Ends
<1>2. /\ \A k \in Shelves : Cardinality(Calm(k)) <= found.cards[k].n
      /\ \A k \in Shelves \ found.todo : CoverInv(k)
  BY <1>1 DEF CardsInv
<1>3. ASSUME NEW k \in Shelves PROVE Cardinality(Calm(k)') <= found.cards[k].n
  <2> DEFINE a == Cardinality(Calm(k)')
             b == Cardinality(Calm(k))
             c == found.cards[k].n
  <2>1. a \in Nat /\ b \in Nat /\ a <= b
    BY <1>1, CalmShrinks, CalmFinite
  <2>2. b <= c
    BY <1>2
  <2>3. c \in Nat
    BY <1>1 DEF Found, Cards
  <2> HIDE DEF a, b, c
  <2>4. a <= c
    BY <2>1, <2>2, <2>3
  <2>5. QED  BY <2>4 DEF a, c
<1>4. ASSUME NEW k \in Shelves \ found.todo PROVE CoverInv(k)'
  <2>1. PICK cover \in Products \cup {None} : found.cards[k].cover = cover /\ found'.cards[k].cover = cover
    BY <1>1 DEF Found, Cards
  <2>2. SUFFICES ASSUME NEW q \in Calm(k)', ImagesOf(q)' > 0
                 PROVE  cover # None /\ (cover \notin change'.touched => ~Outranks(q, cover)')
    BY <2>1 DEF CoverInv, Outranks
  <2>3. q \in Calm(k) /\ q # p /\ q \in Products
    BY <1>1, CalmShrinks, CalmFinite
  <2>4. ImagesOf(q) > 0 /\ product'[q] = product[q]
    BY <2>2, <2>3, WriteFacts DEF ImagesOf
  <2>5. cover # None /\ (cover \notin change.touched => ~Outranks(q, cover))
    BY <1>2, <2>1, <2>3, <2>4 DEF CoverInv
  <2>6. ASSUME cover \notin change'.touched PROVE ~Outranks(q, cover)'
    <3>1. cover \in Products \ {p} /\ cover \notin change.touched
      BY <1>1, <2>1, <2>5, <2>6
    <3>2. product'[cover] = product[cover]
      BY <3>1, WriteFacts
    <3>3. ~Outranks(q, cover)
      BY <2>5, <3>1
    <3>4. QED  BY <2>1, <2>4, <3>2, <3>3 DEF Outranks
  <2>7. QED  BY <2>5, <2>6
<1>5. QED  BY <1>1, <1>3, <1>4 DEF CardsInv

\* The tally counts at least the products left alone, and a cover is the foremost of them.
LEMMA CardsRead ==
  ASSUME VisitInv, CardsInv, Index
  PROVE  CardsInv'
<1>1. /\ found \in Found /\ product' = product /\ request' = request /\ change' = change
      /\ request.kind = "index" /\ product \in [Products -> Rows]
  BY ReadFacts, KindOfStage DEF VisitInv, Index, Tally, PickCover
<1>2. ASSUME NEW k PROVE Calm(k)' = Calm(k)
  BY <1>1 DEF Calm, OnDisplay, Exists
<1>3. CASE Tally
  <2> DEFINE ps(k) == {p \in Products : OnDisplay(p, request.store) /\ product[p].category = k}
  <2>1. stage' = "cover" /\ found'.todo = found.todo /\ \A k \in Shelves : found'.cards[k].n = Cardinality(ps(k))
    BY <1>1, <1>3 DEF Tally, Goto, Found
  <2>2. found.todo = Shelves
    BY <1>3 DEF Tally, CardsInv
  <2>3. ASSUME NEW k \in Shelves PROVE Cardinality(Calm(k)) <= Cardinality(ps(k))
    <3>1. Calm(k) \subseteq ps(k) /\ ps(k) \subseteq Products
      BY DEF Calm
    <3> HIDE DEF ps
    <3>2. QED  BY <3>1, Constants, FS_Subset
  <2> HIDE DEF ps
  <2>4. QED  BY <1>1, <1>2, <2>1, <2>2, <2>3 DEF CardsInv
<1>4. CASE PickCover
  <2>0. /\ \A k \in Shelves : Cardinality(Calm(k)) <= found.cards[k].n
        /\ \A k \in Shelves \ found.todo : CoverInv(k)
    BY <1>1, <1>4 DEF CardsInv, PickCover
  <2>1. PICK k \in found.todo :
          /\ \/ Pictured(k) = {} /\ found' = [found EXCEPT !.todo = @ \ {k}]
             \/ \E p \in Foremost(Pictured(k)) :
                  found' = [found EXCEPT !.todo = @ \ {k}, !.cards = Covered(found.cards, k, p)]
          /\ Goto(IF found.todo = {k} THEN "done" ELSE "cover")
    BY <1>4 DEF PickCover
  <2>2. k \in Shelves /\ found'.todo = found.todo \ {k} /\ stage' = IF found.todo = {k} THEN "done" ELSE "cover"
    BY <1>1, <2>1 DEF Goto, Found
  <2>3. stage' = "done" => found'.todo = {}
    BY <2>2
  <2>4. ASSUME NEW j \in Shelves, j # k
        PROVE  found'.cards[j].n = found.cards[j].n /\ found'.cards[j].cover = found.cards[j].cover
    BY <1>1, <2>1, <2>4 DEF Covered, Found
  <2>5. found'.cards[k].n = found.cards[k].n
    <3>1. found'.cards = found.cards \/ \E p : found'.cards = Covered(found.cards, k, p)
      BY <1>1, <2>1 DEF Found
    <3>2. found.cards \in [Shelves -> Cards]
      BY <1>1 DEF Found
    <3>3. ASSUME NEW p, found'.cards = Covered(found.cards, k, p) PROVE found'.cards[k].n = found.cards[k].n
      <4>1. found'.cards[k] = [n |-> found.cards[k].n, cover |-> p]
        BY <2>2, <3>2, <3>3 DEF Covered
      <4>2. QED  BY <4>1
    <3>4. QED  BY <3>1, <3>3
  <2>6. ASSUME NEW j \in Shelves PROVE Cardinality(Calm(j)') <= found'.cards[j].n
    <3>1. found'.cards[j].n = found.cards[j].n
      BY <2>4, <2>5
    <3>2. Calm(j)' = Calm(j)
      BY <1>2
    <3>3. QED  BY <2>0, <3>1, <3>2
  <2>7. ASSUME NEW j \in Shelves \ found.todo PROVE CoverInv(j)'
    <3>1. found'.cards[j].cover = found.cards[j].cover
      BY <2>1, <2>4
    <3>2. PICK cover : found.cards[j].cover = cover /\ found'.cards[j].cover = cover
      BY <3>1
    <3>3. CoverInv(j)
      BY <2>0
    <3>4. QED  BY <1>1, <1>2, <3>2, <3>3 DEF CoverInv, Outranks, ImagesOf
  <2>8. CoverInv(k)'
    <3>1. \A p \in Calm(k) : ImagesOf(p) > 0 => p \in Pictured(k)
      BY DEF Calm, Pictured
    <3>2. \A p : ImagesOf(p)' = ImagesOf(p)
      BY <1>1 DEF ImagesOf
    <3>3. CASE Pictured(k) = {}
      BY <1>2, <3>1, <3>2, <3>3 DEF CoverInv
    <3>4. CASE Pictured(k) # {}
      <4>1. PICK p \in Foremost(Pictured(k)) : found' = [found EXCEPT !.todo = @ \ {k}, !.cards = Covered(found.cards, k, p)]
        BY <2>1, <3>4
      <4>2. found'.cards[k].cover = p
        BY <1>1, <2>2, <4>1 DEF Covered, Found
      <4>3. p \in Products /\ p # None /\ \A q \in Pictured(k) : ~Outranks(q, p)
        BY Constants DEF Foremost, Pictured
      <4>4. QED  BY <1>1, <1>2, <3>1, <3>2, <4>2, <4>3 DEF CoverInv, Outranks
    <3>5. QED  BY <3>3, <3>4
  <2>9. \A j \in Shelves \ found'.todo : CoverInv(j)'
    BY <2>2, <2>7, <2>8
  <2>10. QED  BY <2>2, <2>3, <2>6, <2>9 DEF CardsInv
<1>5. QED  BY <1>3, <1>4 DEF Index

-----------------------------------------------------------------------------
(* The facets *)

\* what the statements return when they see what is there now
SpanNow ==
  LET prices == {product[p].price : p \in {q \in found.ids : Exists(q)}} IN
  IF prices = {} THEN None ELSE [lo |-> Min(prices), hi |-> Max(prices)]

CategoriesNow ==
  {[category |-> k, n |-> Cardinality(InCategory(found.ids, k))] :
     k \in {z \in Shelves : InCategory(found.ids, z) # {}}}

SizesNow == {[value |-> r.value, n |-> r.n, hex |-> 0] : r \in FacetsOn("size")}

\* While nothing is written, every answer is what it would be now.
FacetsInv ==
  /\ ColoursAreNotSplit
  /\ stage \notin {"idle", "missing"} /\ request.kind = "facets" /\ change.touched = {} =>
       /\ stage # "ids" => found.ids = Result
       /\ stage \notin {"ids", "span"} => found.span = SpanNow
       /\ stage \notin {"ids", "span", "categories"} => found.categories = CategoriesNow
       /\ stage \in {"sizes", "done"} => found.colours = FacetsOn("colour")
       /\ stage = "done" => found.sizes = SizesNow

LEMMA FacetsApart == \A r, z \in FacetsOn("colour") : r.value = z.value => r = z
<1> DEFINE rows == Tagged("colour")
<1> SUFFICES ASSUME NEW a \in rows, NEW b \in rows, FacetOf(a, rows).value = FacetOf(b, rows).value
             PROVE  FacetOf(a, rows) = FacetOf(b, rows)
  BY DEF FacetsOn
<1> HIDE DEF rows
<1>1. a[2].value = b[2].value
  BY DEF FacetOf
<1>2. {z \in rows : SameFacet(a[2], z[2])} = {z \in rows : SameFacet(b[2], z[2])}
  BY <1>1 DEF SameFacet
<1>3. QED  BY <1>1, <1>2 DEF FacetOf

\* They depend on the products and on the ids that were found.
LEMMA FacetsStay ==
  ASSUME product' = product, request' = request
  PROVE  /\ Result' = Result
         /\ found'.ids = found.ids =>
              /\ SpanNow' = SpanNow /\ CategoriesNow' = CategoriesNow
              /\ FacetsOn("colour")' = FacetsOn("colour") /\ SizesNow' = SizesNow
<1>1. Result' = Result
  BY DEF Result, Filtered, Matches, OnDisplay, Exists, Carries, OptionsOf
<1>2. ASSUME found'.ids = found.ids
      PROVE  /\ SpanNow' = SpanNow /\ CategoriesNow' = CategoriesNow
             /\ FacetsOn("colour")' = FacetsOn("colour") /\ SizesNow' = SizesNow
  <2>1. SpanNow' = SpanNow
    BY <1>2 DEF SpanNow, Exists
  <2>2. CategoriesNow' = CategoriesNow
    BY <1>2 DEF CategoriesNow, InCategory, Exists
  <2>3. Tagged("colour")' = Tagged("colour") /\ Tagged("size")' = Tagged("size")
    BY <1>2 DEF Tagged, OptionsOf
  <2>4. FacetsOn("colour")' = FacetsOn("colour") /\ FacetsOn("size")' = FacetsOn("size")
    BY <2>3 DEF FacetsOn
  <2>5. QED  BY <2>1, <2>2, <2>4 DEF SizesNow
<1>3. QED  BY <1>1, <1>2

LEMMA FacetsRead == ASSUME VisitInv, FacetsInv, Facets PROVE FacetsInv'
<1>1. /\ found \in Found /\ product' = product /\ request' = request /\ change' = change
      /\ request.kind = "facets" /\ stage \notin {"idle", "missing"}
  BY ReadFacts, KindOfStage
     DEF VisitInv, Facets, FindIds, Span, CountCategories, CountColours, CountSizes
<1>2. Result' = Result
  BY <1>1, FacetsStay
<1>3. ASSUME found'.ids = found.ids
      PROVE  /\ SpanNow' = SpanNow /\ CategoriesNow' = CategoriesNow
             /\ FacetsOn("colour")' = FacetsOn("colour") /\ SizesNow' = SizesNow
  BY <1>1, <1>3, FacetsStay
<1>4. CASE FindIds
  <2>1. /\ stage' = "span" /\ found'.ids = Result /\ found'.colours = found.colours
    BY <1>1, <1>4 DEF FindIds, Goto, Found
  <2>2. QED  BY <1>1, <1>2, <2>1 DEF FacetsInv, ColoursAreNotSplit
<1>5. CASE Span
  <2>1. /\ stage = "span" /\ stage' = "categories" /\ found'.ids = found.ids /\ found'.colours = found.colours
        /\ found'.span = SpanNow
    BY <1>1, <1>5 DEF Span, Goto, Found, SpanNow
  <2>2. QED  BY <1>1, <1>2, <1>3, <2>1 DEF FacetsInv, ColoursAreNotSplit
<1>6. CASE CountCategories
  <2>1. /\ stage = "categories" /\ stage' = "colours" /\ found'.ids = found.ids /\ found'.colours = found.colours
        /\ found'.span = found.span /\ found'.categories = CategoriesNow
    BY <1>1, <1>6 DEF CountCategories, Goto, Found, CategoriesNow
  <2>2. QED  BY <1>1, <1>2, <1>3, <2>1 DEF FacetsInv, ColoursAreNotSplit
<1>7. CASE CountColours
  <2>1. /\ stage = "colours" /\ stage' = "sizes" /\ found'.ids = found.ids /\ found'.colours = FacetsOn("colour")
        /\ found'.span = found.span /\ found'.categories = found.categories
    BY <1>1, <1>7 DEF CountColours, Goto, Found
  <2>2. ColoursAreNotSplit'
    BY <2>1, FacetsApart DEF ColoursAreNotSplit
  <2>3. QED  BY <1>1, <1>2, <1>3, <2>1, <2>2 DEF FacetsInv
<1>8. CASE CountSizes
  <2>1. /\ stage = "sizes" /\ stage' = "done" /\ found'.ids = found.ids /\ found'.colours = found.colours
        /\ found'.span = found.span /\ found'.categories = found.categories /\ found'.sizes = SizesNow
    BY <1>1, <1>8 DEF CountSizes, Goto, Found, SizesNow
  <2>2. QED  BY <1>1, <1>2, <1>3, <2>1 DEF FacetsInv, ColoursAreNotSplit
<1>9. QED  BY <1>4, <1>5, <1>6, <1>7, <1>8 DEF Facets

LEMMA FacetsWrite ==
  ASSUME VisitInv, FacetsInv, NEW p \in Products, NEW row, Writes(p, row)
  PROVE  FacetsInv'
<1>1. stage' = stage /\ request' = request /\ found' = found
  BY WriteFacts
<1>2. stage # "idle" => change'.touched # {}
  BY WriteFacts
<1>3. QED  BY <1>1, <1>2 DEF FacetsInv, ColoursAreNotSplit

-----------------------------------------------------------------------------
(* The facets keep their promise *)

\* Nothing chosen asks for nothing, and a plain value asks for itself.
LEMMA MultiIs ==
  /\ Multi({}) = {} /\ \A v \in Plain : Multi({v}) = {v}
  BY DEF Multi, Plain

\* Setting one more filter keeps, of the products shown, those that it asks for.
LEMMA Narrowed ==
  ASSUME NEW f \in Filters, NEW store, NEW p
  PROVE  /\ f.category = None =>
              \A k \in Shelves : Matches(p, store, [f EXCEPT !.category = k])
                                   <=> Matches(p, store, f) /\ product[p].category = k
         /\ Multi(f.colours) = {} =>
              \A v \in Plain : Matches(p, store, [f EXCEPT !.colours = {v}])
                       <=> Matches(p, store, f) /\ Carries(p, "colour", v)
         /\ Multi(f.sizes) = {} =>
              \A v \in Plain : Matches(p, store, [f EXCEPT !.sizes = {v}])
                       <=> Matches(p, store, f) /\ Carries(p, "size", v)
<1>1. ASSUME f.category = None, NEW k \in Shelves
      PROVE  Matches(p, store, [f EXCEPT !.category = k]) <=> Matches(p, store, f) /\ product[p].category = k
  BY <1>1, Constants DEF Filters, Matches
<1>2. ASSUME Multi(f.colours) = {}, NEW v \in Plain
      PROVE  Matches(p, store, [f EXCEPT !.colours = {v}]) <=> Matches(p, store, f) /\ Carries(p, "colour", v)
  BY <1>2, MultiIs DEF Filters, Matches
<1>3. ASSUME Multi(f.sizes) = {}, NEW v \in Plain
      PROVE  Matches(p, store, [f EXCEPT !.sizes = {v}]) <=> Matches(p, store, f) /\ Carries(p, "size", v)
  BY <1>3, MultiIs DEF Filters, Matches
<1>4. QED  BY <1>1, <1>2, <1>3

\* What a facet counts: the products with its value, and there is one when there are any.
LEMMA FacetCounts ==
  ASSUME found \in Found, product \in [Products -> Rows], NEW axis, NEW v
  PROVE  LET ps == {p \in found.ids : Carries(p, axis, v)} IN
         /\ \A r \in FacetsOn(axis) : r.value = v => r.n = Cardinality(ps)
         /\ ps # {} => \E r \in FacetsOn(axis) : r.value = v
<1> DEFINE ps == {p \in found.ids : Carries(p, axis, v)}
           rows == Tagged(axis)
<1>1. ASSUME NEW p
      PROVE  p \in ps <=> \E z \in rows : z[1] = p /\ z[2].value = v
  <2>1. ASSUME p \in ps PROVE \E z \in rows : z[1] = p /\ z[2].value = v
    <3>1. PICK o \in OptionsOf(p) : Axis[o.group] = axis /\ o.value = v
      BY <2>1 DEF Carries
    <3>2. <<p, o>> \in rows
      BY <2>1, <3>1, TaggedRows
    <3>3. QED  BY <3>1, <3>2
  <2>2. ASSUME NEW z \in rows, z[1] = p, z[2].value = v PROVE p \in ps
    <3>1. PICK q \in found.ids : \E o \in OptionsOf(q) : Axis[o.group] = axis /\ z = <<q, o>>
      BY TaggedRows
    <3>2. QED  BY <2>2, <3>1 DEF Carries
  <2>3. QED  BY <2>1, <2>2
<1> HIDE DEF rows
<1>2. ASSUME NEW a \in rows, FacetOf(a, rows).value = v PROVE FacetOf(a, rows).n = Cardinality(ps)
  <2> DEFINE alike == {z \in rows : SameFacet(a[2], z[2])}
  <2>1. a[2].value = v
    BY <1>2 DEF FacetOf
  <2>2. {z[1] : z \in alike} = ps
    <3> HIDE DEF ps
    <3>1. \A p : p \in {z[1] : z \in alike} <=> \E z \in rows : z[1] = p /\ z[2].value = v
      BY <2>1 DEF SameFacet
    <3>2. QED  BY <1>1, <3>1
  <2>3. FacetOf(a, rows).n = Cardinality({z[1] : z \in alike})
    BY DEF FacetOf
  <2>4. QED  BY <2>2, <2>3
<1>3. ASSUME NEW p \in ps PROVE \E a \in rows : FacetOf(a, rows).value = v
  <2>1. PICK z \in rows : z[2].value = v
    BY <1>1
  <2>2. FacetOf(z, rows).value = v
    BY <2>1 DEF FacetOf
  <2>3. QED  BY <2>2
<1>4. FacetsOn(axis) = {FacetOf(r, rows) : r \in rows}
  BY DEF FacetsOn, rows
<1>5. QED  BY <1>2, <1>3, <1>4

LEMMA OfferIs ==
  ASSUME found \in Found, product \in [Products -> Rows], NEW axis, NEW v
  PROVE  Offer(FacetsOn(axis), v) = Cardinality({p \in found.ids : Carries(p, axis, v)})
<1> DEFINE rows == FacetsOn(axis)
           ps == {p \in found.ids : Carries(p, axis, v)}
           n == Cardinality(ps)
<1>1. /\ \A r \in rows : r.value = v => r.n = n
      /\ ps # {} => \E r \in rows : r.value = v
  BY FacetCounts
<1>2. ps = {} => n = 0
  BY FS_EmptySet
<1> HIDE DEF rows, ps, n
<1>3. (\A r \in rows : r.value = v => r.n = n) /\ ((\E r \in rows : r.value = v) \/ n = 0)
  BY <1>1, <1>2
<1>4. Offer(rows, v) = n
  BY <1>3 DEF Offer
<1>5. QED  BY <1>4 DEF rows, ps, n

LEMMA SizeOfferIs ==
  ASSUME found \in Found, product \in [Products -> Rows], NEW v
  PROVE  Offer(SizesNow, v) = Cardinality({p \in found.ids : Carries(p, "size", v)})
<1> DEFINE rows == SizesNow
           ps == {p \in found.ids : Carries(p, "size", v)}
           n == Cardinality(ps)
<1>1. /\ \A r \in FacetsOn("size") : r.value = v => r.n = n
      /\ ps # {} => \E r \in FacetsOn("size") : r.value = v
  BY FacetCounts
<1>2. ps = {} => n = 0
  BY FS_EmptySet
<1> HIDE DEF ps, n
<1>3. ASSUME NEW r \in rows, r.value = v PROVE r.n = n
  <2>1. PICK z \in FacetsOn("size") : r = [value |-> z.value, n |-> z.n, hex |-> 0]
    BY DEF SizesNow
  <2>2. QED  BY <1>1, <1>3, <2>1
<1>4. ASSUME NEW z \in FacetsOn("size"), z.value = v PROVE \E r \in rows : r.value = v
  <2>1. [value |-> z.value, n |-> z.n, hex |-> 0] \in rows
    BY DEF SizesNow
  <2>2. QED  BY <1>4, <2>1
<1> HIDE DEF rows
<1>5. (\A r \in rows : r.value = v => r.n = n) /\ ((\E r \in rows : r.value = v) \/ n = 0)
  BY <1>1, <1>2, <1>3, <1>4
<1>6. Offer(rows, v) = n
  BY <1>5 DEF Offer
<1>7. QED  BY <1>6 DEF rows, ps, n

LEMMA ShelfIs ==
  ASSUME NEW k \in Shelves, NEW rows, rows = CategoriesNow
  PROVE  (IF \E r \in rows : r.category = k THEN (CHOOSE r \in rows : r.category = k).n ELSE 0)
           = Cardinality(InCategory(found.ids, k))
<1> DEFINE n == Cardinality(InCategory(found.ids, k))
<1>1. ASSUME NEW r \in rows, r.category = k PROVE r.n = n
  BY <1>1 DEF CategoriesNow
<1>2. CASE InCategory(found.ids, k) = {}
  <2>1. ~\E r \in rows : r.category = k
    BY <1>2 DEF CategoriesNow
  <2>2. n = 0
    BY <1>2, FS_EmptySet
  <2>3. QED  BY <2>1, <2>2
<1>3. CASE InCategory(found.ids, k) # {}
  <2>1. [category |-> k, n |-> n] \in rows
    BY <1>3 DEF CategoriesNow
  <2> HIDE DEF n
  <2>2. \E r \in rows : r.category = k
    BY <2>1
  <2>3. (CHOOSE r \in rows : r.category = k).n = n
    BY <1>1, <2>2
  <2>4. QED  BY <2>2, <2>3 DEF n
<1>4. QED  BY <1>2, <1>3

\* The price range of what is shown loses nothing, and is there when something is.
LEMMA SpanPromise ==
  ASSUME VisitInv, stage # "idle", found.ids = Result, found.span = SpanNow
  PROVE  LET f == request.filter IN
         /\ found.span # None =>
              Filtered(request.store, [f EXCEPT !.min = found.span.lo, !.max = found.span.hi]) = Result
         /\ found.span = None <=> Result = {}
<1> DEFINE f == request.filter
           prices == {product[p].price : p \in Result}
<1>0. f \in Filters /\ product \in [Products -> Rows]
  BY KindOfStage, RequestsAre DEF VisitInv
<1>1. Result \subseteq Products /\ {q \in found.ids : Exists(q)} = Result
  BY FiniteResult DEF Result, Filtered, Matches, OnDisplay
<1>2. found.span = IF prices = {} THEN None ELSE [lo |-> Min(prices), hi |-> Max(prices)]
  BY <1>1 DEF SpanNow
<1>3. prices = {} <=> Result = {}
  OBVIOUS
<1>4. IsFiniteSet(prices) /\ prices \subseteq Prices
  BY <1>0, <1>1, PricesFinite
<1>5. \A p \in Result : product[p].price \in prices
  OBVIOUS
<1> HIDE DEF prices
<1>6. prices # {} => /\ Min(prices) \in prices /\ Max(prices) \in prices
                     /\ \A n \in prices : Min(prices) <= n /\ n <= Max(prices)
  BY <1>4, SpanShape
<1>7. found.span = None <=> Result = {}
  <2>1. prices # {} => [lo |-> Min(prices), hi |-> Max(prices)] \in [lo: Prices, hi: Prices]
    BY <1>4, <1>6
  <2>2. QED  BY <1>2, <1>3, <2>1, Constants
<1>8. ASSUME found.span # None
      PROVE  Filtered(request.store, [f EXCEPT !.min = found.span.lo, !.max = found.span.hi]) = Result
  <2>1. PICK lo \in prices, hi \in prices :
          found.span = [lo |-> lo, hi |-> hi] /\ \A n \in prices : lo <= n /\ n <= hi
    BY <1>2, <1>6, <1>8
  <2>2. lo \in Prices /\ hi \in Prices /\ lo # None /\ hi # None /\ lo \in Nat /\ hi \in Nat
    BY <1>4, Constants
  <2> DEFINE g == [f EXCEPT !.min = lo, !.max = hi]
  <2>3. /\ g.min = lo /\ g.max = hi /\ g.category = f.category /\ g.colours = f.colours
        /\ g.sizes = f.sizes /\ g.q = f.q
    BY <1>0 DEF Filters
  <2> HIDE DEF g
  <2>4. ASSUME NEW p \in Products, Matches(p, request.store, f) PROVE Matches(p, request.store, g)
    <3>1. product[p].price \in prices
      BY <1>5, <2>4 DEF Result, Filtered
    <3>2. product[p].price >= lo /\ product[p].price <= hi
      BY <1>4, <2>1, <2>2, <3>1, Constants
    <3>3. QED  BY <2>3, <2>4, <3>2 DEF Matches
  <2>5. ASSUME NEW p \in Products, Matches(p, request.store, g) PROVE Matches(p, request.store, f)
    <3>1. product[p].price >= lo /\ product[p].price <= hi /\ product[p].price \in Nat
      <4>1. product[p].price \in Nat
        BY <1>0, Constants DEF Rows
      <4>2. QED  BY <2>2, <2>3, <2>5, <4>1 DEF Matches
    <3>2. f.min # None => f.min \in Nat /\ f.min <= lo
      <4>1. PICK q \in Result : product[q].price = lo
        BY DEF prices
      <4>2. QED  BY <1>0, <4>1, Constants DEF Result, Filtered, Matches, Filters
    <3>3. f.max # None => f.max \in Nat /\ hi <= f.max
      <4>1. PICK q \in Result : product[q].price = hi
        BY DEF prices
      <4>2. QED  BY <1>0, <4>1, Constants DEF Result, Filtered, Matches, Filters
    <3>4. /\ f.min # None => product[p].price >= f.min
          /\ f.max # None => product[p].price <= f.max
      BY <2>2, <3>1, <3>2, <3>3
    <3>5. QED  BY <2>3, <2>5, <3>4 DEF Matches
  <2>6. Filtered(request.store, g) = Result
    BY <2>4, <2>5 DEF Filtered, Result
  <2>7. QED  BY <2>1, <2>6 DEF g
<1>9. QED  BY <1>7, <1>8

LEMMA FacetsPromise ==
  ASSUME VisitInv, FacetsInv
  PROVE  FacetsKeepTheirPromise
<1> SUFFICES ASSUME Asked("facets"), change.touched = {} PROVE FacetsKeepTheirPromise
  BY DEF FacetsKeepTheirPromise
<1> DEFINE f == request.filter
           Size(g) == Cardinality(Filtered(request.store, g))
<1>1. stage = "done" /\ request.kind = "facets" /\ request \in Requests /\ f \in Filters
  BY KindOfStage, RequestsAre DEF Asked
<1>2. /\ found.ids = Result /\ found.span = SpanNow /\ found.categories = CategoriesNow
      /\ found.colours = FacetsOn("colour") /\ found.sizes = SizesNow
  BY <1>1 DEF FacetsInv
<1>3. found \in Found /\ product \in [Products -> Rows]
  BY DEF VisitInv
<1>4. \A p \in Result : Exists(p) /\ p \in Products
  BY DEF Result, Filtered, Matches, OnDisplay
<1>5. Cardinality(found.ids) = Size(f)
  BY <1>2 DEF Result
<1>6. ASSUME f.category = None, NEW k \in Shelves
      PROVE  Shelf(k) = Size([f EXCEPT !.category = k])
  <2>1. InCategory(found.ids, k) = Filtered(request.store, [f EXCEPT !.category = k])
    BY <1>1, <1>2, <1>4, <1>6, Narrowed DEF InCategory, Result, Filtered
  <2>2. Shelf(k) = Cardinality(InCategory(found.ids, k))
    BY <1>2, ShelfIs DEF Shelf
  <2>3. QED  BY <2>1, <2>2
<1>7. ASSUME Multi(f.colours) = {}, NEW v \in Plain
      PROVE  Offer(found.colours, v) = Size([f EXCEPT !.colours = {v}])
  <2>1. {p \in found.ids : Carries(p, "colour", v)} = Filtered(request.store, [f EXCEPT !.colours = {v}])
    BY <1>1, <1>2, <1>7, Narrowed DEF Result, Filtered
  <2>2. QED  BY <1>2, <1>3, <2>1, OfferIs
<1>8. ASSUME Multi(f.sizes) = {}, NEW v \in Plain
      PROVE  Offer(found.sizes, v) = Size([f EXCEPT !.sizes = {v}])
  <2>1. {p \in found.ids : Carries(p, "size", v)} = Filtered(request.store, [f EXCEPT !.sizes = {v}])
    BY <1>1, <1>2, <1>8, Narrowed DEF Result, Filtered
  <2>2. QED  BY <1>2, <1>3, <2>1, SizeOfferIs
<1>9. /\ found.span # None => Size([f EXCEPT !.min = found.span.lo, !.max = found.span.hi]) = Size(f)
      /\ found.span = None <=> Size(f) = 0
  <2>1. Result = Filtered(request.store, f)
    BY DEF Result
  <2>2. Cardinality(Result) = 0 <=> Result = {}
    BY FiniteResult, FS_EmptySet
  <2>3. QED  BY <1>1, <1>2, <2>1, <2>2, SpanPromise
<1>10. QED  BY <1>5, <1>6, <1>7, <1>8, <1>9 DEF FacetsKeepTheirPromise

-----------------------------------------------------------------------------
(* Facets that go stale *)

\* the products of the facets that were left alone, those of a category, those with a value
Alone == found.ids \ change.touched
AloneIn(k) == {p \in Alone : product[p].category = k}
AloneHas(axis, v) == {p \in Alone : Carries(p, axis, v)}

\* a number between that of some products and that of all
Within(n, S) == n \in Nat /\ Cardinality(S) <= n /\ n <= Cardinality(found.ids)

StaleInv ==
  stage \notin {"idle", "missing"} /\ request.kind = "facets" =>
    /\ stage \notin {"ids", "span"} =>
         \A p \in Alone : /\ found.span # None
                          /\ found.span.lo <= product[p].price /\ product[p].price <= found.span.hi
    /\ stage \in {"colours", "sizes", "done"} => \A k \in Shelves : Within(Shelf(k), AloneIn(k))
    /\ stage \in {"sizes", "done"} =>
         \A v \in Values : Within(Offer(found.colours, v), AloneHas("colour", v))
    /\ stage = "done" => \A v \in Values : Within(Offer(found.sizes, v), AloneHas("size", v))

\* What was counted of the ids bounds what was left alone of them.
LEMMA CountedIsWithin ==
  ASSUME found \in Found, NEW C \in SUBSET found.ids, NEW S \in SUBSET C
  PROVE  Within(Cardinality(C), S)
<1>1. found.ids \in SUBSET Products
  BY DEF Found
<1>2. IsFiniteSet(found.ids)
  BY <1>1, Constants, FS_Subset
<1>3. IsFiniteSet(C) /\ Cardinality(C) <= Cardinality(found.ids)
  BY <1>2, FS_Subset
<1>4. Cardinality(S) <= Cardinality(C) /\ Cardinality(C) \in Nat
  BY <1>3, FS_Subset, FS_CardinalityType
<1>5. QED  BY <1>3, <1>4 DEF Within

\* A bound for some products is one for fewer of them.
LEMMA WithinFewer ==
  ASSUME found \in Found, NEW n, NEW S \in SUBSET found.ids, NEW T \in SUBSET S, Within(n, S)
  PROVE  Within(n, T)
<1>1. found.ids \in SUBSET Products
  BY DEF Found
<1>2. IsFiniteSet(S)
  BY <1>1, Constants, FS_Subset
<1> DEFINE s == Cardinality(S)
           t == Cardinality(T)
<1>3. s \in Nat /\ t \in Nat /\ t <= s /\ s <= n /\ n \in Nat
  BY <1>2, FS_Subset, FS_CardinalityType DEF Within
<1> HIDE DEF s, t
<1>4. t <= n
  BY <1>3
<1>5. QED  BY <1>4 DEF Within, t

\* A write leaves fewer products alone, and those as they were.
LEMMA AloneShrinks ==
  ASSUME VisitInv, stage # "idle", NEW p \in Products, NEW row, Writes(p, row)
  PROVE  /\ Alone' \subseteq Alone /\ \A q \in Alone' : product'[q] = product[q]
         /\ \A k : AloneIn(k)' \subseteq AloneIn(k)
         /\ \A axis, v : AloneHas(axis, v)' \subseteq AloneHas(axis, v)
<1>1. found' = found /\ found.ids \subseteq Products /\ change'.touched = change.touched \cup {p}
  BY WriteFacts DEF VisitInv, Found
<1>2. Alone' \subseteq Alone /\ \A q \in Alone' : product'[q] = product[q]
  BY <1>1, WriteFacts DEF Alone
<1>3. \A k : AloneIn(k)' \subseteq AloneIn(k)
  BY <1>2 DEF AloneIn
<1>4. ASSUME NEW axis, NEW v PROVE AloneHas(axis, v)' \subseteq AloneHas(axis, v)
  BY <1>2 DEF AloneHas, Carries, OptionsOf
<1>5. QED  BY <1>2, <1>3, <1>4

LEMMA StaleWrite ==
  ASSUME VisitInv, StaleInv, NEW p \in Products, NEW row, Writes(p, row)
  PROVE  StaleInv'
<1> SUFFICES ASSUME stage' \notin {"idle", "missing"}, request'.kind = "facets" PROVE StaleInv'
  BY DEF StaleInv
<1>1. stage' = stage /\ request' = request /\ found' = found /\ stage # "idle" /\ found \in Found
  BY WriteFacts DEF VisitInv
<1>2. /\ Alone' \subseteq Alone /\ \A q \in Alone' : product'[q] = product[q]
      /\ \A k : AloneIn(k)' \subseteq AloneIn(k)
      /\ \A axis, v : AloneHas(axis, v)' \subseteq AloneHas(axis, v)
  BY <1>1, AloneShrinks
<1>3. Alone \subseteq found.ids /\ \A k : AloneIn(k) \subseteq found.ids
  BY DEF Alone, AloneIn
<1>4. \A axis, v : AloneHas(axis, v) \subseteq found.ids
  BY <1>3 DEF AloneHas
<1>5. \A n, S : Within(n, S)' = Within(n, S)
  BY <1>1 DEF Within
<1>6. \A k : Shelf(k)' = Shelf(k)
  BY <1>1 DEF Shelf
<1>7. ASSUME stage \notin {"ids", "span"}, NEW q \in Alone'
      PROVE  found'.span # None /\ found'.span.lo <= product'[q].price /\ product'[q].price <= found'.span.hi
  BY <1>1, <1>2, <1>7 DEF StaleInv
<1>8. ASSUME stage \in {"colours", "sizes", "done"}, NEW k \in Shelves
      PROVE  Within(Shelf(k), AloneIn(k))'
  <2> DEFINE S == AloneIn(k)
             T == AloneIn(k)'
             n == Shelf(k)
  <2>1. Within(n, S) /\ S \in SUBSET found.ids /\ T \in SUBSET S
    BY <1>1, <1>2, <1>3, <1>8 DEF StaleInv
  <2>2. Within(n, T)
    <3> HIDE DEF S, T, n
    <3>1. QED  BY <1>1, <2>1, WithinFewer
  <2>3. QED  BY <1>1, <1>6, <2>2 DEF Within
<1>9. ASSUME NEW axis, NEW v, NEW rows, Within(Offer(rows, v), AloneHas(axis, v))
      PROVE  Within(Offer(rows, v), AloneHas(axis, v))'
  <2> DEFINE S == AloneHas(axis, v)
             T == AloneHas(axis, v)'
             n == Offer(rows, v)
  <2>1. Within(n, S) /\ S \in SUBSET found.ids /\ T \in SUBSET S
    BY <1>2, <1>4, <1>9
  <2>2. Within(n, T)
    <3> HIDE DEF S, T, n
    <3>1. QED  BY <1>1, <2>1, WithinFewer
  <2>3. QED  BY <1>1, <2>2 DEF Within, Offer
<1>10. /\ stage \in {"sizes", "done"} =>
            \A v \in Values : Within(Offer(found.colours, v), AloneHas("colour", v))'
       /\ stage = "done" => \A v \in Values : Within(Offer(found.sizes, v), AloneHas("size", v))'
  <2>1. PICK colours, sizes : colours = found.colours /\ sizes = found.sizes
    OBVIOUS
  <2>2. colours = found'.colours /\ sizes = found'.sizes
    BY <1>1, <2>1
  <2>3. /\ stage \in {"sizes", "done"} =>
             \A v \in Values : Within(Offer(colours, v), AloneHas("colour", v))'
        /\ stage = "done" => \A v \in Values : Within(Offer(sizes, v), AloneHas("size", v))'
    BY <1>1, <1>9, <2>1 DEF StaleInv
  <2>4. QED  BY <2>1, <2>2, <2>3
<1>11. QED  BY <1>1, <1>7, <1>8, <1>10 DEF StaleInv

\* Each statement counts of the ids what is there, and so at least what was left alone.
LEMMA StaleRead == ASSUME VisitInv, ToldInv, StaleInv, Facets PROVE StaleInv'
<1>1. /\ found \in Found /\ product' = product /\ request' = request /\ change' = change
      /\ request.kind = "facets" /\ stage \notin {"idle", "missing"} /\ product \in [Products -> Rows]
  BY ReadFacts, KindOfStage
     DEF VisitInv, Facets, FindIds, Span, CountCategories, CountColours, CountSizes
<1>2. ASSUME found'.ids = found.ids
      PROVE  /\ Alone' = Alone /\ \A k : AloneIn(k)' = AloneIn(k)
             /\ \A axis, v : AloneHas(axis, v)' = AloneHas(axis, v)
             /\ \A n, S : Within(n, S)' = Within(n, S)
  BY <1>1, <1>2 DEF Alone, AloneIn, AloneHas, Within, Carries, OptionsOf
<1>3. \A p \in Alone : p \in Products /\ Exists(p)
  BY <1>1 DEF Alone, ToldInv, Tells, Shows, OnDisplay, Found
<1>4. CASE FindIds
  <2>1. stage' = "span"
    BY <1>4 DEF FindIds, Goto
  <2>2. QED  BY <2>1 DEF StaleInv
<1>5. CASE Span
  <2> DEFINE S == {q \in found.ids : Exists(q)}
             prices == {product[p].price : p \in S}
  <2>1. stage' = "categories" /\ found'.ids = found.ids
    BY <1>1, <1>5 DEF Span, Goto, Found
  <2>2. found'.span = IF prices = {} THEN None ELSE [lo |-> Min(prices), hi |-> Max(prices)]
    BY <1>1, <1>5 DEF Span, Found
  <2>3. S \in SUBSET Products /\ \A p \in Alone : product[p].price \in prices
    BY <1>1, <1>3 DEF Found, Alone
  <2>4. IsFiniteSet(prices) /\ prices \subseteq Prices
    <3> HIDE DEF S
    <3>1. QED  BY <1>1, <2>3, PricesFinite
  <2> HIDE DEF prices
  <2>5. ASSUME NEW p \in Alone
        PROVE  found'.span # None /\ found'.span.lo <= product[p].price /\ product[p].price <= found'.span.hi
    <3>1. prices # {} /\ product[p].price \in prices
      BY <2>3
    <3>2. /\ Min(prices) \in Prices /\ Max(prices) \in Prices
          /\ Min(prices) <= product[p].price /\ product[p].price <= Max(prices)
      BY <2>4, <3>1, SpanShape
    <3>3. found'.span = [lo |-> Min(prices), hi |-> Max(prices)]
      BY <2>2, <3>1
    <3>4. found'.span \in [lo: Prices, hi: Prices]
      BY <3>2, <3>3
    <3>5. QED  BY <3>2, <3>3, <3>4, Constants
  <2>6. QED  BY <1>1, <1>2, <2>1, <2>5 DEF StaleInv
<1>6. CASE CountCategories
  <2>1. /\ stage = "categories" /\ stage' = "colours" /\ found'.ids = found.ids /\ found'.span = found.span
        /\ found'.categories = CategoriesNow
    BY <1>1, <1>6 DEF CountCategories, Goto, Found, CategoriesNow
  <2>2. ASSUME NEW k \in Shelves PROVE Within(Shelf(k), AloneIn(k))'
    <3> DEFINE C == InCategory(found.ids, k)
    <3>1. Shelf(k)' = Cardinality(C)
      BY <2>1, ShelfIs DEF Shelf
    <3>2. C \in SUBSET found.ids /\ AloneIn(k) \in SUBSET C
      BY <1>3 DEF InCategory, AloneIn, Alone
    <3>3. Within(Cardinality(C), AloneIn(k))
      <4> HIDE DEF C
      <4>1. QED  BY <1>1, <3>2, CountedIsWithin
    <3>4. QED  BY <1>2, <2>1, <3>1, <3>3 DEF Within
  <2>3. QED  BY <1>1, <1>2, <2>1, <2>2 DEF StaleInv
<1>7. ASSUME NEW axis, NEW v
      PROVE  Within(Cardinality({p \in found.ids : Carries(p, axis, v)}), AloneHas(axis, v))
  <2> DEFINE C == {p \in found.ids : Carries(p, axis, v)}
  <2>1. C \in SUBSET found.ids /\ AloneHas(axis, v) \in SUBSET C
    BY DEF AloneHas, Alone
  <2> HIDE DEF C
  <2>2. Within(Cardinality(C), AloneHas(axis, v))
    BY <1>1, <2>1, CountedIsWithin
  <2>3. QED  BY <2>2 DEF C
<1>8. CASE CountColours
  <2>1. /\ stage = "colours" /\ stage' = "sizes" /\ found'.ids = found.ids /\ found'.span = found.span
        /\ found'.categories = found.categories /\ found'.colours = FacetsOn("colour")
    BY <1>1, <1>8 DEF CountColours, Goto, Found
  <2>2. ASSUME NEW v \in Values PROVE Within(Offer(found.colours, v), AloneHas("colour", v))'
    <3>1. Offer(found.colours, v)' = Cardinality({p \in found.ids : Carries(p, "colour", v)})
      <4>1. PICK rows : rows = FacetsOn("colour")
        OBVIOUS
      <4>2. Offer(rows, v) = Cardinality({p \in found.ids : Carries(p, "colour", v)})
        BY <1>1, <4>1, OfferIs
      <4>3. found'.colours = rows
        BY <2>1, <4>1
      <4>4. QED  BY <4>2, <4>3 DEF Offer
    <3>2. QED  BY <1>2, <1>7, <2>1, <3>1 DEF Within
  <2>3. \A k \in Shelves : Shelf(k)' = Shelf(k)
    BY <2>1 DEF Shelf
  <2>4. ASSUME NEW k \in Shelves PROVE Within(Shelf(k), AloneIn(k))'
    BY <1>1, <1>2, <2>1, <2>3 DEF StaleInv, Within
  <2>5. QED  BY <1>1, <1>2, <2>1, <2>2, <2>4 DEF StaleInv
<1>9. CASE CountSizes
  <2>1. /\ stage = "sizes" /\ stage' = "done" /\ found'.ids = found.ids /\ found'.span = found.span
        /\ found'.categories = found.categories /\ found'.colours = found.colours /\ found'.sizes = SizesNow
    BY <1>1, <1>9 DEF CountSizes, Goto, Found, SizesNow
  <2>2. ASSUME NEW v \in Values PROVE Within(Offer(found.sizes, v), AloneHas("size", v))'
    <3>1. Offer(found.sizes, v)' = Cardinality({p \in found.ids : Carries(p, "size", v)})
      <4>1. PICK rows : rows = SizesNow
        OBVIOUS
      <4>2. Offer(rows, v) = Cardinality({p \in found.ids : Carries(p, "size", v)})
        BY <1>1, <4>1, SizeOfferIs
      <4>3. found'.sizes = rows
        BY <2>1, <4>1
      <4>4. QED  BY <4>2, <4>3 DEF Offer
    <3>2. QED  BY <1>2, <1>7, <2>1, <3>1 DEF Within
  <2>3. \A k \in Shelves : Shelf(k)' = Shelf(k)
    BY <2>1 DEF Shelf
  <2>4. ASSUME NEW k \in Shelves PROVE Within(Shelf(k), AloneIn(k))'
    BY <1>1, <1>2, <2>1, <2>3 DEF StaleInv, Within
  <2>5. ASSUME NEW v \in Values PROVE Within(Offer(found.colours, v), AloneHas("colour", v))'
    <3>1. Offer(found.colours, v)' = Offer(found.colours, v)
      BY <2>1 DEF Offer
    <3>2. QED  BY <1>1, <1>2, <2>1, <3>1 DEF StaleInv, Within
  <2>6. QED  BY <1>1, <1>2, <2>1, <2>2, <2>4, <2>5 DEF StaleInv
<1>10. QED  BY <1>4, <1>5, <1>6, <1>8, <1>9 DEF Facets

LEMMA StaleFollows == VisitInv /\ StaleInv => StaleValuesAreBounded
<1> SUFFICES ASSUME VisitInv, StaleInv, Asked("facets") PROVE StaleValuesAreBounded
  BY DEF StaleValuesAreBounded
<1>1. /\ \A p \in Alone : found.span.lo <= product[p].price /\ product[p].price <= found.span.hi
      /\ \A k \in Shelves : Within(Shelf(k), AloneIn(k))
      /\ \A v \in Values : Within(Offer(found.colours, v), AloneHas("colour", v))
      /\ \A v \in Values : Within(Offer(found.sizes, v), AloneHas("size", v))
  BY DEF StaleInv, Asked
<1>2. ASSUME NEW n, NEW S \in SUBSET found.ids, Within(n, S)
      PROVE  n \in Cardinality(S)..Cardinality(found.ids)
  <2>1. found.ids \in SUBSET Products
    BY DEF VisitInv, Found
  <2>2. IsFiniteSet(found.ids) /\ IsFiniteSet(S)
    BY <2>1, Constants, FS_Subset
  <2>3. Cardinality(S) \in Nat /\ Cardinality(found.ids) \in Nat
    BY <2>2, FS_CardinalityType
  <2>4. QED  BY <1>2, <2>3 DEF Within
<1>3. Alone \subseteq found.ids /\ \A k : AloneIn(k) \subseteq found.ids
  BY DEF Alone, AloneIn
<1>4. \A axis, v : AloneHas(axis, v) \subseteq found.ids
  BY <1>3 DEF AloneHas
<1>5. \A k \in Shelves : Shelf(k) \in Cardinality(AloneIn(k))..Cardinality(found.ids)
  BY <1>1, <1>2, <1>3
<1>6. \A v \in Values : /\ Offer(found.colours, v) \in Cardinality(AloneHas("colour", v))..Cardinality(found.ids)
                        /\ Offer(found.sizes, v) \in Cardinality(AloneHas("size", v))..Cardinality(found.ids)
  BY <1>1, <1>2, <1>4
<1>7. QED  BY <1>1, <1>5, <1>6 DEF StaleValuesAreBounded, Alone, AloneIn, AloneHas

-----------------------------------------------------------------------------
(* The categories of facets that go stale *)

\* Of a finite set that is divided into parts, as many marks are made as it has elements.
LEMMA PartsAddUp ==
  ASSUME NEW C, IsFiniteSet(C), NEW K, NEW part \in [K -> SUBSET C],
         \A p \in C : \E k \in K : p \in part[k],
         \A j, k \in K : \A p \in part[j] : p \in part[k] => j = k,
         NEW n \in [K -> Nat], \A k \in K : n[k] = Cardinality(part[k])
  PROVE  Cardinality(UNION {{k} \X (1..n[k]) : k \in K}) = Cardinality(C)
<1> DEFINE marks == UNION {{k} \X (1..n[k]) : k \in K}
           at == [p \in C |-> CHOOSE k \in K : p \in part[k]]
           nth == [k \in K |-> CHOOSE g : g \in Bijection(part[k], 1..n[k])]
           mark == [p \in C |-> <<at[p], nth[at[p]][p]>>]
<1>1. at \in [C -> K] /\ \A p \in C : p \in part[at[p]]
  OBVIOUS
<1>2. ASSUME NEW k \in K, NEW p \in part[k] PROVE p \in C /\ at[p] = k
  BY <1>1, <1>2
<1> HIDE DEF at
<1>3. ASSUME NEW k \in K PROVE nth[k] \in Bijection(part[k], 1..n[k])
  <2> DEFINE S == part[k]
             T == 1..n[k]
             c == n[k]
  <2>1. S \in SUBSET C /\ c \in Nat /\ c = Cardinality(S)
    OBVIOUS
  <2>2. IsFiniteSet(T) /\ Cardinality(T) = c
    <3>1. T = 1..c
      OBVIOUS
    <3> HIDE DEF T, c
    <3>2. QED  BY <2>1, <3>1, FS_Interval
  <2>3. IsFiniteSet(S)
    BY <2>1, FS_Subset
  <2> HIDE DEF S, T, c
  <2>4. \E g : g \in Bijection(S, T)
    BY <2>1, <2>2, <2>3, FS_SameCardinalityBij DEF ExistsBijection
  <2>5. QED  BY <2>4 DEF S, T
<1> HIDE DEF nth
<1>4. ASSUME NEW k \in K
      PROVE  /\ nth[k] \in [part[k] -> 1..n[k]]
             /\ \A p, q \in part[k] : nth[k][p] = nth[k][q] => p = q
             /\ \A i \in 1..n[k] : \E p \in part[k] : nth[k][p] = i
  <2> DEFINE g == nth[k]
             S == part[k]
             T == 1..n[k]
  <2>1. g \in Bijection(S, T)
    BY <1>3
  <2> HIDE DEF g, S, T
  <2>2. g \in [S -> T] /\ (\A p, q \in S : g[p] = g[q] => p = q) /\ (\A i \in T : \E p \in S : g[p] = i)
    BY <2>1 DEF Bijection, Injection, Surjection, IsInjective
  <2>3. QED  BY <2>2 DEF g, S, T
<1>5. \A m : m \in marks <=> \E k \in K : \E i \in 1..n[k] : m = <<k, i>>
  OBVIOUS
<1> HIDE DEF marks
<1>6. ASSUME NEW p \in C PROVE mark[p] \in marks /\ mark[p] = <<at[p], nth[at[p]][p]>>
  <2>1. at[p] \in K /\ p \in part[at[p]]
    BY <1>1
  <2>2. nth[at[p]][p] \in 1..n[at[p]]
    BY <1>4, <2>1
  <2>3. QED  BY <1>5, <2>1, <2>2
<1>7. mark \in [C -> marks]
  BY <1>6
<1> HIDE DEF mark
<1>8. ASSUME NEW p \in C, NEW q \in C, mark[p] = mark[q] PROVE p = q
  <2>1. at[p] = at[q] /\ nth[at[p]][p] = nth[at[q]][q]
    BY <1>6, <1>8
  <2>2. at[p] \in K /\ p \in part[at[p]] /\ q \in part[at[p]]
    BY <1>1, <2>1
  <2>3. QED  BY <1>4, <2>1, <2>2
<1>9. ASSUME NEW m \in marks PROVE \E p \in C : mark[p] = m
  <2>1. PICK k \in K : \E i \in 1..n[k] : m = <<k, i>>
    BY <1>5
  <2>2. PICK i \in 1..n[k] : m = <<k, i>>
    BY <2>1
  <2>3. PICK p \in part[k] : nth[k][p] = i
    BY <1>4
  <2>4. p \in C /\ at[p] = k
    BY <1>2
  <2>5. mark[p] = <<at[p], nth[at[p]][p]>>
    BY <1>6, <2>4
  <2>6. QED  BY <2>2, <2>3, <2>4, <2>5
<1>10. mark \in Bijection(C, marks)
  BY <1>7, <1>8, <1>9 DEF Bijection, Injection, Surjection, IsInjective
<1>11. Cardinality(marks) = Cardinality(C)
  BY <1>10, FS_Bijection DEF ExistsBijection
<1>12. QED  BY <1>11 DEF marks

ShelvesInv ==
  stage \in {"colours", "sizes", "done"} /\ request.kind = "facets" => Within(Cardinality(Marks), Alone)

LEMMA MarksStay == ASSUME found'.categories = found.categories PROVE Marks' = Marks
<1>1. \A k : Shelf(k)' = Shelf(k)
  BY DEF Shelf
<1>2. QED  BY <1>1 DEF Marks

LEMMA ShelvesWrite ==
  ASSUME VisitInv, ShelvesInv, NEW p \in Products, NEW row, Writes(p, row)
  PROVE  ShelvesInv'
<1>1. stage' = stage /\ request' = request /\ found' = found /\ found \in Found
  BY WriteFacts DEF VisitInv
<1>2. Marks' = Marks
  BY <1>1, MarksStay
<1>3. ASSUME stage \in {"colours", "sizes", "done"}, request.kind = "facets"
      PROVE  Within(Cardinality(Marks), Alone)'
  <2> DEFINE S == Alone
             T == Alone'
             n == Cardinality(Marks)
  <2>1. Within(n, S) /\ S \in SUBSET found.ids /\ T \in SUBSET S
    BY <1>3, AloneShrinks DEF ShelvesInv, Alone
  <2>2. Within(n, T)
    <3> HIDE DEF S, T, n
    <3>1. QED  BY <1>1, <2>1, WithinFewer
  <2>3. QED  BY <1>1, <1>2, <2>2 DEF Within
<1>4. QED  BY <1>1, <1>3 DEF ShelvesInv

\* A product of the ids has one category, so the categories are counted from parts of the ids.
LEMMA ShelvesRead == ASSUME VisitInv, ToldInv, ShelvesInv, Facets PROVE ShelvesInv'
<1>1. /\ found \in Found /\ product' = product /\ request' = request /\ change' = change
      /\ request.kind = "facets" /\ stage \notin {"idle", "missing"} /\ product \in [Products -> Rows]
  BY ReadFacts, KindOfStage
     DEF VisitInv, Facets, FindIds, Span, CountCategories, CountColours, CountSizes
<1>2. CASE FindIds \/ Span
  BY <1>2 DEF ShelvesInv, FindIds, Span, Goto
<1>3. CASE CountColours \/ CountSizes
  <2>1. /\ found'.ids = found.ids /\ found'.categories = found.categories
        /\ stage \in {"colours", "sizes"}
    BY <1>1, <1>3 DEF CountColours, CountSizes, Found
  <2>2. Marks' = Marks /\ Alone' = Alone
    BY <1>1, <2>1, MarksStay DEF Alone
  <2>3. Within(Cardinality(Marks), Alone)
    BY <1>1, <2>1 DEF ShelvesInv
  <2>4. QED  BY <2>1, <2>2, <2>3 DEF ShelvesInv, Within
<1>4. CASE CountCategories
  <2> DEFINE C == {p \in found.ids : Exists(p)}
             part == [k \in Shelves |-> InCategory(found.ids, k)]
             n == [k \in Shelves |-> Cardinality(InCategory(found.ids, k))]
  <2>1. found'.ids = found.ids /\ found'.categories = CategoriesNow
    BY <1>1, <1>4 DEF CountCategories, Found, CategoriesNow
  <2>2. C \in SUBSET found.ids /\ found.ids \in SUBSET Products /\ IsFiniteSet(found.ids)
    <3>1. found.ids \in SUBSET Products
      BY <1>1 DEF Found
    <3>2. IsFiniteSet(found.ids)
      BY <3>1, Constants, FS_Subset
    <3>3. QED  BY <3>1, <3>2
  <2>3. IsFiniteSet(C)
    <3> HIDE DEF C
    <3>1. QED  BY <2>2, FS_Subset
  <2>4. part \in [Shelves -> SUBSET C]
    BY DEF InCategory
  <2>5. \A p \in C : \E k \in Shelves : p \in part[k]
    BY <1>1, <2>2 DEF InCategory, Rows
  <2>6. \A j, k \in Shelves : \A p \in part[j] : p \in part[k] => j = k
    BY DEF InCategory
  <2>7. n \in [Shelves -> Nat] /\ \A k \in Shelves : n[k] = Cardinality(part[k])
    <3>1. ASSUME NEW k \in Shelves PROVE Cardinality(InCategory(found.ids, k)) \in Nat
      <4>1. InCategory(found.ids, k) \in SUBSET found.ids
        BY DEF InCategory
      <4>2. QED  BY <2>2, <4>1, FS_Subset, FS_CardinalityType
    <3>2. QED  BY <3>1
  <2>8. Marks' = UNION {{k} \X (1..n[k]) : k \in Shelves}
    <3>1. \A k \in Shelves : Shelf(k)' = n[k]
      BY <2>1, ShelfIs DEF Shelf
    <3> HIDE DEF n
    <3>2. QED  BY <3>1 DEF Marks
  <2>9. Alone \in SUBSET C
    BY <1>1, <2>2 DEF Alone, ToldInv, Tells, Shows, OnDisplay
  <2> HIDE DEF C, part, n
  <2>10. Cardinality(Marks') = Cardinality(C)
    BY <2>3, <2>4, <2>5, <2>6, <2>7, <2>8, PartsAddUp
  <2>11. Within(Cardinality(C), Alone)
    BY <1>1, <2>2, <2>9, CountedIsWithin
  <2>12. Alone' = Alone
    BY <1>1, <2>1 DEF Alone
  <2>13. QED  BY <2>1, <2>10, <2>11, <2>12 DEF ShelvesInv, Within
<1>5. QED  BY <1>2, <1>3, <1>4 DEF Facets

LEMMA ShelvesFollow == VisitInv /\ ShelvesInv => StaleShelvesAreBounded
<1> SUFFICES ASSUME VisitInv, ShelvesInv, Asked("facets") PROVE StaleShelvesAreBounded
  BY DEF StaleShelvesAreBounded
<1>1. Within(Cardinality(Marks), Alone)
  BY DEF ShelvesInv, Asked
<1>2. found.ids \in SUBSET Products /\ Alone \in SUBSET found.ids
  BY DEF VisitInv, Found, Alone
<1>3. IsFiniteSet(found.ids) /\ IsFiniteSet(Alone)
  BY <1>2, Constants, FS_Subset
<1>4. Cardinality(Alone) \in Nat /\ Cardinality(found.ids) \in Nat
  BY <1>3, FS_CardinalityType
<1>5. Cardinality(Marks) \in Cardinality(Alone)..Cardinality(found.ids)
  BY <1>1, <1>4 DEF Within
<1>6. QED  BY <1>5 DEF StaleShelvesAreBounded, Alone

-----------------------------------------------------------------------------
(* The invariant, and what follows from it *)

StorefrontInv == VisitInv /\ ToldInv /\ FacetsInv /\ StaleInv /\ ShelvesInv /\ CardsInv /\ DetailInv

LEMMA VisitOpens == ASSUME VisitInv, Visit PROVE FacetsInv' /\ StaleInv' /\ ShelvesInv' /\ CardsInv' /\ DetailInv'
<1>1. PICK r \in Requests :
        /\ request' = r
        /\ stage' = IF r.store = None THEN "missing" ELSE Opening[r.kind]
        /\ found' = [Blank EXCEPT !.offset = Max({0, r.offset})]
  BY DEF Visit
<1>2. found'.colours = {} /\ found'.todo = Shelves /\ found'.parts = {}
  BY <1>1 DEF Blank
<1>3. \/ stage' = "missing"
      \/ stage' = "count" /\ request'.kind = "page"
      \/ stage' = "ids" /\ request'.kind = "facets"
      \/ stage' = "tally" /\ request'.kind = "index"
      \/ stage' = "row" /\ request'.kind = "detail"
  <2>1. r.kind \in {"page", "facets", "index", "detail"}
    BY Constants DEF Asks
  <2>2. Opening["page"] = "count" /\ Opening["facets"] = "ids" /\ Opening["index"] = "tally" /\ Opening["detail"] = "row"
    BY DEF Opening
  <2>3. QED  BY <1>1, <2>1, <2>2
<1>4. FacetsInv'
  BY <1>2, <1>3 DEF FacetsInv, ColoursAreNotSplit
<1>5. CardsInv'
  BY <1>2, <1>3 DEF CardsInv
<1>6. DetailInv'
  BY <1>2, <1>3, BeforeIs DEF DetailInv, OnDetail
<1>7. StaleInv' /\ ShelvesInv'
  BY <1>3 DEF StaleInv, ShelvesInv
<1>8. QED  BY <1>4, <1>5, <1>6, <1>7

\* A statement of one kind of visit is no business of the others.
LEMMA ElsewhereKeeps ==
  ASSUME VisitInv
  PROVE  /\ FacetsInv /\ (Grid \/ Index \/ Detail) => FacetsInv'
         /\ Grid \/ Index \/ Detail => StaleInv' /\ ShelvesInv'
         /\ Facets \/ Grid \/ Detail => CardsInv'
         /\ Facets \/ Grid \/ Index => DetailInv'
<1>1. found \in Found
  BY DEF VisitInv
<1>2. ASSUME Facets
      PROVE  request'.kind = "facets" /\ stage' # "tally"
  BY <1>2, KindOfStage DEF Facets, FindIds, Span, CountCategories, CountColours, CountSizes, Goto
<1>3. ASSUME Grid
      PROVE  request'.kind = "page" /\ stage' # "tally" /\ found'.colours = found.colours
  BY <1>1, <1>3, KindOfStage DEF Grid, CountPage, SlicePage, Goto, Found
<1>4. ASSUME Index
      PROVE  request'.kind = "index" /\ found'.colours = found.colours
  BY <1>1, <1>4, KindOfStage DEF Index, Tally, PickCover, Goto, Found
<1>5. ASSUME Detail
      PROVE  request'.kind = "detail" /\ stage' # "tally" /\ found'.colours = found.colours
  <2>1. CASE FindRow
    BY <2>1, KindOfStage DEF FindRow, Goto
  <2>2. CASE Prefetch
    BY <1>1, <2>2, PartsAre, PartsFollow, KindOfStage DEF Prefetch, Goto, Found
  <2>3. QED  BY <1>5, <2>1, <2>2 DEF Detail
<1>6. ASSUME FacetsInv, Grid \/ Index \/ Detail PROVE FacetsInv'
  BY <1>3, <1>4, <1>5, <1>6 DEF FacetsInv, ColoursAreNotSplit
<1>7. ASSUME Facets \/ Grid \/ Detail PROVE CardsInv'
  BY <1>2, <1>3, <1>5, <1>7 DEF CardsInv
<1>8. ASSUME Facets \/ Grid \/ Index PROVE DetailInv'
  BY <1>2, <1>3, <1>4, <1>8 DEF DetailInv, OnDetail
<1>9. ASSUME Grid \/ Index \/ Detail PROVE StaleInv' /\ ShelvesInv'
  BY <1>3, <1>4, <1>5, <1>9 DEF StaleInv, ShelvesInv
<1>10. QED  BY <1>6, <1>7, <1>8, <1>9

LEMMA StorefrontInit == Init => StorefrontInv
<1> SUFFICES ASSUME Init PROVE StorefrontInv
  OBVIOUS
<1>1. VisitInv /\ stage = "idle" /\ found.colours = {}
  BY VisitInit DEF Init, Blank
<1>2. ToldInv
  BY <1>1, NothingYet DEF ToldInv
<1>3. FacetsInv /\ StaleInv /\ ShelvesInv /\ CardsInv /\ DetailInv
  BY <1>1 DEF FacetsInv, ColoursAreNotSplit, StaleInv, ShelvesInv, CardsInv, DetailInv, OnDetail
<1>4. QED  BY <1>1, <1>2, <1>3 DEF StorefrontInv

LEMMA StorefrontNext == StorefrontInv /\ [Next]_vars => StorefrontInv'
<1> SUFFICES ASSUME StorefrontInv, [Next]_vars PROVE StorefrontInv'
  OBVIOUS
<1>1. VisitInv /\ ToldInv /\ FacetsInv /\ StaleInv /\ ShelvesInv /\ CardsInv /\ DetailInv
  BY DEF StorefrontInv
<1>2. VisitInv'
  BY <1>1, VisitNext
<1>3. CASE UNCHANGED vars
  <2>1. ToldInv'
    BY <1>1, <1>3 DEF vars, ToldInv, Tells, Shows, InDetail, Asked, OnDisplay, Exists
  <2>2. FacetsInv'
    BY <1>1, <1>3, FacetsStay DEF vars, FacetsInv, ColoursAreNotSplit
  <2>3. CardsInv'
    BY <1>1, <1>3 DEF vars, CardsInv, CoverInv, Calm, OnDisplay, Exists, ImagesOf, Outranks
  <2>4. DetailInv'
    BY <1>1, <1>3 DEF vars, DetailInv, OnDetail, PartsOf, ImagesOf, OptionsOf
  <2>5. StaleInv'
    <3>1. \A k : Shelf(k)' = Shelf(k) /\ AloneIn(k)' = AloneIn(k)
      BY <1>3 DEF vars, Shelf, AloneIn, Alone
    <3>2. \A axis, v : AloneHas(axis, v)' = AloneHas(axis, v)
      BY <1>3 DEF vars, AloneHas, Alone, Carries, OptionsOf
    <3>3. \A rows, v : Offer(rows, v)' = Offer(rows, v)
      BY DEF Offer
    <3>4. QED  BY <1>1, <1>3, <3>1, <3>2, <3>3 DEF vars, StaleInv, Within, Alone
  <2>6. ShelvesInv'
    <3>1. Marks' = Marks
      BY <1>3, MarksStay DEF vars
    <3>2. QED  BY <1>1, <1>3, <3>1 DEF vars, ShelvesInv, Within, Alone
  <2>7. QED  BY <1>2, <2>1, <2>2, <2>3, <2>4, <2>5, <2>6 DEF StorefrontInv
<1>4. CASE Visit
  BY <1>1, <1>2, <1>4, ToldVisit, VisitOpens DEF StorefrontInv
<1>5. CASE Facets \/ Grid \/ Index \/ Detail
  BY <1>1, <1>2, <1>5, ToldRead, FacetsRead, StaleRead, ShelvesRead, CardsRead, DetailRead, ElsewhereKeeps DEF StorefrontInv
<1>6. ASSUME NEW p \in Products, Create(p) \/ Update(p) \/ Delete(p) \/ Restore(p)
      PROVE  StorefrontInv'
  <2>1. PICK row : Writes(p, row)
    BY <1>1, <1>6, WritesRow
  <2>2. QED  BY <1>1, <1>2, <2>1, ToldWrite, FacetsWrite, StaleWrite, ShelvesWrite, CardsWrite, DetailWrite DEF StorefrontInv
<1>7. QED  BY <1>3, <1>4, <1>5, <1>6 DEF Next

LEMMA TypeFollows == VisitInv => TypeOK
<1> SUFFICES ASSUME VisitInv PROVE TypeOK
  OBVIOUS
<1>1. found \in Found /\ Len(found.page) <= MaxPage /\ product \in [Products -> Rows] /\ writes \in 0..MaxWrites
  BY DEF VisitInv
<1>2. request \in Requests \cup {None}
  BY DEF VisitInv
<1>3. Range(found.given) \subseteq Products /\ found.parts \subseteq Range(Parts)
  <2>1. found.given \in Seq(Products)
    BY <1>1 DEF Found
  <2>2. \A i \in DOMAIN found.given : found.given[i] \in Products
    BY <2>1
  <2>3. Range(found.given) \subseteq Products
    BY <2>2 DEF Range
  <2>4. found.parts \subseteq {"images", "groups", "options", "swatches"}
    BY <1>1 DEF Found
  <2>5. QED  BY <2>3, <2>4, PartsAre
<1>4. change \in [DOMAIN Still -> SUBSET Products]
  BY DEF VisitInv, Changes, Still
<1>5. found.span # None => found.span.lo \in Prices /\ found.span.hi \in Prices
  BY <1>1 DEF Found
<1>6. QED  BY <1>1, <1>2, <1>3, <1>4, <1>5 DEF TypeOK, Found

LEMMA ToldFollows == VisitInv /\ ToldInv => OnlyDisplayedIsTold
<1> SUFFICES ASSUME VisitInv, ToldInv, NEW p \in Told
             PROVE  Sheet[p].store = request.store /\ (p \in change.touched \/ OnDisplay(p, request.store))
  BY DEF OnlyDisplayedIsTold
<1>1. found \in Found /\ (stage # "idle" => request.product \in Products)
  BY KindOfStage, RequestsAre DEF VisitInv
<1>2. p \in Products /\ Tells(p)
  <2>1. CASE p \in found.ids
    BY <1>1, <2>1 DEF Found, Tells
  <2>2. CASE p \in Range(found.given)
    <3>1. PICK i \in DOMAIN found.given : found.given[i] = p
      BY <2>2 DEF Range
    <3>2. QED  BY <1>1, <3>1 DEF Found, Tells
  <2>3. CASE p \in {found.cards[k].cover : k \in Shelves} \ {None}
    <3>1. PICK k \in Shelves : found.cards[k].cover = p /\ p # None
      BY <2>3
    <3>2. found.cards[k] \in Cards
      BY <1>1 DEF Found
    <3>3. p \in Products
      BY <3>1, <3>2 DEF Cards
    <3>4. QED  BY <3>1, <3>3 DEF Tells
  <2>4. CASE Asked("detail") /\ p = request.product
    BY <1>1, <2>4 DEF Asked, Tells, InDetail
  <2>5. QED  BY <2>1, <2>2, <2>3, <2>4 DEF Told
<1>3. QED  BY <1>2 DEF ToldInv, Shows

LEMMA CardsFollow == VisitInv /\ CardsInv => CardsAreRepresentative
<1> SUFFICES ASSUME VisitInv, CardsInv, Asked("index"), NEW k \in Shelves
             PROVE  /\ found.cards[k].n >= Cardinality(Calm(k))
                    /\ \A p \in Calm(k) : ImagesOf(p) > 0 =>
                         /\ found.cards[k].cover # None
                         /\ found.cards[k].cover \notin change.touched => ~Outranks(p, found.cards[k].cover)
  BY DEF CardsAreRepresentative, Calm
<1>1. found \in Found
  BY DEF VisitInv
<1> DEFINE n == found.cards[k].n
           c == Cardinality(Calm(k))
<1>2. n \in Nat /\ c \in Nat /\ c <= n /\ CoverInv(k)
  BY <1>1, CalmFinite DEF CardsInv, Asked, Found, Cards
<1> HIDE DEF n, c
<1>3. n >= c
  BY <1>2
<1>4. QED  BY <1>2, <1>3 DEF n, c, CoverInv

LEMMA DetailFollows == VisitInv /\ DetailInv => DetailTearsOnce
<1> SUFFICES ASSUME VisitInv, DetailInv, Asked("detail")
             PROVE  /\ request.product \notin change.touched => found.parts = PartsOf(request.product)
                    /\ "options" \in found.parts => "groups" \in found.parts
                    /\ "swatches" \in found.parts => {"images", "options"} \subseteq found.parts
  BY DEF DetailTearsOnce
<1>1. OnDetail /\ stage = "done" /\ request.product \in Products
  BY KindOfStage, RequestsAre DEF Asked, OnDetail
<1>2. PartsOf(request.product) \subseteq Before["done"]
  BY <1>1, PartsOfState, BeforeIs
<1>3. QED  BY <1>1, <1>2 DEF DetailInv

-----------------------------------------------------------------------------
(* Theorems *)

\* Every reachable state satisfies the inductive invariant: what has been read of a visit is
\* of products on display, and is what is there now as far as nothing was written meanwhile.
THEOREM StorefrontInvariant == Spec => []StorefrontInv
<1>1. Init => StorefrontInv
  BY StorefrontInit
<1>2. StorefrontInv /\ [Next]_vars => StorefrontInv'
  BY StorefrontNext
<1>3. QED  BY <1>1, <1>2, PTL DEF Spec

\* The answers of the public reads keep their shape for every request, and no page of the grid
\* is longer than _MAX_PAGE, whatever limit and offset were asked for.
THEOREM TypeCorrect == Spec => []TypeOK
<1>1. StorefrontInv => TypeOK
  BY TypeFollows DEF StorefrontInv
<1>2. QED  BY <1>1, StorefrontInvariant, PTL

\* No public read tells of a product of another store, nor of one that was hidden, deleted or
\* not yet created during the whole visit, whatever the seller commits between its statements.
THEOREM ToldIsDisplayed == Spec => []OnlyDisplayedIsTold
<1>1. StorefrontInv => OnlyDisplayedIsTold
  BY ToldFollows DEF StorefrontInv
<1>2. QED  BY <1>1, StorefrontInvariant, PTL

\* The facets of the filter rail count what choosing them shows in the grid, for any catalog
\* and any filter already set, if the value chosen is one that _multi leaves as it is; and a
\* colour is never split in two.
THEOREM FacetsMatch == Spec => []FacetsMatchTheGrid
<1>1. StorefrontInv => FacetsMatchTheGrid
  BY FacetsPromise DEF StorefrontInv, FacetsInv, FacetsMatchTheGrid
<1>2. QED  BY <1>1, StorefrontInvariant, PTL

\* The facets are five statements over one list of ids: whatever the seller commits between
\* them, none exceeds the ids, and each product left alone is in the price range and counted
\* for its category, its colours and its sizes; the categories together count each such
\* product, and no product twice.
THEOREM StaleFacetsBounded == Spec => []StaleFacetsAreBounded
<1>1. StorefrontInv => StaleFacetsAreBounded
  BY StaleFollows, ShelvesFollow DEF StorefrontInv, StaleFacetsAreBounded
<1>2. QED  BY <1>1, StorefrontInvariant, PTL

\* A category's card counts every product that was left alone, and no such product is better
\* than its cover: featured when the cover is not, or newer.
THEOREM CardsRepresent == Spec => []CardsAreRepresentative
<1>1. StorefrontInv => CardsAreRepresentative
  BY CardsFollow DEF StorefrontInv
<1>2. QED  BY <1>1, StorefrontInvariant, PTL

\* A detail page has all that there is of a product left alone; one that is torn, because its
\* product was deleted between two prefetches, never shows options without their groups, nor
\* swatches without the images and options that they join.
THEOREM DetailTears == Spec => []DetailTearsOnce
<1>1. StorefrontInv => DetailTearsOnce
  BY DetailFollows DEF StorefrontInv
<1>2. QED  BY <1>1, StorefrontInvariant, PTL
=============================================================================
