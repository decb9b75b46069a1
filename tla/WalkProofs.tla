------------------------------ MODULE WalkProofs ------------------------------
(***************************************************************************)
(* Theorems about the walk through the pages of the grid in Storefront,    *)
(* for every catalog, page size and number of writes.                      *)
(*                                                                         *)
(* The argument is about ranks.  Without a tie, the place of a product in  *)
(* a listing is one more than the number of products ahead of it.  While   *)
(* nothing joins, that number only falls, and while nothing leaves, it     *)
(* only grows; the offset of the walk only grows.  So what was given stays *)
(* before the offset, and what was not given stays behind it.              *)
(***************************************************************************)
EXTENDS StorefrontProofs

-----------------------------------------------------------------------------
(* Ranks *)

Ahead(p) == {q \in Result : Precedes(q, p)}

LEMMA AheadFinite ==
  ASSUME NEW p
  PROVE  IsFiniteSet(Ahead(p)) /\ Cardinality(Ahead(p)) \in Nat /\ Cardinality(Ahead(p)) <= Cardinality(Result)
<1>1. Ahead(p) \in SUBSET Result /\ IsFiniteSet(Result)
  BY FiniteResult DEF Ahead
<1> DEFINE S == Ahead(p)
<1>2. S \in SUBSET Result
  BY <1>1
<1> HIDE DEF S
<1>3. QED  BY <1>1, <1>2, FS_Subset, FS_CardinalityType DEF S

LEMMA KeyIsNumber ==
  ASSUME VisitInv, NEW p \in Products
  PROVE  SortKey(p) \in Int
<1>1. product[p] \in Rows
  BY DEF VisitInv
<1>2. product[p].price \in Prices
  BY <1>1 DEF Rows
<1>3. Prices \subseteq Nat
  BY Constants
<1>4. product[p].price \in Int
  <2>1. PICK n : n = product[p].price
    OBVIOUS
  <2>2. n \in Prices
    BY <1>2, <2>1
  <2>3. n \in Int
    BY <1>3, <2>2
  <2>4. QED  BY <2>1, <2>3
<1>5. QED  BY <1>4 DEF SortKey

\* Without a tie, what is listed either precedes a product or comes after it.
LEMMA UntiedIsOrdered ==
  ASSUME VisitInv, NEW p \in Products, NEW q \in Result, q # p, ~Tied(p)
  PROVE  Precedes(p, q) \/ Precedes(q, p)
<1>1. q \in Products /\ Shown(q)
  BY DEF Result, Filtered, Shown
<1>2. product[q].stamp # product[p].stamp
  BY <1>1 DEF Tied
<1>3. product[q].stamp \in Nat /\ product[p].stamp \in Nat
  BY <1>1 DEF VisitInv, Rows
<1>4. SortKey(p) \in Int /\ SortKey(q) \in Int
  BY <1>1, KeyIsNumber
<1>5. QED  BY <1>2, <1>3, <1>4 DEF Precedes

LEMMA ListingIsOnto ==
  ASSUME NEW l \in Listings(Result)
  PROVE  /\ DOMAIN l = 1..Cardinality(Result) /\ l \in Seq(Result) /\ Len(l) = Cardinality(Result)
         /\ \A i, j \in DOMAIN l : i # j => l[i] # l[j]
         /\ \A q \in Result : \E i \in DOMAIN l : l[i] = q
<1> DEFINE c == Cardinality(Result)
<1>1. l \in [1..c -> Result] /\ c \in Nat /\ \A i, j \in 1..c : i # j => l[i] # l[j]
  BY FiniteResult DEF Listings, SetToSeqs
<1>2. IsFiniteSet(Result)
  BY FiniteResult
<1>3. Cardinality(1..c) = c
  <2> HIDE DEF c
  <2>1. QED  BY <1>1, FS_Interval
<1>4. l \in Injection(1..c, Result)
  BY <1>1 DEF Injection, IsInjective
<1>5. l \in Surjection(1..c, Result)
  <2> DEFINE S == 1..c
  <2>1. l \in Injection(S, Result) /\ Cardinality(S) = Cardinality(Result)
    BY <1>3, <1>4
  <2> HIDE DEF S
  <2>2. l \in Surjection(S, Result)
    BY <1>2, <2>1, FS_Injection
  <2>3. QED  BY <2>2 DEF S
<1> HIDE DEF c
<1>6. \A q \in Result : \E i \in 1..c : l[i] = q
  BY <1>5 DEF Surjection
<1>7. l \in Seq(Result) /\ Len(l) = c
  BY <1>1
<1>8. QED  BY <1>1, <1>6, <1>7 DEF c

\* A product without a tie has the same place in every listing: the one after those ahead.
LEMMA PlaceIsRank ==
  ASSUME VisitInv, NEW l \in Listings(Result), NEW i \in DOMAIN l, ~Tied(l[i])
  PROVE  Cardinality(Ahead(l[i])) = i - 1
<1> DEFINE p == l[i]
           f == [j \in 1..(i - 1) |-> l[j]]
<1>1. /\ DOMAIN l = 1..Cardinality(Result) /\ Cardinality(Result) \in Nat
      /\ \A j \in DOMAIN l : l[j] \in Result
      /\ \A j, k \in DOMAIN l : j # k => l[j] # l[k]
      /\ \A q \in Result : \E j \in DOMAIN l : l[j] = q
  BY ListingIsOnto, FiniteResult
<1>2. i \in Nat /\ i >= 1 /\ 1..(i - 1) \subseteq DOMAIN l
  BY <1>1
<1>3. p \in Products
  BY <1>1, FiniteResult
<1>4. \A j, k \in DOMAIN l : Precedes(l[j], l[k]) => j < k
  BY DEF Listings
<1>5. ASSUME NEW j \in 1..(i - 1) PROVE l[j] \in Ahead(p)
  <2>1. j \in DOMAIN l /\ j # i /\ ~(i < j)
    BY <1>2
  <2>2. l[j] # p /\ l[j] \in Result /\ ~Precedes(p, l[j])
    BY <1>1, <1>4, <2>1
  <2>3. QED  BY <1>3, <2>2, UntiedIsOrdered DEF Ahead
<1>6. ASSUME NEW q \in Ahead(p) PROVE \E j \in 1..(i - 1) : l[j] = q
  <2>1. q \in Result /\ Precedes(q, p)
    BY <1>6 DEF Ahead
  <2>2. PICK j \in DOMAIN l : l[j] = q
    BY <1>1, <2>1
  <2>3. j < i
    BY <1>4, <2>1, <2>2
  <2>4. QED  BY <1>1, <2>2, <2>3
<1>7. f \in Bijection(1..(i - 1), Ahead(p))
  <2>1. f \in [1..(i - 1) -> Ahead(p)]
    BY <1>5
  <2>2. \A j, k \in 1..(i - 1) : f[j] = f[k] => j = k
    BY <1>1, <1>2
  <2>3. \A q \in Ahead(p) : \E j \in 1..(i - 1) : f[j] = q
    BY <1>6
  <2> HIDE DEF f, p
  <2>4. QED  BY <2>1, <2>2, <2>3 DEF Bijection, Injection, Surjection, IsInjective
<1> DEFINE S == Ahead(p)
           n == i - 1
<1>8. n \in Nat /\ ExistsBijection(1..n, S)
  BY <1>2, <1>7 DEF ExistsBijection
<1> HIDE DEF S, n
<1>9. Cardinality(S) = n
  BY <1>8, FS_CountingElements
<1>10. QED  BY <1>9 DEF S, n

-----------------------------------------------------------------------------
(* What a write does to the ranks *)

\* A write that adds nothing to what joined shows nothing new, and so on.
LEMMA TrackFacts ==
  ASSUME VisitInv, stage # "idle", NEW p \in Products, NEW row, Writes(p, row)
  PROVE  /\ change.left \subseteq change'.left /\ change.joined \subseteq change'.joined
         /\ change.late \subseteq change'.late /\ change.again \subseteq change'.again
         /\ p \in change.left /\ product'[p].stamp # product[p].stamp => p \in change'.again
         /\ p \notin change'.joined \/ p \notin change'.late => (Shown(p)' => Shown(p) /\ SortKey(p)' = SortKey(p))
         /\ p \notin change'.left => (Shown(p) => Shown(p)' /\ SortKey(p)' = SortKey(p))
<1> DEFINE moves == Shown(p) /\ Shown(p)' /\ SortKey(p) # SortKey(p)'
           left == IF moves \/ (Shown(p) /\ ~Shown(p)') THEN {p} ELSE {}
           joined == IF moves \/ (~Shown(p) /\ Shown(p)') THEN {p} ELSE {}
           again == {p} \cap {q \in change.left : product[q].stamp # product'[q].stamp}
<1>1. change' = [touched |-> change.touched \cup {p}, left |-> change.left \cup left,
                 joined |-> change.joined \cup joined, late |-> change.late \cup joined,
                 again |-> change.again \cup again]
  BY DEF Writes, Write, Track
<1>2. /\ p \notin joined => (Shown(p)' => Shown(p) /\ SortKey(p)' = SortKey(p))
      /\ p \notin left => (Shown(p) => Shown(p)' /\ SortKey(p)' = SortKey(p))
      /\ p \in change.left /\ product'[p].stamp # product[p].stamp => p \in again
  OBVIOUS
<1> HIDE DEF left, joined, again
<1>3. QED  BY <1>1, <1>2

\* Another product is shown as before, with the same keys.
LEMMA OthersStay ==
  ASSUME VisitInv, NEW p \in Products, NEW row, Writes(p, row), NEW q \in Products, q # p
  PROVE  Shown(q)' = Shown(q) /\ SortKey(q)' = SortKey(q) /\ product'[q].stamp = product[q].stamp
<1>1. product'[q] = product[q] /\ request' = request
  BY WriteFacts
<1>2. Shown(q)' = Shown(q)
  BY <1>1 DEF Shown, Matches, OnDisplay, Exists, Carries, OptionsOf
<1>3. SortKey(q)' = SortKey(q)
  BY <1>1 DEF SortKey
<1>4. QED  BY <1>1, <1>2, <1>3

\* What is shown, or was before it left and was not inserted again, keeps its stamp.
LEMMA StampsStay ==
  ASSUME VisitInv, stage # "idle", NEW p \in Products, NEW row, Writes(p, row), NEW q \in Products,
         Shown(q) \/ (q \in change.left /\ change'.again = {})
  PROVE  product'[q].stamp = product[q].stamp
<1>1. CASE q # p
  BY <1>1, OthersStay
<1>2. CASE q = p /\ Shown(p)
  BY <1>2, WriteFacts DEF Writes, Shown, Matches, OnDisplay
<1>3. CASE q = p /\ p \in change.left /\ change'.again = {}
  BY <1>3, TrackFacts
<1>4. QED  BY <1>1, <1>2, <1>3

\* While nothing joins, the result only shrinks, and while nothing leaves, it only grows; what
\* stays keeps its keys.
LEMMA WritesMove ==
  ASSUME VisitInv, stage # "idle", NEW p \in Products, NEW row, Writes(p, row), NEW q \in Products
  PROVE  /\ change'.joined = {} \/ change'.late = {} => (Shown(q)' => Shown(q) /\ SortKey(q)' = SortKey(q))
         /\ change'.left = {} => (Shown(q) => Shown(q)' /\ SortKey(q)' = SortKey(q))
<1>1. CASE q = p
  BY <1>1, TrackFacts
<1>2. CASE q # p
  BY <1>2, OthersStay
<1>3. QED  BY <1>1, <1>2

LEMMA ResultIsShown == \A q : q \in Result <=> q \in Products /\ Shown(q)
  BY DEF Result, Filtered, Shown

LEMMA AheadMoves ==
  ASSUME VisitInv, stage # "idle", NEW p \in Products, NEW row, Writes(p, row), NEW q \in Products
  PROVE  /\ change'.joined = {} /\ Shown(q)' => Ahead(q)' \subseteq Ahead(q)
         /\ change'.left = {} /\ Shown(q) => Ahead(q) \subseteq Ahead(q)'
<1>1. \A z : z \in Result' <=> z \in Products /\ Shown(z)'
  BY DEF Result, Filtered, Shown
<1>2. ASSUME change'.joined = {}, Shown(q)', NEW z \in Ahead(q)' PROVE z \in Ahead(q)
  <2>1. z \in Products /\ Shown(z)' /\ Precedes(z, q)'
    BY <1>1, <1>2 DEF Ahead
  <2>2. Shown(q) /\ Shown(z) /\ SortKey(q)' = SortKey(q) /\ SortKey(z)' = SortKey(z)
    BY <1>2, <2>1, WritesMove
  <2>3. product'[q].stamp = product[q].stamp /\ product'[z].stamp = product[z].stamp
    BY <2>1, <2>2, StampsStay
  <2>4. QED  BY <2>1, <2>2, <2>3, ResultIsShown DEF Ahead, Precedes
<1>3. ASSUME change'.left = {}, Shown(q), NEW z \in Ahead(q) PROVE z \in Ahead(q)'
  <2>1. z \in Products /\ Shown(z) /\ Precedes(z, q)
    BY <1>3, ResultIsShown DEF Ahead
  <2>2. Shown(q)' /\ Shown(z)' /\ SortKey(q)' = SortKey(q) /\ SortKey(z)' = SortKey(z)
    BY <1>3, <2>1, WritesMove
  <2>3. product'[q].stamp = product[q].stamp /\ product'[z].stamp = product[z].stamp
    BY <1>3, <2>1, StampsStay
  <2>4. QED  BY <1>1, <2>1, <2>2, <2>3 DEF Ahead, Precedes
<1>4. QED  BY <1>2, <1>3

\* A tie stays one while neither side is stamped anew: the other product is shown, or has left.
LEMMA TiesStay ==
  ASSUME VisitInv, stage # "idle", NEW p \in Products, NEW row, Writes(p, row), NEW q \in Products, Tied(q),
         change'.left = {} \/ change'.again = {}, Shown(q) \/ (q \in change.left /\ change'.again = {})
  PROVE  Tied(q)'
<1>1. PICK z \in Products \ {q} : product[z].stamp = product[q].stamp /\ (Shown(z) \/ z \in change.left)
  BY DEF Tied
<1>2. change.left \subseteq change'.left /\ (Shown(z) => Shown(z)' \/ z \in change'.left)
  BY TrackFacts, OthersStay
<1>3. product'[z].stamp = product[z].stamp /\ product'[q].stamp = product[q].stamp
  BY <1>1, <1>2, StampsStay
<1>4. QED  BY <1>1, <1>2, <1>3 DEF Tied

-----------------------------------------------------------------------------
(* What was given, and what was not *)

OnWalk == stage \notin {"idle", "missing"} /\ request.kind = "page"

GivenAt(p, i) == i \in DOMAIN found.given /\ found.given[i] = p
Given(p) == \E i \in DOMAIN found.given : found.given[i] = p

\* What was given is listed, or has left.
GivenStay == OnWalk => \A p \in Products : Given(p) => Shown(p) \/ p \in change.left

\* While nothing joined or was inserted again, what was given was given once, and is ranked
\* before the offset.
RepeatInv ==
  OnWalk /\ change.joined = {} /\ change.again = {} =>
    \A p \in Products : ~Tied(p) =>
      /\ \A i, j \in DOMAIN found.given : found.given[i] = p /\ found.given[j] = p => i = j
      /\ Given(p) /\ Shown(p) => Cardinality(Ahead(p)) < found.offset

\* While nothing left, what was not given is ranked behind the offset; the last page was not
\* sliced before the offset had passed all that was counted.
MissInv ==
  OnWalk /\ request.offset <= 0 =>
    /\ change.left = {} => \A p \in Result \ change.touched :
         ~Tied(p) /\ ~Given(p) => found.offset <= Cardinality(Ahead(p))
    /\ stage \in {"slice", "done"} /\ change.late = {} => Cardinality(Result) <= found.count
    /\ stage = "done" => found.count <= found.offset

WalkInv == GivenStay /\ RepeatInv /\ MissInv

LEMMA PageCuts ==
  ASSUME NEW l \in Seq(Result), NEW a \in Nat, NEW n \in Nat
  PROVE  LET page == SubSeq(l, a + 1, Min({a + n, Len(l)})) IN
         /\ \A i \in DOMAIN page : i \in 1..n /\ a + i \in DOMAIN l /\ page[i] = l[a + i]
         /\ \A j \in DOMAIN l : a < j /\ j <= a + n => j - a \in DOMAIN page /\ page[j - a] = l[j]
<1> DEFINE next == a + n
           len == Len(l)
           m == Min({next, len})
<1>1. m \in Int /\ m <= a + n /\ m <= Len(l) /\ (m = a + n \/ m = Len(l)) /\ Len(l) \in Nat
  <2>1. next \in Int /\ len \in Int
    OBVIOUS
  <2> HIDE DEF next, len
  <2>2. m \in {next, len} /\ m <= next /\ m <= len
    BY <2>1, MinOfTwo
  <2>3. QED  BY <2>1, <2>2 DEF next, len
<1> HIDE DEF m
<1> DEFINE page == SubSeq(l, a + 1, m)
<1>2. DOMAIN page = 1..(m - a) \/ (m < a + 1 /\ DOMAIN page = {})
  BY <1>1
<1>3. \A i \in DOMAIN page : i \in 1..n /\ a + i \in DOMAIN l /\ page[i] = l[a + i]
  BY <1>1
<1>4. \A j \in DOMAIN l : a < j /\ j <= a + n => j - a \in DOMAIN page /\ page[j - a] = l[j]
  BY <1>1
<1>5. QED  BY <1>3, <1>4 DEF m

\* What the slice gives is what is ranked from the offset to the next one, and is shown.
LEMMA SliceFacts ==
  ASSUME VisitInv, SlicePage
  PROVE  \E page \in Seq(Products) :
           /\ found'.given = found.given \o page
           /\ found'.offset = found.offset + Limit /\ found'.count = found.count
           /\ \A i \in DOMAIN page : /\ i \in 1..Limit /\ page[i] \in Result
                                     /\ ~Tied(page[i]) => Cardinality(Ahead(page[i])) = found.offset + i - 1
           /\ \A p \in Result : \/ Tied(p) \/ \E i \in DOMAIN page : page[i] = p
                                \/ Cardinality(Ahead(p)) < found.offset
                                \/ Cardinality(Ahead(p)) >= found.offset + Limit
<1>1. request \in Requests /\ found \in Found /\ stage = "slice"
  BY KindOfStage DEF VisitInv, SlicePage
<1>2. Limit \in Nat /\ found.offset \in Nat
  BY <1>1, LimitFits, Constants DEF Found
<1>3. PICK l \in Listings(Result) :
        found' = [found EXCEPT !.page = SubSeq(l, found.offset + 1, Min({found.offset + Limit, Len(l)})),
                               !.given = @ \o SubSeq(l, found.offset + 1, Min({found.offset + Limit, Len(l)})),
                               !.offset = found.offset + Limit]
  BY DEF SlicePage
<1> DEFINE page == SubSeq(l, found.offset + 1, Min({found.offset + Limit, Len(l)}))
           a == found.offset
           n == Limit
<1>4. l \in Seq(Result) /\ (\A q \in Result : \E i \in DOMAIN l : l[i] = q) /\ DOMAIN l = 1..Cardinality(Result)
  BY ListingIsOnto
<1>5. page \in Seq(Products) /\ \A i \in DOMAIN page : page[i] \in Result
  BY <1>2, PageOfListing
<1>6. /\ \A i \in DOMAIN page : i \in 1..n /\ a + i \in DOMAIN l /\ page[i] = l[a + i]
      /\ \A j \in DOMAIN l : a < j /\ j <= a + n => j - a \in DOMAIN page /\ page[j - a] = l[j]
  <2>1. a \in Nat /\ n \in Nat
    BY <1>2
  <2> HIDE DEF a, n
  <2>2. LET some == SubSeq(l, a + 1, Min({a + n, Len(l)})) IN
         /\ \A i \in DOMAIN some : i \in 1..n /\ a + i \in DOMAIN l /\ some[i] = l[a + i]
         /\ \A j \in DOMAIN l : a < j /\ j <= a + n => j - a \in DOMAIN some /\ some[j - a] = l[j]
    BY <1>4, <2>1, PageCuts
  <2>3. QED  BY <2>2 DEF a, n
<1>7. /\ found'.given = found.given \o page /\ found'.offset = a + n /\ found'.count = found.count
  BY <1>1, <1>3 DEF Found
<1> HIDE DEF page
<1>8. ASSUME NEW i \in DOMAIN page, ~Tied(page[i])
      PROVE  Cardinality(Ahead(page[i])) = a + i - 1
  <2>1. a + i \in DOMAIN l /\ page[i] = l[a + i] /\ i \in Int /\ a \in Int
    BY <1>2, <1>6
  <2>2. PICK j \in DOMAIN l : j = a + i
    BY <2>1
  <2>3. Cardinality(Ahead(l[j])) = j - 1
    BY <1>8, <2>1, <2>2, PlaceIsRank
  <2>4. QED  BY <2>1, <2>2, <2>3
<1>9. ASSUME NEW p \in Result, ~Tied(p), ~\E i \in DOMAIN page : page[i] = p
      PROVE  Cardinality(Ahead(p)) < a \/ Cardinality(Ahead(p)) >= a + n
  <2>1. PICK j \in DOMAIN l : l[j] = p
    BY <1>4
  <2>2. Cardinality(Ahead(p)) = j - 1
    BY <1>9, <2>1, PlaceIsRank
  <2>3. ~(a < j /\ j <= a + n) /\ j \in Int
    BY <1>4, <1>6, <1>9, <2>1, FiniteResult
  <2>4. a \in Int /\ n \in Int
    BY <1>2
  <2> HIDE DEF a, n
  <2>5. QED  BY <2>2, <2>3, <2>4
<1>10. QED  BY <1>5, <1>6, <1>7, <1>8, <1>9

LEMMA RanksAreNumbers == \A p : Cardinality(Ahead(p)) \in Nat
  BY AheadFinite

LEMMA WalkOpens == ASSUME VisitInv, Visit PROVE WalkInv'
<1>1. PICK r \in Requests :
        /\ request' = r
        /\ stage' = IF r.store = None THEN "missing" ELSE Opening[r.kind]
        /\ found' = [Blank EXCEPT !.offset = Max({0, r.offset})]
  BY DEF Visit
<1>2. found'.given = <<>> /\ found'.offset = Max({0, r.offset})
  BY <1>1 DEF Blank
<1>3. stage' \notin {"slice", "done"}
  <2>1. r.kind \in {"page", "facets", "index", "detail"}
    BY Constants DEF Asks
  <2>2. Opening["page"] = "count" /\ Opening["facets"] = "ids" /\ Opening["index"] = "tally" /\ Opening["detail"] = "row"
    BY DEF Opening
  <2>3. QED  BY <1>1, <2>1, <2>2
<1>4. RepeatInv'
  BY <1>2 DEF RepeatInv, Given
<1>5. ASSUME r.offset <= 0 PROVE found'.offset = 0
  <2> DEFINE o == r.offset
  <2>1. o \in Int /\ o <= 0
    BY <1>5, Constants DEF Asks
  <2> HIDE DEF o
  <2>2. Max({0, o}) = 0
    BY <2>1, MaxOfTwo
  <2>3. QED  BY <1>2, <2>2 DEF o
<1>6. (\A p : Cardinality(Ahead(p)) \in Nat)'
  BY RanksAreNumbers, PTL
<1>7. MissInv'
  BY <1>1, <1>3, <1>5, <1>6 DEF MissInv
<1>8. GivenStay'
  BY <1>2 DEF GivenStay, Given
<1>9. QED  BY <1>4, <1>7, <1>8 DEF WalkInv

LEMMA WalkElsewhere == ASSUME VisitInv, Facets \/ Index \/ Detail PROVE WalkInv'
<1>1. request' = request /\ request.kind # "page"
  BY ReadFacts, KindOfStage, PartsAre
     DEF Facets, FindIds, Span, CountCategories, CountColours, CountSizes, Index, Tally, PickCover,
         Detail, FindRow, Prefetch
<1>2. QED  BY <1>1 DEF WalkInv, GivenStay, RepeatInv, MissInv, OnWalk

\* A read changes neither the result nor the ranks nor the ties.
LEMMA ReadRanks ==
  ASSUME VisitInv, Grid
  PROVE  /\ Result' = Result /\ \A p : Shown(p)' = Shown(p) /\ Ahead(p)' = Ahead(p) /\ Tied(p)' = Tied(p)
         /\ OnWalk /\ request' = request /\ change'.touched = change.touched
         /\ change'.joined = change.joined /\ change'.left = change.left /\ change'.again = change.again
<1>1. /\ product' = product /\ request' = request /\ change'.touched = change.touched /\ change \in Changes
      /\ request.kind = "page" /\ stage \in {"count", "slice"}
  BY ReadFacts, KindOfStage DEF VisitInv, Grid, CountPage, SlicePage
<1>2. change'.joined = change.joined /\ change'.left = change.left /\ change'.again = change.again
  BY <1>1 DEF Grid, CountPage, SlicePage, Changes
<1>3. \A p : Shown(p)' = Shown(p) /\ SortKey(p)' = SortKey(p)
  BY <1>1 DEF Shown, Matches, OnDisplay, Exists, Carries, OptionsOf, SortKey
<1>4. Result' = Result
  BY <1>1 DEF Result, Filtered, Matches, OnDisplay, Exists, Carries, OptionsOf
<1>5. \A p : Ahead(p)' = Ahead(p)
  BY <1>1, <1>3, <1>4 DEF Ahead, Precedes
<1>6. \A p : Tied(p)' = Tied(p)
  BY <1>1, <1>2, <1>3 DEF Tied
<1>7. QED  BY <1>1, <1>2, <1>3, <1>4, <1>5, <1>6 DEF OnWalk

LEMMA WalkCount == ASSUME VisitInv, WalkInv, CountPage PROVE WalkInv'
<1>1. /\ Result' = Result /\ \A p : Shown(p)' = Shown(p) /\ Ahead(p)' = Ahead(p) /\ Tied(p)' = Tied(p)
      /\ OnWalk /\ request' = request /\ change'.touched = change.touched
      /\ change'.joined = change.joined /\ change'.left = change.left /\ change'.again = change.again
  BY ReadRanks DEF Grid
<1>2. /\ found'.given = found.given /\ found'.offset = found.offset /\ found'.count = Cardinality(Result)
      /\ stage' = "slice"
  BY DEF CountPage, Goto, VisitInv, Found
<1>3. RepeatInv'
  BY <1>1, <1>2 DEF WalkInv, RepeatInv, Given
<1>4. Cardinality(Result) <= found'.count
  BY <1>2, FiniteResult
<1>5. MissInv'
  BY <1>1, <1>2, <1>4 DEF WalkInv, MissInv, Given
<1>6. GivenStay'
  BY <1>1, <1>2 DEF WalkInv, GivenStay, Given
<1>7. QED  BY <1>3, <1>5, <1>6 DEF WalkInv

LEMMA Appended ==
  ASSUME NEW s \in Seq(Products), NEW t \in Seq(Products)
  PROVE  /\ Len(s) \in Nat /\ DOMAIN s = 1..Len(s)
         /\ \A i \in 1..Len(s) : i \in DOMAIN (s \o t) /\ (s \o t)[i] = s[i]
         /\ \A i \in DOMAIN t : Len(s) + i \in DOMAIN (s \o t) /\ (s \o t)[Len(s) + i] = t[i]
         /\ \A i \in DOMAIN (s \o t) : i \in Int
         /\ \A i \in DOMAIN (s \o t) :
              i \in 1..Len(s) \/ (i - Len(s) \in DOMAIN t /\ (s \o t)[i] = t[i - Len(s)])
<1>1. /\ Len(s) \in Nat /\ DOMAIN s = 1..Len(s) /\ Len(t) \in Nat /\ DOMAIN t = 1..Len(t)
      /\ DOMAIN (s \o t) = 1..(Len(s) + Len(t))
  OBVIOUS
<1>2. \A i \in DOMAIN (s \o t) : (s \o t)[i] = IF i <= Len(s) THEN s[i] ELSE t[i - Len(s)]
  OBVIOUS
<1> DEFINE c == s \o t
<1> HIDE DEF c
<1>3. \A i \in 1..Len(s) : i \in DOMAIN c /\ c[i] = s[i]
  BY <1>1, <1>2 DEF c
<1>4. \A i \in DOMAIN t : Len(s) + i \in DOMAIN c /\ c[Len(s) + i] = t[i]
  BY <1>1, <1>2 DEF c
<1>5. \A i \in DOMAIN c : i \in Int
  BY <1>1 DEF c
<1>6. \A i \in DOMAIN c : i \in 1..Len(s) \/ (i - Len(s) \in DOMAIN t /\ c[i] = t[i - Len(s)])
  BY <1>1, <1>2 DEF c
<1>7. QED  BY <1>1, <1>3, <1>4, <1>5, <1>6 DEF c

LEMMA WalkSlice == ASSUME VisitInv, WalkInv, SlicePage PROVE WalkInv'
<1>1. /\ Result' = Result /\ \A p : Shown(p)' = Shown(p) /\ Ahead(p)' = Ahead(p) /\ Tied(p)' = Tied(p)
      /\ OnWalk /\ request' = request /\ change'.touched = change.touched
      /\ change'.joined = change.joined /\ change'.left = change.left /\ change'.again = change.again
  BY ReadRanks DEF Grid
<1>2. /\ found \in Found /\ request \in Requests /\ stage = "slice" /\ change' = change
      /\ stage' = IF found.offset + Limit < found.count THEN "count" ELSE "done"
  BY KindOfStage DEF VisitInv, SlicePage, Goto
<1>3. /\ found.offset \in Nat /\ found.count \in Nat /\ Limit \in Nat /\ found.given \in Seq(Products)
  BY <1>2, LimitFits, Constants DEF Found
<1>4. PICK page \in Seq(Products) :
        /\ found'.given = found.given \o page
        /\ found'.offset = found.offset + Limit /\ found'.count = found.count
        /\ \A i \in DOMAIN page : /\ i \in 1..Limit /\ page[i] \in Result
                                  /\ ~Tied(page[i]) => Cardinality(Ahead(page[i])) = found.offset + i - 1
        /\ \A p \in Result : \/ Tied(p) \/ \E i \in DOMAIN page : page[i] = p
                             \/ Cardinality(Ahead(p)) < found.offset
                             \/ Cardinality(Ahead(p)) >= found.offset + Limit
  BY SliceFacts
<1> DEFINE len == Len(found.given)
<1>5. /\ len \in Nat /\ DOMAIN found.given = 1..len
      /\ \A i \in 1..len : i \in DOMAIN found'.given /\ found'.given[i] = found.given[i]
      /\ \A i \in DOMAIN page : len + i \in DOMAIN found'.given /\ found'.given[len + i] = page[i]
      /\ \A i \in DOMAIN found'.given : i \in Int
      /\ \A i \in DOMAIN found'.given : i \in 1..len \/ (i - len \in DOMAIN page /\ found'.given[i] = page[i - len])
  BY <1>3, <1>4, Appended
<1> HIDE DEF len
<1>6. ASSUME NEW p \in Products, ~Tied(p), change.joined = {}, change.again = {}
      PROVE  /\ \A i, j \in DOMAIN found'.given : found'.given[i] = p /\ found'.given[j] = p => i = j
             /\ Given(p)' /\ Shown(p) => Cardinality(Ahead(p)) < found'.offset
  <2> DEFINE rank == Cardinality(Ahead(p))
             o == found.offset
             n == Limit
  <2>1. rank \in Int /\ o \in Int /\ n \in Int /\ n >= 0
    BY <1>3, AheadFinite
  <2>2. ASSUME NEW i \in DOMAIN page, page[i] = p
        PROVE  rank = o + i - 1 /\ i <= n /\ i >= 1 /\ i \in Int /\ Shown(p)
    BY <1>4, <1>6, <2>2, ResultIsShown
  <2>3. /\ \A i, j \in 1..len : found.given[i] = p /\ found.given[j] = p => i = j
        /\ \A i \in 1..len : found.given[i] = p /\ Shown(p) => rank < o
    BY <1>1, <1>5, <1>6 DEF WalkInv, RepeatInv, Given
  <2> HIDE DEF rank, o, n
  <2>4. ASSUME NEW i \in DOMAIN found'.given, NEW j \in DOMAIN found'.given,
               found'.given[i] = p, found'.given[j] = p, i \notin 1..len
        PROVE  i = j
    <3>1. /\ i - len \in DOMAIN page /\ page[i - len] = p
      BY <1>5, <2>4
    <3>2. rank = o + (i - len) - 1 /\ i - len >= 1 /\ Shown(p)
      BY <2>2, <3>1
    <3>3. j \notin 1..len
      <4>1. rank >= o
        BY <1>5, <2>1, <2>4, <3>2
      <4>2. j \in 1..len => rank < o
        BY <1>5, <2>3, <2>4, <3>2
      <4>3. QED  BY <2>1, <4>1, <4>2
    <3>4. j - len \in DOMAIN page /\ page[j - len] = p
      BY <1>5, <2>4, <3>3
    <3>5. rank = o + (j - len) - 1
      BY <2>2, <3>4
    <3>6. QED  BY <1>5, <2>1, <3>2, <3>5
  <2>5. \A i, j \in DOMAIN found'.given : found'.given[i] = p /\ found'.given[j] = p => i = j
    BY <1>5, <2>3, <2>4
  <2>6. ASSUME NEW i \in DOMAIN found'.given, found'.given[i] = p, Shown(p) PROVE rank < o + n
    <3>1. CASE i \in 1..len
      BY <1>5, <2>1, <2>3, <2>6, <3>1
    <3>2. CASE i \notin 1..len
      <4>1. i - len \in DOMAIN page /\ page[i - len] = p
        BY <1>5, <2>6, <3>2
      <4>2. QED  BY <2>1, <2>2, <4>1
    <3>3. QED  BY <3>1, <3>2
  <2>7. QED  BY <1>4, <2>5, <2>6 DEF Given, rank, o, n
<1>7. RepeatInv'
  BY <1>1, <1>6 DEF RepeatInv
<1>8. ASSUME change.left = {}, request.offset <= 0, NEW p \in Result \ change.touched, ~Tied(p), ~Given(p)'
      PROVE  found'.offset <= Cardinality(Ahead(p))
  <2> DEFINE rank == Cardinality(Ahead(p))
             o == found.offset
             n == Limit
  <2>1. rank \in Int /\ o \in Int /\ n \in Int
    BY <1>3, AheadFinite
  <2>2. ~Given(p) /\ ~\E i \in DOMAIN page : page[i] = p
    <3>1. \A i \in DOMAIN found'.given : found'.given[i] # p
      BY <1>8 DEF Given
    <3>2. \A i \in 1..len : i \in DOMAIN found'.given
      BY <1>5
    <3>3. \A i \in DOMAIN page : len + i \in DOMAIN found'.given
      BY <1>5
    <3>4. QED  BY <1>5, <3>1, <3>2, <3>3 DEF Given
  <2>3. o <= rank
    BY <1>1, <1>8, <2>2 DEF WalkInv, MissInv
  <2>4. rank < o \/ rank >= o + n
    BY <1>4, <1>8, <2>2
  <2> HIDE DEF rank, o, n
  <2>5. o + n <= rank
    BY <2>1, <2>3, <2>4
  <2>6. QED  BY <1>4, <2>5 DEF rank, o, n
<1>9. ASSUME request.offset <= 0, change.late = {} PROVE Cardinality(Result) <= found'.count
  BY <1>1, <1>2, <1>4, <1>9 DEF WalkInv, MissInv
<1>10. stage' = "done" => found'.count <= found'.offset
  BY <1>2, <1>3, <1>4
<1>11. MissInv'
  BY <1>1, <1>2, <1>8, <1>9, <1>10 DEF MissInv
<1>12. ASSUME NEW p \in Products, Given(p)' PROVE Shown(p) \/ p \in change.left
  <2>1. PICK i \in DOMAIN found'.given : found'.given[i] = p
    BY <1>12 DEF Given
  <2>2. CASE i \in 1..len
    BY <1>1, <1>5, <2>1, <2>2 DEF WalkInv, GivenStay, Given
  <2>3. CASE i - len \in DOMAIN page /\ found'.given[i] = page[i - len]
    BY <1>4, <2>1, <2>3, ResultIsShown
  <2>4. QED  BY <1>5, <2>1, <2>2, <2>3
<1>13. GivenStay'
  BY <1>1, <1>12 DEF GivenStay
<1>14. QED  BY <1>7, <1>11, <1>13 DEF WalkInv

LEMMA RanksAreFinite == \A p : IsFiniteSet(Ahead(p))
  BY AheadFinite

LEMMA RanksStayFinite == (\A p : IsFiniteSet(Ahead(p)))' /\ (\A p : Cardinality(Ahead(p)) \in Nat)'
  BY RanksAreFinite, RanksAreNumbers, PTL

LEMMA WalkWrite ==
  ASSUME VisitInv, WalkInv, NEW p \in Products, NEW row, Writes(p, row)
  PROVE  WalkInv'
<1>1. stage' = stage /\ stage \notin Ends /\ request' = request /\ found' = found /\ found \in Found
  BY WriteFacts DEF VisitInv
<1> SUFFICES ASSUME OnWalk' PROVE WalkInv'
  BY DEF WalkInv, GivenStay, RepeatInv, MissInv
<1>2. OnWalk /\ stage # "idle" /\ stage # "done" /\ change'.touched = change.touched \cup {p}
  BY <1>1, WriteFacts DEF OnWalk, Ends
<1>3. /\ change'.joined = {} => change.joined = {}
      /\ change'.left = {} => change.left = {}
      /\ change'.late = {} => change.late = {}
      /\ change'.again = {} => change.again = {}
  BY <1>2, TrackFacts
<1>4. \A q \in Products :
        /\ change'.left = {} \/ change'.again = {}
        /\ Shown(q) \/ (q \in change.left /\ change'.again = {})
        => (~Tied(q)' => ~Tied(q))
  BY <1>2, TiesStay
<1>5. \A q : Given(q)' = Given(q)
  BY <1>1 DEF Given
<1>6. (\A q : IsFiniteSet(Ahead(q))) /\ (\A q : IsFiniteSet(Ahead(q))')
  BY RanksAreFinite, RanksStayFinite
<1>7. (\A q : Cardinality(Ahead(q)) \in Nat) /\ (\A q : Cardinality(Ahead(q))' \in Nat)
  BY RanksAreNumbers, RanksStayFinite
<1>8. ASSUME NEW S, NEW T, IsFiniteSet(T), S \subseteq T
      PROVE  Cardinality(S) <= Cardinality(T)
  BY <1>8, FS_Subset
<1>9. ASSUME change'.joined = {}, change'.again = {}, NEW q \in Products, ~Tied(q)'
      PROVE  /\ \A i, j \in DOMAIN found'.given : found'.given[i] = q /\ found'.given[j] = q => i = j
             /\ Given(q)' /\ Shown(q)' => Cardinality(Ahead(q)') < found'.offset
  <2>1. /\ \A i, j \in DOMAIN found.given : found.given[i] = q /\ found.given[j] = q => i = j
        /\ Given(q) /\ Shown(q) => Cardinality(Ahead(q)) < found.offset
    <3>1. CASE Given(q)
      <4>1. Shown(q) \/ q \in change.left
        BY <1>2, <3>1 DEF WalkInv, GivenStay
      <4>2. ~Tied(q)
        BY <1>4, <1>9, <4>1
      <4>3. QED  BY <1>2, <1>3, <1>9, <4>2 DEF WalkInv, RepeatInv
    <3>2. CASE ~Given(q)
      BY <3>2 DEF Given
    <3>3. QED  BY <3>1, <3>2
  <2>2. ASSUME Given(q)', Shown(q)' PROVE Cardinality(Ahead(q)') < found'.offset
    <3>1. Shown(q) /\ Ahead(q)' \subseteq Ahead(q)
      BY <1>2, <1>9, <2>2, WritesMove, AheadMoves
    <3> DEFINE r == Cardinality(Ahead(q)')
               s == Cardinality(Ahead(q))
               o == found.offset
    <3>2. s < o /\ r <= s
      BY <1>5, <1>6, <1>8, <2>1, <2>2, <3>1
    <3>3. r \in Nat /\ s \in Nat /\ o \in Nat
      BY <1>1, <1>7 DEF Found
    <3> HIDE DEF r, s, o
    <3>4. r < o
      BY <3>2, <3>3
    <3>5. QED  BY <1>1, <3>4 DEF r, o
  <2>3. QED  BY <1>1, <2>1, <2>2
<1>10. RepeatInv'
  BY <1>9 DEF RepeatInv
<1>11. ASSUME change'.left = {}, request.offset <= 0, NEW q \in Result', q \notin change'.touched,
              ~Tied(q)', ~Given(q)'
       PROVE  found'.offset <= Cardinality(Ahead(q)')
  <2>1. q \in Products /\ Shown(q)' /\ q # p /\ q \notin change.touched
    BY <1>2, <1>11 DEF Result, Filtered, Shown
  <2>2. Shown(q) /\ q \in Result
    BY <2>1, OthersStay, ResultIsShown
  <2> DEFINE r == Cardinality(Ahead(q)')
             s == Cardinality(Ahead(q))
             o == found.offset
  <2>3. o <= s
    BY <1>2, <1>3, <1>4, <1>5, <1>11, <2>1, <2>2 DEF WalkInv, MissInv
  <2>4. s <= r
    BY <1>2, <1>6, <1>8, <1>11, <2>1, <2>2, AheadMoves
  <2>5. r \in Nat /\ s \in Nat /\ o \in Nat
    BY <1>1, <1>7 DEF Found
  <2> HIDE DEF r, s, o
  <2>6. o <= r
    BY <2>3, <2>4, <2>5
  <2>7. QED  BY <1>1, <2>6 DEF r, o
<1>12. ASSUME stage = "slice", change'.late = {}, request.offset <= 0
       PROVE  Cardinality(Result') <= found'.count
  <2>1. \A q : q \in Result' => q \in Products /\ Shown(q)'
    BY DEF Result, Filtered, Shown
  <2>2. Result' \subseteq Result
    BY <1>2, <1>12, <2>1, WritesMove, ResultIsShown
  <2> DEFINE r == Cardinality(Result')
             s == Cardinality(Result)
             n == found.count
  <2>3. s <= n
    BY <1>2, <1>3, <1>12 DEF WalkInv, MissInv
  <2>4. r <= s
    BY <1>8, <2>2, FiniteResult
  <2>5. s \in Nat /\ n \in Nat
    BY <1>1, FiniteResult DEF Found
  <2>6. r \in Nat
    <3>1. Cardinality(Result') \in Nat
      BY <2>2, FiniteResult, FS_Subset, FS_CardinalityType
    <3>2. QED  BY <3>1
  <2> HIDE DEF r, s, n
  <2>7. r <= n
    BY <2>3, <2>4, <2>5, <2>6
  <2>8. QED  BY <1>1, <2>7 DEF r, n
<1>13. MissInv'
  BY <1>1, <1>2, <1>11, <1>12 DEF MissInv
<1>14. ASSUME NEW q \in Products, Given(q)' PROVE Shown(q)' \/ q \in change'.left
  <2>1. Shown(q) \/ q \in change.left
    BY <1>2, <1>5, <1>14 DEF WalkInv, GivenStay
  <2>2. change.left \subseteq change'.left /\ (Shown(q) => Shown(q)' \/ q \in change'.left)
    BY <1>2, TrackFacts, OthersStay
  <2>3. QED  BY <2>1, <2>2
<1>15. GivenStay'
  BY <1>14 DEF GivenStay
<1>16. QED  BY <1>10, <1>13, <1>15 DEF WalkInv

-----------------------------------------------------------------------------
(* The invariant, and what follows from it *)

LEMMA WalkInit == Init => WalkInv
  BY DEF Init, WalkInv, GivenStay, RepeatInv, MissInv, OnWalk

LEMMA WalkStutters == ASSUME WalkInv, UNCHANGED vars PROVE WalkInv'
<1>1. /\ product' = product /\ stage' = stage /\ request' = request /\ found' = found /\ change' = change
  BY DEF vars
<1>2. \A p : Shown(p)' = Shown(p) /\ SortKey(p)' = SortKey(p)
  BY <1>1 DEF Shown, Matches, OnDisplay, Exists, Carries, OptionsOf, SortKey
<1>3. Result' = Result
  BY <1>1 DEF Result, Filtered, Matches, OnDisplay, Exists, Carries, OptionsOf
<1>4. \A p : Ahead(p)' = Ahead(p) /\ Tied(p)' = Tied(p) /\ Given(p)' = Given(p)
  BY <1>1, <1>2, <1>3 DEF Ahead, Precedes, Tied, Given
<1>5. RepeatInv'
  BY <1>1, <1>2, <1>4 DEF WalkInv, RepeatInv, OnWalk
<1>6. MissInv'
  BY <1>1, <1>3, <1>4 DEF WalkInv, MissInv, OnWalk
<1>7. GivenStay'
  BY <1>1, <1>2, <1>4 DEF WalkInv, GivenStay, OnWalk
<1>8. QED  BY <1>5, <1>6, <1>7 DEF WalkInv

LEMMA WalkNext == VisitInv /\ WalkInv /\ [Next]_vars => WalkInv'
<1> SUFFICES ASSUME VisitInv, WalkInv, [Next]_vars PROVE WalkInv'
  OBVIOUS
<1>1. ASSUME NEW p \in Products, Create(p) \/ Update(p) \/ Delete(p) \/ Restore(p)
      PROVE  WalkInv'
  <2>1. PICK row : Writes(p, row)
    BY <1>1, WritesRow
  <2>2. QED  BY <2>1, WalkWrite
<1>2. CASE Grid
  BY <1>2, WalkCount, WalkSlice DEF Grid
<1>3. QED  BY <1>1, <1>2, WalkOpens, WalkElsewhere, WalkStutters DEF Next

LEMMA TimesFinite ==
  ASSUME VisitInv, NEW p
  PROVE  LET S == {i \in DOMAIN found.given : found.given[i] = p} IN IsFiniteSet(S) /\ Times(p) = Cardinality(S)
<1> DEFINE S == {i \in DOMAIN found.given : found.given[i] = p}
           n == Len(found.given)
<1>1. found.given \in Seq(Products)
  BY DEF VisitInv, Found
<1>2. n \in Nat /\ S \in SUBSET (1..n)
  BY <1>1
<1>3. IsFiniteSet(S)
  <2> HIDE DEF S, n
  <2>1. IsFiniteSet(1..n)
    BY <1>2, FS_Interval
  <2>2. QED  BY <1>2, <2>1, FS_Subset
<1>4. QED  BY <1>3 DEF Times

LEMMA MissFollows == VisitInv /\ WalkInv => WalkMissesOnlyAfterChange
<1> SUFFICES ASSUME VisitInv, WalkInv, Asked("page"), request.offset <= 0, NEW p \in Result \ change.touched,
                    Times(p) = 0, change.left = {}, change.late = {}, ~Tied(p)
             PROVE  FALSE
  BY DEF WalkMissesOnlyAfterChange
<1>1. OnWalk /\ stage = "done" /\ found \in Found /\ p \in Products
  BY FiniteResult DEF Asked, OnWalk, VisitInv
<1>2. ~Given(p)
  <2> DEFINE S == {i \in DOMAIN found.given : found.given[i] = p}
  <2>1. IsFiniteSet(S) /\ Cardinality(S) = 0
    BY TimesFinite
  <2>2. S = {}
    <3> HIDE DEF S
    <3>1. QED  BY <2>1, FS_EmptySet
  <2>3. QED  BY <2>2 DEF Given
<1> DEFINE A == Ahead(p)
           rank == Cardinality(A)
           size == Cardinality(Result)
<1>3. found.offset <= rank /\ size <= found.count /\ found.count <= found.offset
  BY <1>1, <1>2 DEF WalkInv, MissInv
<1>4. p \notin A
  <2>1. product[p].stamp \in Nat
    BY <1>1 DEF VisitInv, Rows
  <2>2. QED  BY <1>1, <2>1, KeyIsNumber DEF Ahead, Precedes
<1>5. A \in SUBSET Result /\ IsFiniteSet(Result) /\ p \in Result
  BY FiniteResult DEF Ahead
<1>6. rank # size /\ rank <= size
  <2> HIDE DEF A
  <2>1. QED  BY <1>4, <1>5, FS_Subset
<1>7. rank \in Nat /\ size \in Nat /\ found.offset \in Nat /\ found.count \in Nat
  BY <1>1, AheadFinite, FiniteResult DEF Found
<1> HIDE DEF rank, size
<1>8. QED  BY <1>3, <1>6, <1>7

LEMMA RepeatFollows == VisitInv /\ WalkInv => WalkRepeatsOnlyAfterArrival
<1> SUFFICES ASSUME VisitInv, WalkInv, Asked("page"), NEW p \in Products, change.joined = {},
                    change.again = {}, ~Tied(p)
             PROVE  ~(Times(p) > 1)
  BY DEF WalkRepeatsOnlyAfterArrival
<1> DEFINE S == {i \in DOMAIN found.given : found.given[i] = p}
<1>1. \A i, j \in S : i = j
  BY DEF WalkInv, RepeatInv, OnWalk, Asked
<1>2. Times(p) = Cardinality(S)
  BY TimesFinite
<1> HIDE DEF S
<1>3. S = {} \/ \E i : S = {i}
  BY <1>1
<1>4. Cardinality(S) = 0 \/ Cardinality(S) = 1
  BY <1>3, FS_EmptySet, FS_Singleton
<1>5. QED  BY <1>2, <1>4

-----------------------------------------------------------------------------
(* Theorems *)

\* Along every behaviour, what a walk was given and what it was not keep their side of its
\* offset, as far as nothing left, joined or moved.
THEOREM WalkInvariant == Spec => []WalkInv
<1>1. Init => WalkInv
  BY WalkInit
<1>2. VisitInv /\ WalkInv /\ [Next]_vars => WalkInv'
  BY WalkNext
<1>3. StorefrontInv => VisitInv
  BY DEF StorefrontInv
<1>4. QED  BY <1>1, <1>2, <1>3, StorefrontInvariant, PTL DEF Spec

\* A walk over the pages of the grid, each counted and then sliced anew, gives a product twice
\* or misses one that was there all the time only after a write that moves the offsets, or at
\* a tie that the ordering leaves open: for every sort, page size and number of writes.
THEOREM WalksStray == Spec => []WalksStrayOnlyAfterChange
<1>1. VisitInv /\ WalkInv => WalksStrayOnlyAfterChange
  BY MissFollows, RepeatFollows DEF WalksStrayOnlyAfterChange
<1>2. StorefrontInv => VisitInv
  BY DEF StorefrontInv
<1>3. QED  BY <1>1, <1>2, StorefrontInvariant, WalkInvariant, PTL
=============================================================================
