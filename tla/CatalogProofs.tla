--------------------------- MODULE CatalogProofs ---------------------------
(***************************************************************************)
(* Theorems about Catalog, for any number of creates, updates, deletions   *)
(* and categories.                                                         *)
(*                                                                         *)
(* The unique constraint is not enough for the slugs to stay unique here:  *)
(* a slug is also held by products that are not committed yet (HeldApart), *)
(* and an update writes back a slug that it read long ago (SlugsStay).     *)
(***************************************************************************)
EXTENDS Catalog, FiniteSetTheorems, TLAPS

\* What a create has drawn up by each of its stages.
ProductCall(c) ==
  /\ stage[c] # "idle" => payload[c] \in Posts
  /\ stage[c] \in {"probe", "insert", "axes", "commit", "recheck"} => draft[c].category \in Categories
  /\ stage[c] \in {"insert", "axes", "commit", "recheck"} => draft[c].slug \in Slugs
  /\ stage[c] \in {"axes", "commit"} => payload[c].price \in 0..MaxInt
  /\ stage[c] # "done" => tries[c] < Tries /\ answer[c] = None
  /\ stage[c] = "created" => c \in created
  /\ c \in created => stage[c] \in {"created", "done"}
  /\ answer[c] = 201 => c \in created
  /\ answer[c] \in {404, 409, 500} => c \notin created

CategoryCall(c) ==
  /\ stage[c] \in {"idle", "probe", "insert", "done"}
  /\ stage[c] # "idle" => payload[c] \in CategoryPosts
  /\ stage[c] = "insert" => draft[c].slug \in Slugs

Holding(c) == stage[c] \in {"axes", "commit"}

\* The slug of an open transaction is nobody else's.
HoldsAlone(c) == Holding(c) => ~Taken(c, draft[c].slug) /\ ~Held(c, draft[c].slug)

CallsInv ==
  /\ \A c \in Creators : ProductCall(c) /\ HoldsAlone(c)
  /\ \A c \in Founders : CategoryCall(c)

\* A product keeps the slug that it was created with, and so does whoever edits it.
SlugsStay ==
  /\ \A p \in Creators : product[p] # None => p \in created /\ product[p].slug = draft[p].slug
  /\ \A e \in Editors : editing[e] # None =>
       editing[e].product \in created /\ editing[e].row.slug = draft[editing[e].product].slug

CatalogInv == TypeOK /\ CallsInv /\ SlugsStay /\ ProductsAreShelved

\* Once the slug of a create is taken, one more product was created than it has tried for.
Beaten(c) ==
  /\ Cardinality(created \ {c}) >= tries[c]
  /\ stage[c] \in {"insert", "axes", "commit", "recheck"} /\ Taken(c, draft[c].slug) =>
       Cardinality(created \ {c}) >= tries[c] + 1
  /\ answer[c] = 409 => tries[c] >= Tries

\* Nobody brings a deleted product back: either none is deleted, or none is updated.
Steady == ~Deletes \/ Patches = {}

RivalsInv ==
  /\ IsFiniteSet(created)
  /\ ~Deletes => \A p \in created : product[p] # None
  /\ Patches = {} => \A e \in Editors : editing[e] = None
  /\ \A c \in Creators : Beaten(c)

-----------------------------------------------------------------------------
(* The constants *)

LEMMA Apart ==
  /\ Creators \cap Founders = {} /\ Shelves \cap Founders = {}
  /\ Calls = Creators \cup Founders /\ Categories = Shelves \cup Founders
  BY CatalogAssumption DEF CatalogAssumption, Calls, Categories

LEMMA NoneIsApart ==
  /\ None \notin Slugs /\ None \notin Categories /\ None \notin Posts /\ None \notin CategoryPosts
  /\ None \notin ProductRows /\ None \notin Edits /\ None \notin {0, 201, 404, 409, 500}
  BY CatalogAssumption DEF CatalogAssumption, Codes

LEMMA Bounds == MaxInt \in Nat /\ Tries \in Nat \ {0} /\ MaxSuffix \in Nat \ {0}
  BY CatalogAssumption DEF CatalogAssumption

LEMMA Payloads ==
  /\ \A p \in Posts : p.name \in Names /\ p.shelf \in Slugs /\ p.price \in Int
  /\ \A p \in CategoryPosts : p.name \in Names
  BY CatalogAssumption DEF CatalogAssumption, ProductPosts, CategoryPosts

LEMMA CandidateIsSlug ==
  ASSUME TypeOK, NEW c \in Calls, payload[c] \in Posts \cup CategoryPosts
  PROVE  Candidate(c) \in Slugs
<1>1. payload[c].name \in Names /\ at[c] \in 1 .. MaxSuffix
  BY Payloads DEF TypeOK
<1>2. Candidates \in [Names -> [1 .. MaxSuffix -> Slugs]]
  BY CatalogAssumption DEF CatalogAssumption
<1>3. QED  BY <1>1, <1>2 DEF Candidate

-----------------------------------------------------------------------------
(* The steps of one call *)

CallTypes ==
  /\ stage \in [Calls -> Stages]
  /\ payload \in [Calls -> Posts \cup CategoryPosts \cup {None}]
  /\ at \in [Calls -> 1..MaxSuffix]
  /\ draft \in [Calls -> Drafts]
  /\ tries \in [Calls -> 0..Tries]
  /\ answer \in [Calls -> Codes \cup {None}]

\* A step of call c that commits nothing.
CallMoves(c) ==
  /\ UNCHANGED tableVars
  /\ CallTypes'
  /\ \A d \in Calls \ {c} : /\ stage'[d] = stage[d] /\ payload'[d] = payload[d] /\ draft'[d] = draft[d]
                            /\ tries'[d] = tries[d] /\ answer'[d] = answer[d]

LEMMA CallStep ==
  ASSUME CatalogInv, NEW c \in Calls, CallMoves(c),
         c \in Creators => /\ ProductCall(c)' /\ (c \in created => draft'[c] = draft[c])
                           /\ (Holding(c)' => \/ Holding(c) /\ draft'[c] = draft[c]
                                              \/ ~Taken(c, draft[c].slug)' /\ ~Held(c, draft[c].slug)'),
         c \in Founders => CategoryCall(c)'
  PROVE  CatalogInv'
<1>0. /\ product' = product /\ category' = category /\ closing' = closing /\ editing' = editing
      /\ created' = created
  BY DEF CallMoves, tableVars
<1>1. TypeOK'
  BY <1>0 DEF CallMoves, CallTypes, CatalogInv, TypeOK, SlugsAreUnique
<1>2. ProductsAreShelved'
  BY <1>0 DEF CatalogInv, ProductsAreShelved
<1>3. SlugsStay'
  <2>1. \A p \in created : p \in Calls /\ draft'[p] = draft[p]
    BY Apart DEF CallMoves, CatalogInv, TypeOK
  <2>2. QED  BY <1>0, <2>1 DEF CatalogInv, SlugsStay
<1>4. ASSUME NEW d \in Founders PROVE CategoryCall(d)'
  BY Apart DEF CatalogInv, CallsInv, CategoryCall, CallMoves
<1>5. ASSUME NEW d \in Creators PROVE ProductCall(d)'
  BY <1>0, Apart DEF CatalogInv, CallsInv, ProductCall, CallMoves
<1>6. ASSUME NEW d \in Creators PROVE HoldsAlone(d)'
  <2>1. \A z \in Creators \ {c} : stage'[z] = stage[z] /\ draft'[z] = draft[z]
    BY Apart DEF CallMoves
  <2>2. ASSUME NEW z \in Creators, NEW x PROVE Taken(z, x)' <=> Taken(z, x)
    BY <1>0, Apart DEF Taken
  <2>3. HoldsAlone(d)
    BY DEF CatalogInv, CallsInv
  <2>4. CASE d = c
    BY <2>1, <2>2, <2>3, <2>4, Apart DEF HoldsAlone, Holding, Held
  <2>5. CASE d # c /\ Holding(d)
    <3>1. ~Taken(d, draft[d].slug)'
      BY <2>1, <2>2, <2>3, <2>5 DEF HoldsAlone
    <3>2. \A p \in Creators \ {c, d} : Holding(p) => draft[p].slug # draft[d].slug
      BY <2>3, <2>5 DEF HoldsAlone, Held, Holding
    <3>3. c \in Creators /\ Holding(c)' => draft'[c].slug # draft[d].slug
      BY <2>1, <2>3, <2>5 DEF HoldsAlone, Held, Holding
    <3>4. QED  BY <2>1, <3>1, <3>2, <3>3 DEF HoldsAlone, Held, Holding
  <2>6. CASE d # c /\ ~Holding(d)
    BY <2>1, <2>6 DEF HoldsAlone, Holding
  <2>7. QED  BY <2>4, <2>5, <2>6
<1>7. QED  BY <1>1, <1>2, <1>3, <1>4, <1>5, <1>6 DEF CatalogInv, CallsInv

LEMMA TypesNow == ASSUME CatalogInv PROVE CallTypes
  BY DEF CatalogInv, TypeOK, CallTypes

LEMMA PostProductStep ==
  ASSUME CatalogInv, NEW c \in Creators, PostProduct(c)
  PROVE  CatalogInv'
<1>0. c \in Calls /\ c \notin Founders /\ CallTypes /\ ProductCall(c)
  BY Apart, TypesNow DEF CatalogInv, CallsInv
<1>1. /\ stage' = [stage EXCEPT ![c] = "lookup"] /\ answer' = answer
      /\ UNCHANGED <<at, draft, tries, tableVars>> /\ stage[c] = "idle"
      /\ \E p \in Posts : payload' = [payload EXCEPT ![c] = p]
  BY DEF PostProduct, Goto
<1>2. CallMoves(c)
  BY <1>0, <1>1 DEF CallMoves, CallTypes, Stages, tableVars
<1>3. stage'[c] = "lookup" /\ payload'[c] \in Posts /\ tries'[c] = tries[c] /\ answer'[c] = answer[c]
  BY <1>0, <1>1 DEF CallTypes
<1>4. ProductCall(c)'
  BY <1>0, <1>1, <1>3, NoneIsApart DEF ProductCall, tableVars
<1>5. QED  BY <1>0, <1>1, <1>2, <1>3, <1>4, CallStep DEF Holding

LEMMA FindCategoryStep ==
  ASSUME CatalogInv, NEW c \in Calls, FindCategory(c)
  PROVE  CatalogInv'
<1>0. c \in Creators /\ c \notin Founders /\ CallTypes /\ ProductCall(c) /\ stage[c] = "lookup"
  BY Apart, TypesNow DEF CatalogInv, CallsInv, CategoryCall, FindCategory
<1>1. CASE \E k \in Shelved(payload[c].shelf) : Draw(c, draft[c].slug, k) /\ Goto(c, "probe")
  <2>1. PICK k \in Categories : Draw(c, draft[c].slug, k) /\ Goto(c, "probe")
    BY <1>1 DEF Shelved
  <2>2. CallMoves(c)
    BY <1>0, <2>1 DEF FindCategory, Draw, Goto, CallMoves, CallTypes, Stages, Drafts, tableVars
  <2>3. /\ stage'[c] = "probe" /\ draft'[c].category = k /\ payload'[c] = payload[c]
        /\ tries'[c] = tries[c] /\ answer'[c] = answer[c] /\ created' = created
    BY <1>0, <2>1 DEF FindCategory, Draw, Goto, CallTypes, tableVars
  <2>4. ProductCall(c)'
    BY <1>0, <2>3 DEF ProductCall
  <2>5. QED  BY <1>0, <2>2, <2>3, <2>4, CallStep DEF Holding, ProductCall
<1>2. CASE Answer(c, 404) /\ UNCHANGED draft
  <2>1. CallMoves(c)
    BY <1>0, <1>2 DEF FindCategory, Answer, CallMoves, CallTypes, Stages, Codes, tableVars
  <2>2. stage'[c] = "done" /\ answer'[c] = 404 /\ payload'[c] = payload[c] /\ created' = created
    BY <1>0, <1>2 DEF FindCategory, Answer, CallTypes, tableVars
  <2>3. ProductCall(c)'
    BY <1>0, <2>2 DEF ProductCall
  <2>4. QED  BY <1>0, <1>2, <2>1, <2>2, <2>3, CallStep DEF Holding
<1>3. QED  BY <1>1, <1>2 DEF FindCategory

LEMMA ProbeStep ==
  ASSUME CatalogInv, NEW c \in Calls, Probe(c)
  PROVE  CatalogInv'
<1>0. /\ CallTypes /\ stage[c] = "probe" /\ Candidate(c) \in Slugs /\ payload[c] \in Posts \cup CategoryPosts
      /\ c \in Creators => ProductCall(c)
      /\ c \in Founders => CategoryCall(c)
  <2>1. /\ c \in Creators => ProductCall(c)
        /\ c \in Founders => CategoryCall(c)
    BY DEF CatalogInv, CallsInv
  <2>2. stage[c] = "probe" /\ payload[c] \in Posts \cup CategoryPosts
    BY <2>1, Apart DEF Probe, ProductCall, CategoryCall
  <2>3. QED  BY <2>1, <2>2, TypesNow, CandidateIsSlug DEF CatalogInv
<1>1. CASE Taken(c, Candidate(c))
  <2>1. /\ at[c] < MaxSuffix /\ at' = [at EXCEPT ![c] = @ + 1]
        /\ UNCHANGED <<stage, draft, answer, payload, tries, tableVars>>
    BY <1>1 DEF Probe
  <2>2. at'[c] \in 1 .. MaxSuffix
    BY <1>0, <2>1, Bounds DEF CallTypes
  <2>3. CallMoves(c)
    BY <1>0, <2>1, <2>2 DEF CallMoves, CallTypes, tableVars
  <2>4. c \in Creators => ProductCall(c)'
    BY <1>0, <2>1 DEF ProductCall, tableVars
  <2>5. c \in Founders => CategoryCall(c)'
    BY <1>0, <2>1 DEF CategoryCall
  <2>6. QED  BY <1>0, <2>1, <2>3, <2>4, <2>5, CallStep DEF Holding
<1>2. CASE ~Taken(c, Candidate(c))
  <2>1. /\ Draw(c, Candidate(c), draft[c].category) /\ Goto(c, "insert")
        /\ UNCHANGED <<at, payload, tries, tableVars>>
    BY <1>2 DEF Probe
  <2>2. CallMoves(c)
    BY <1>0, <2>1 DEF Draw, Goto, CallMoves, CallTypes, Stages, Drafts, tableVars
  <2>3. /\ stage'[c] = "insert" /\ draft'[c].slug \in Slugs /\ draft'[c].category = draft[c].category
        /\ payload'[c] = payload[c] /\ tries'[c] = tries[c] /\ answer'[c] = answer[c] /\ created' = created
    BY <1>0, <2>1 DEF Draw, Goto, CallTypes, tableVars
  <2>4. c \in Creators => ProductCall(c)'
    BY <1>0, <2>3 DEF ProductCall
  <2>5. c \in Founders => CategoryCall(c)'
    BY <1>0, <2>3 DEF CategoryCall
  <2>6. QED  BY <1>0, <2>2, <2>3, <2>4, <2>5, CallStep DEF Holding, ProductCall
<1>3. QED  BY <1>1, <1>2

LEMMA InsertProductStep ==
  ASSUME CatalogInv, NEW c \in Calls, InsertProduct(c)
  PROVE  CatalogInv'
<1>0. c \in Creators /\ c \notin Founders /\ CallTypes /\ ProductCall(c) /\ stage[c] = "insert"
      /\ c \notin created
  BY Apart, TypesNow DEF CatalogInv, CallsInv, InsertProduct, ProductCall
<1>u. UNCHANGED <<payload, at, draft, tries, tableVars>> /\ created' = created
  BY DEF InsertProduct, tableVars
<1>1. CASE Answer(c, 500)
  <2>1. CallMoves(c)
    BY <1>0, <1>1, <1>u DEF Answer, CallMoves, CallTypes, Stages, Codes, tableVars
  <2>2. stage'[c] = "done" /\ answer'[c] = 500
    BY <1>0, <1>1 DEF Answer, CallTypes
  <2>3. ProductCall(c)'
    BY <1>0, <1>u, <2>2 DEF ProductCall
  <2>4. QED  BY <1>0, <2>1, <2>2, <2>3, CallStep DEF Holding
<1>2. ASSUME NEW x \in {"recheck", "axes"}, Goto(c, x),
             x = "axes" => /\ payload[c].price \in 0..MaxInt
                           /\ ~Held(c, draft[c].slug) /\ ~Taken(c, draft[c].slug)
      PROVE  CatalogInv'
  <2>1. CallMoves(c)
    BY <1>0, <1>2, <1>u DEF Goto, CallMoves, CallTypes, Stages, tableVars
  <2>2. stage'[c] = x /\ answer'[c] = answer[c]
    BY <1>0, <1>2 DEF Goto, CallTypes
  <2>3. ProductCall(c)'
    BY <1>0, <1>u, <1>2, <2>2 DEF ProductCall
  <2>4. x = "axes" => ~Taken(c, draft[c].slug)' /\ ~Held(c, draft[c].slug)'
    BY <1>0, <1>2, <1>u, <2>1, Apart DEF Taken, Held, CallMoves, tableVars
  <2>5. QED  BY <1>0, <2>1, <2>2, <2>3, <2>4, CallStep DEF Holding
<1>3. \/ Answer(c, 500)
      \/ Goto(c, "recheck")
      \/ /\ Goto(c, "axes") /\ payload[c].price \in 0..MaxInt
         /\ ~Held(c, draft[c].slug) /\ ~Taken(c, draft[c].slug)
  BY DEF InsertProduct
<1>4. QED  BY <1>1, <1>2, <1>3

LEMMA InsertAxesStep ==
  ASSUME CatalogInv, NEW c \in Calls, InsertAxes(c)
  PROVE  CatalogInv'
<1>0. c \in Creators /\ c \notin Founders /\ CallTypes /\ ProductCall(c) /\ stage[c] = "axes"
  BY Apart, TypesNow DEF CatalogInv, CallsInv, CategoryCall, InsertAxes
<1>1. UNCHANGED <<payload, at, draft, tries, tableVars>> /\ created' = created
  BY DEF InsertAxes, tableVars
<1>2. \E x \in {"recheck", "commit"} : Goto(c, x)
  BY DEF InsertAxes
<1>3. CallMoves(c) /\ stage'[c] \in {"recheck", "commit"} /\ answer'[c] = answer[c]
  BY <1>0, <1>1, <1>2 DEF Goto, CallMoves, CallTypes, Stages, tableVars
<1>4. ProductCall(c)'
  BY <1>0, <1>1, <1>3 DEF ProductCall
<1>5. QED  BY <1>0, <1>1, <1>3, <1>4, CallStep DEF Holding

LEMMA ReplyCreatedStep ==
  ASSUME CatalogInv, NEW c \in Calls, ReplyCreated(c)
  PROVE  CatalogInv'
<1>0. c \in Creators /\ c \notin Founders /\ CallTypes /\ ProductCall(c) /\ stage[c] = "created"
  BY Apart, TypesNow DEF CatalogInv, CallsInv, CategoryCall, ReplyCreated
<1>1. UNCHANGED <<payload, at, draft, tries, tableVars>> /\ created' = created /\ Answer(c, 201)
  BY DEF ReplyCreated, tableVars
<1>2. CallMoves(c) /\ stage'[c] = "done" /\ answer'[c] = 201
  BY <1>0, <1>1 DEF Answer, CallMoves, CallTypes, Stages, Codes, tableVars
<1>3. ProductCall(c)'
  BY <1>0, <1>1, <1>2 DEF ProductCall
<1>4. QED  BY <1>0, <1>1, <1>2, <1>3, CallStep DEF Holding

LEMMA RecheckStep ==
  ASSUME CatalogInv, NEW c \in Calls, Recheck(c)
  PROVE  CatalogInv'
<1>0. c \in Creators /\ c \notin Founders /\ CallTypes /\ ProductCall(c) /\ stage[c] = "recheck"
      /\ c \notin created /\ tries[c] < Tries
  BY Apart, TypesNow DEF CatalogInv, CallsInv, CategoryCall, Recheck, ProductCall
<1>1. UNCHANGED <<payload, draft, tableVars>> /\ created' = created
  BY DEF Recheck, tableVars
<1>2. CASE ~Taken(c, draft[c].slug)
  <2>1. Answer(c, 500) /\ UNCHANGED <<at, tries>>
    BY <1>2 DEF Recheck
  <2>2. CallMoves(c) /\ stage'[c] = "done" /\ answer'[c] = 500
    BY <1>0, <1>1, <2>1 DEF Answer, CallMoves, CallTypes, Stages, Codes, tableVars
  <2>3. ProductCall(c)'
    BY <1>0, <1>1, <2>2 DEF ProductCall
  <2>4. QED  BY <1>0, <2>2, <2>3, CallStep DEF Holding
<1>3. CASE Taken(c, draft[c].slug)
  <2>1. /\ tries' = [tries EXCEPT ![c] = tries[c] + 1] /\ at' = [at EXCEPT ![c] = 1]
        /\ IF tries[c] + 1 = Tries THEN Answer(c, 409) ELSE Goto(c, "probe")
    BY <1>3 DEF Recheck
  <2>2. tries'[c] = tries[c] + 1 /\ tries'[c] \in 0..Tries /\ 1 \in 1..MaxSuffix
    BY <1>0, <2>1, Bounds DEF CallTypes
  <2>3. tries' \in [Calls -> 0..Tries] /\ at' \in [Calls -> 1..MaxSuffix]
    BY <1>0, <2>1, <2>2 DEF CallTypes
  <2>4. CASE tries[c] + 1 = Tries
    <3>1. Answer(c, 409)
      BY <2>1, <2>4
    <3>2. CallMoves(c) /\ stage'[c] = "done" /\ answer'[c] = 409
      BY <1>0, <1>1, <2>1, <2>3, <3>1 DEF Answer, CallMoves, CallTypes, Stages, Codes, tableVars
    <3>3. ProductCall(c)'
      BY <1>0, <1>1, <3>2 DEF ProductCall
    <3>4. QED  BY <1>0, <3>2, <3>3, CallStep DEF Holding
  <2>5. CASE tries[c] + 1 # Tries
    <3>1. Goto(c, "probe")
      BY <2>1, <2>5
    <3>2. CallMoves(c) /\ stage'[c] = "probe" /\ answer'[c] = answer[c]
      BY <1>0, <1>1, <2>1, <2>3, <3>1 DEF Goto, CallMoves, CallTypes, Stages, tableVars
    <3>3. tries'[c] < Tries
      BY <1>0, <2>2, <2>5, Bounds DEF CallTypes
    <3>4. ProductCall(c)'
      BY <1>0, <1>1, <3>2, <3>3 DEF ProductCall
    <3>5. QED  BY <1>0, <3>2, <3>4, CallStep DEF Holding
  <2>6. QED  BY <2>4, <2>5
<1>4. QED  BY <1>2, <1>3

LEMMA PostCategoryStep ==
  ASSUME CatalogInv, NEW c \in Founders, PostCategory(c)
  PROVE  CatalogInv'
<1>0. c \in Calls /\ c \notin Creators /\ CallTypes
  BY Apart, TypesNow
<1>1. /\ Goto(c, "probe") /\ UNCHANGED <<at, draft, tries, tableVars>>
      /\ \E p \in CategoryPosts : payload' = [payload EXCEPT ![c] = p]
  BY DEF PostCategory, CategoryPosts
<1>2. CallMoves(c) /\ stage'[c] = "probe" /\ payload'[c] \in CategoryPosts
  BY <1>0, <1>1 DEF Goto, CallMoves, CallTypes, Stages, tableVars
<1>3. QED  BY <1>0, <1>2, CallStep DEF CategoryCall

LEMMA CrashStep ==
  ASSUME CatalogInv, NEW c \in Calls, Crash(c)
  PROVE  CatalogInv'
<1>0. /\ CallTypes
      /\ c \in Creators => ProductCall(c)
      /\ c \in Founders => CategoryCall(c)
  BY TypesNow DEF CatalogInv, CallsInv
<1>1. /\ UNCHANGED <<payload, at, draft, tries, tableVars>> /\ created' = created /\ Answer(c, 0)
      /\ stage[c] # "idle"
  BY DEF Crash, tableVars
<1>2. CallMoves(c) /\ stage'[c] = "done" /\ answer'[c] = 0
  BY <1>0, <1>1 DEF Answer, CallMoves, CallTypes, Stages, Codes, tableVars
<1>3. c \in Creators => ProductCall(c)'
  BY <1>0, <1>1, <1>2 DEF ProductCall
<1>4. c \in Founders => CategoryCall(c)'
  BY <1>0, <1>1, <1>2 DEF CategoryCall
<1>5. QED  BY <1>0, <1>1, <1>2, <1>3, <1>4, CallStep DEF Holding

-----------------------------------------------------------------------------
(* The steps that commit *)

\* The committed row of a create.
RowOf(c) == [slug |-> draft[c].slug, category |-> draft[c].category, price |-> payload[c].price, visible |-> TRUE]

LEMMA CommitProductStep ==
  ASSUME CatalogInv, NEW c \in Calls, CommitProduct(c)
  PROVE  CatalogInv'
<1>0. /\ c \in Creators /\ c \notin Founders /\ CallTypes /\ ProductCall(c) /\ stage[c] = "commit"
      /\ c \notin created /\ HoldsAlone(c)
  BY Apart, TypesNow DEF CatalogInv, CallsInv, CategoryCall, CommitProduct, ProductCall
<1>u. UNCHANGED <<payload, at, draft, tries, category, closing, editing>>
  BY DEF CommitProduct
<1>1. CASE category[draft[c].category] = None
  <2>1. Goto(c, "recheck") /\ UNCHANGED <<product, created>>
    BY <1>1 DEF CommitProduct
  <2>2. CallMoves(c) /\ stage'[c] = "recheck" /\ answer'[c] = answer[c]
    BY <1>0, <1>u, <2>1 DEF Goto, CallMoves, CallTypes, Stages, tableVars
  <2>3. ProductCall(c)'
    BY <1>0, <1>u, <2>1, <2>2 DEF ProductCall
  <2>4. QED  BY <1>0, <2>2, <2>3, CallStep DEF Holding
<1>2. CASE category[draft[c].category] # None
  <2>1. /\ product' = [product EXCEPT ![c] = RowOf(c)] /\ created' = created \cup {c} /\ Goto(c, "created")
    BY <1>2 DEF CommitProduct, RowOf
  <2>2. RowOf(c) \in ProductRows /\ RowOf(c).slug = draft[c].slug /\ RowOf(c).category = draft[c].category
    BY <1>0 DEF RowOf, ProductRows, ProductCall
  <2>3. RowOf(c) # None
    BY <2>2, NoneIsApart
  <2>4. /\ product'[c] = RowOf(c)
        /\ \A p \in Creators \ {c} : product'[p] = product[p]
        /\ product' \in [Creators -> ProductRows \cup {None}]
    BY <1>0, <2>1, <2>2 DEF CatalogInv, TypeOK
  <2>5. /\ stage' = [stage EXCEPT ![c] = "created"] /\ answer' = answer /\ stage'[c] = "created"
        /\ \A d \in Calls \ {c} : stage'[d] = stage[d]
    BY <1>0, <2>1 DEF Goto, CallTypes
  <2>6. \A p \in Creators : product[p] # None => product[p].slug # draft[c].slug
    BY <1>0 DEF HoldsAlone, Holding, Taken
  <2>7. SlugsAreUnique'
    BY <1>u, <2>2, <2>4, <2>6 DEF CatalogInv, TypeOK, SlugsAreUnique
  <2>8. TypeOK'
    BY <1>0, <1>u, <2>1, <2>4, <2>5, <2>7 DEF CatalogInv, TypeOK, Stages
  <2>9. ProductsAreShelved'
    BY <1>2, <1>u, <2>2, <2>4 DEF CatalogInv, ProductsAreShelved
  <2>10. SlugsStay'
    BY <1>u, <2>1, <2>2, <2>4 DEF CatalogInv, SlugsStay
  <2>11. ASSUME NEW d \in Creators PROVE ProductCall(d)' /\ HoldsAlone(d)'
    <3>1. ProductCall(d)'
      BY <1>0, <1>u, <2>1, <2>5, Apart, NoneIsApart DEF CatalogInv, CallsInv, ProductCall
    <3>2. CASE d = c
      BY <2>5, <3>1, <3>2 DEF HoldsAlone, Holding
    <3>3. CASE d # c /\ Holding(d)
      <4>1. draft[d].slug # draft[c].slug
        BY <1>0, <3>3 DEF HoldsAlone, Held, Holding
      <4>2. ~Taken(d, draft[d].slug)'
        BY <1>u, <2>2, <2>4, <3>3, <4>1, Apart DEF CatalogInv, CallsInv, HoldsAlone, Taken
      <4>3. ~Held(d, draft[d].slug)'
        BY <1>u, <2>5, <3>3, Apart DEF CatalogInv, CallsInv, HoldsAlone, Held
      <4>4. QED  BY <1>u, <3>1, <4>2, <4>3 DEF HoldsAlone
    <3>4. CASE d # c /\ ~Holding(d)
      BY <2>5, <3>1, <3>4, Apart DEF HoldsAlone, Holding
    <3>5. QED  BY <3>2, <3>3, <3>4
  <2>12. \A d \in Founders : CategoryCall(d)'
    BY <1>0, <1>u, <2>5, Apart DEF CatalogInv, CallsInv, CategoryCall
  <2>13. QED  BY <2>8, <2>9, <2>10, <2>11, <2>12 DEF CatalogInv, CallsInv
<1>3. QED  BY <1>1, <1>2

\* A step that moves no call leaves the calls as they were, if the slugs that are held stay free.
LEMMA TablesStep ==
  ASSUME CatalogInv, UNCHANGED <<callVars, created>>,
         \A c \in Creators : Holding(c) => ~Taken(c, draft[c].slug)'
  PROVE  CallsInv'
<1>0. /\ stage' = stage /\ payload' = payload /\ draft' = draft /\ tries' = tries /\ answer' = answer
      /\ created' = created
  BY DEF callVars
<1>1. ASSUME NEW c \in Creators PROVE ProductCall(c)' /\ HoldsAlone(c)'
  BY <1>0 DEF CatalogInv, CallsInv, ProductCall, HoldsAlone, Holding, Held
<1>2. ASSUME NEW c \in Founders PROVE CategoryCall(c)'
  BY <1>0 DEF CatalogInv, CallsInv, CategoryCall
<1>3. QED  BY <1>1, <1>2 DEF CallsInv

LEMMA InsertCategoryStep ==
  ASSUME CatalogInv, NEW c \in Calls, InsertCategory(c)
  PROVE  CatalogInv'
<1>0. /\ c \in Founders /\ c \notin Creators /\ CallTypes /\ CategoryCall(c) /\ stage[c] = "insert"
      /\ c \in Categories
  BY Apart, TypesNow DEF CatalogInv, CallsInv, InsertCategory
<1>u. UNCHANGED <<payload, at, draft, tries, product, closing, editing, created>>
  BY DEF InsertCategory
<1>1. \E n \in {201, 500} : Answer(c, n)
  BY DEF InsertCategory
<1>2. /\ stage' \in [Calls -> Stages] /\ answer' \in [Calls -> Codes \cup {None}] /\ stage'[c] = "done"
      /\ \A d \in Calls \ {c} : stage'[d] = stage[d] /\ answer'[d] = answer[d]
  BY <1>0, <1>1 DEF Answer, CallTypes, Stages, Codes
<1>3. \/ category' = category
      \/ /\ category' = [category EXCEPT ![c] = draft[c].slug]
         /\ \A k \in Categories : category[k] # draft[c].slug
  BY <1>0 DEF InsertCategory, Taken
<1>4. draft[c].slug \in Slugs /\ draft[c].slug # None
  BY <1>0, NoneIsApart DEF CategoryCall
<1>5. category' \in [Categories -> Slugs \cup {None}]
  BY <1>3, <1>4 DEF CatalogInv, TypeOK
<1>6. SlugsAreUnique'
  BY <1>0, <1>u, <1>3, <1>4 DEF CatalogInv, TypeOK, SlugsAreUnique
<1>7. TypeOK'
  BY <1>2, <1>5, <1>6, <1>u DEF CatalogInv, TypeOK
<1>8. ProductsAreShelved'
  BY <1>0, <1>3, <1>4, <1>u DEF CatalogInv, TypeOK, ProductsAreShelved, ProductRows
<1>9. SlugsStay'
  BY <1>u DEF CatalogInv, SlugsStay
<1>10. ASSUME NEW d \in Creators PROVE ProductCall(d)' /\ HoldsAlone(d)'
  <2>1. d \in Calls /\ d # c /\ d \notin Founders
    BY <1>0, Apart
  <2>2. ProductCall(d)'
    BY <1>2, <1>u, <2>1 DEF CatalogInv, CallsInv, ProductCall
  <2>3. \A p \in Creators : stage'[p] = stage[p]
    BY <1>0, <1>2, Apart
  <2>4. HoldsAlone(d)'
    BY <1>u, <2>1, <2>3 DEF CatalogInv, CallsInv, HoldsAlone, Holding, Taken, Held
  <2>5. QED  BY <2>2, <2>4
<1>11. \A d \in Founders : CategoryCall(d)'
  BY <1>0, <1>2, <1>u, Apart DEF CatalogInv, CallsInv, CategoryCall
<1>12. QED  BY <1>7, <1>8, <1>9, <1>10, <1>11 DEF CatalogInv, CallsInv

LEMMA DeleteProductStep ==
  ASSUME CatalogInv, NEW p \in Creators, DeleteProduct(p)
  PROVE  CatalogInv'
<1>1. /\ product' = [product EXCEPT ![p] = None]
      /\ UNCHANGED <<callVars, category, closing, editing, created>>
  BY DEF DeleteProduct
<1>2. \A q \in Creators : product'[q] # None => product'[q] = product[q]
  BY <1>1 DEF CatalogInv, TypeOK
<1>3. TypeOK'
  BY <1>1, <1>2 DEF CatalogInv, TypeOK, SlugsAreUnique, callVars
<1>4. ProductsAreShelved'
  BY <1>1, <1>2 DEF CatalogInv, ProductsAreShelved
<1>5. SlugsStay'
  BY <1>1, <1>2 DEF CatalogInv, SlugsStay, callVars
<1>6. \A c \in Creators : Holding(c) => ~Taken(c, draft[c].slug)'
  BY <1>1, <1>2, Apart DEF CatalogInv, CallsInv, HoldsAlone, Taken, callVars
<1>7. QED  BY <1>1, <1>3, <1>4, <1>5, <1>6, TablesStep DEF CatalogInv

LEMMA CategoryDeletionStep ==
  ASSUME CatalogInv, NEW k \in Categories, CloseCategory(k) \/ EraseCategory(k)
  PROVE  CatalogInv'
<1>1. /\ closing' \subseteq Categories
      /\ \/ category' = category
         \/ category' = [category EXCEPT ![k] = None] /\ InCategory(k) = {}
      /\ UNCHANGED <<callVars, product, editing, created>>
  <2>1. CASE CloseCategory(k)
    BY <2>1 DEF CloseCategory, CatalogInv, TypeOK
  <2>2. CASE EraseCategory(k)
    BY <2>2 DEF EraseCategory, CatalogInv, TypeOK
  <2>3. QED  BY <2>1, <2>2
<1>2. \A z \in Categories : category'[z] # None => category'[z] = category[z]
  BY <1>1 DEF CatalogInv, TypeOK
<1>3. TypeOK'
  BY <1>1, <1>2 DEF CatalogInv, TypeOK, SlugsAreUnique, callVars
<1>4. ProductsAreShelved'
  BY <1>1 DEF CatalogInv, TypeOK, ProductsAreShelved, InCategory, ProductRows
<1>5. SlugsStay'
  BY <1>1 DEF CatalogInv, SlugsStay, callVars
<1>6. \A c \in Creators : Holding(c) => ~Taken(c, draft[c].slug)'
  BY <1>1, Apart DEF CatalogInv, CallsInv, HoldsAlone, Taken, callVars
<1>7. QED  BY <1>1, <1>3, <1>4, <1>5, <1>6, TablesStep DEF CatalogInv

LEMMA LoadProductStep ==
  ASSUME CatalogInv, NEW e \in Editors, LoadProduct(e)
  PROVE  CatalogInv'
<1>1. PICK p \in Creators, patch \in Patches :
        /\ product[p] # None
        /\ editing' = [editing EXCEPT ![e] = [product |-> p, row |-> product[p], patch |-> patch]]
  BY DEF LoadProduct
<1>2. UNCHANGED <<callVars, product, category, closing, created>>
  BY DEF LoadProduct
<1> DEFINE edit == [product |-> p, row |-> product[p], patch |-> patch]
<1>3. edit \in Edits /\ edit.product = p /\ edit.row = product[p]
  BY <1>1 DEF CatalogInv, TypeOK, Edits
<1> HIDE DEF edit
<1>4. TypeOK'
  BY <1>1, <1>2, <1>3 DEF CatalogInv, TypeOK, SlugsAreUnique, callVars, edit
<1>5. SlugsStay'
  <2>1. p \in created /\ product[p].slug = draft[p].slug
    BY <1>1 DEF CatalogInv, SlugsStay
  <2>2. editing'[e] = edit /\ \A z \in Editors \ {e} : editing'[z] = editing[z]
    BY <1>1 DEF CatalogInv, TypeOK, edit
  <2>3. QED  BY <1>2, <1>3, <2>1, <2>2 DEF CatalogInv, SlugsStay, callVars
<1>6. ProductsAreShelved' /\ \A c \in Creators : Holding(c) => ~Taken(c, draft[c].slug)'
  BY <1>2 DEF CatalogInv, CallsInv, ProductsAreShelved, HoldsAlone, Taken, callVars
<1>7. QED  BY <1>2, <1>4, <1>5, <1>6, TablesStep DEF CatalogInv

\* What save() writes is a row of the table once it is storable.
LEMMA MergedRow ==
  ASSUME CatalogInv, NEW e \in Editors, editing[e] # None, NEW p \in Creators,
         Storable(p, Merge(editing[e].row, editing[e].patch))
  PROVE  /\ Merge(editing[e].row, editing[e].patch) \in ProductRows
         /\ Merge(editing[e].row, editing[e].patch).slug = editing[e].row.slug
<1> DEFINE old == editing[e].row
           patch == editing[e].patch
           row == Merge(old, patch)
<1>1. old \in ProductRows /\ patch \in Patches
  BY DEF CatalogInv, TypeOK, Edits
<1>2. old.slug \in Slugs /\ old["category"] \in Categories /\ old["visible"] \in BOOLEAN
  BY <1>1 DEF ProductRows
<1>3. /\ "category" \in DOMAIN patch => patch["category"] \in Categories
      /\ "visible" \in DOMAIN patch => patch["visible"] \in BOOLEAN
  BY <1>1, CatalogAssumption DEF CatalogAssumption
<1>4. row.price \in 0..MaxInt
  BY DEF Storable
<1>5. /\ row = [slug |-> old.slug,
                category |-> IF "category" \in DOMAIN patch THEN patch["category"] ELSE old["category"],
                price |-> row.price,
                visible |-> IF "visible" \in DOMAIN patch THEN patch["visible"] ELSE old["visible"]]
  BY DEF Merge
<1> HIDE DEF old, patch, row
<1>6. row \in ProductRows /\ row.slug = old.slug
  BY <1>2, <1>3, <1>4, <1>5 DEF ProductRows
<1>7. QED  BY <1>6 DEF row, old, patch

LEMMA SaveProductStep ==
  ASSUME CatalogInv, NEW e \in Editors, SaveProduct(e)
  PROVE  CatalogInv'
<1> DEFINE p == editing[e].product
           row == Merge(editing[e].row, editing[e].patch)
<1>1. /\ editing[e] # None /\ editing' = [editing EXCEPT ![e] = None]
      /\ product[p] = None => ~Held(p, row.slug)
      /\ product' = IF Storable(p, row) THEN [product EXCEPT ![p] = row] ELSE product
      /\ UNCHANGED <<callVars, category, closing, created>>
  BY DEF SaveProduct
<1>2. p \in Creators /\ p \in created /\ editing[e].row.slug = draft[p].slug
  BY <1>1 DEF CatalogInv, SlugsStay, TypeOK
<1>3. CASE ~Storable(p, row)
  <2>1. product' = product
    BY <1>1, <1>3
  <2>2. TypeOK'
    BY <1>1, <2>1 DEF CatalogInv, TypeOK, SlugsAreUnique, callVars
  <2>3. SlugsStay'
    BY <1>1, <2>1 DEF CatalogInv, TypeOK, SlugsStay, callVars
  <2>4. ProductsAreShelved' /\ \A c \in Creators : Holding(c) => ~Taken(c, draft[c].slug)'
    BY <1>1, <2>1 DEF CatalogInv, CallsInv, ProductsAreShelved, HoldsAlone, Taken, callVars
  <2>5. QED  BY <1>1, <2>2, <2>3, <2>4, TablesStep DEF CatalogInv
<1>4. CASE Storable(p, row)
  <2>1. row \in ProductRows /\ row # None /\ row.slug = draft[p].slug
    BY <1>1, <1>2, <1>4, MergedRow, NoneIsApart
  <2>2. /\ category[row.category] # None
        /\ \A q \in Creators \ {p} : product[q] # None => product[q].slug # row.slug
    BY <1>4 DEF Storable
  <2>3. \A c \in Creators : Holding(c) => draft[c].slug # row.slug
    <3>1. SUFFICES ASSUME NEW c \in Creators, Holding(c) PROVE draft[c].slug # row.slug
      OBVIOUS
    <3>2. c # p
      BY <1>2, <3>1 DEF CatalogInv, CallsInv, ProductCall, Holding
    <3>3. CASE product[p] = None
      BY <1>1, <3>1, <3>2, <3>3 DEF Held, Holding
    <3>4. CASE product[p] # None
      <4>1. product[p].slug = row.slug
        BY <2>1, <3>4, <1>2 DEF CatalogInv, SlugsStay
      <4>2. ~Taken(c, draft[c].slug) /\ c \notin Founders
        BY <3>1, Apart DEF CatalogInv, CallsInv, HoldsAlone
      <4>3. QED  BY <1>2, <3>4, <4>1, <4>2 DEF Taken
    <3>5. QED  BY <3>3, <3>4
  <2> HIDE DEF row
  <2>4. /\ product' \in [Creators -> ProductRows \cup {None}] /\ product'[p] = row
        /\ \A q \in Creators \ {p} : product'[q] = product[q]
    BY <1>1, <1>2, <1>4, <2>1 DEF CatalogInv, TypeOK
  <2>5. /\ editing' \in [Editors -> Edits \cup {None}]
        /\ \A z \in Editors : editing'[z] # None => editing'[z] = editing[z]
    BY <1>1 DEF CatalogInv, TypeOK
  <2> HIDE DEF p
  <2>6. SlugsAreUnique'
    BY <1>1, <1>2, <2>2, <2>4 DEF CatalogInv, TypeOK, SlugsAreUnique
  <2>7. TypeOK'
    BY <1>1, <2>4, <2>5, <2>6 DEF CatalogInv, TypeOK, callVars
  <2>8. SlugsStay'
    BY <1>1, <1>2, <2>1, <2>4, <2>5 DEF CatalogInv, SlugsStay, callVars
  <2>9. ProductsAreShelved'
    BY <1>1, <1>2, <2>2, <2>4 DEF CatalogInv, ProductsAreShelved
  <2>10. \A c \in Creators : Holding(c) => ~Taken(c, draft[c].slug)'
    BY <1>1, <1>2, <2>3, <2>4, Apart DEF CatalogInv, CallsInv, HoldsAlone, Taken, callVars
  <2>11. QED  BY <1>1, <2>7, <2>8, <2>9, <2>10, TablesStep DEF CatalogInv
<1>5. QED  BY <1>3, <1>4

-----------------------------------------------------------------------------
(* The invariant *)

LEMMA InvInit == Init => CatalogInv
<1> SUFFICES ASSUME Init PROVE CatalogInv
  OBVIOUS
<1> USE DEF Init
<1>1. SlugsAreUnique
  <2>1. \A k, z \in Categories : category[k] # None /\ category[k] = category[z] => k = z
    BY CatalogAssumption DEF CatalogAssumption
  <2>2. QED  BY <2>1 DEF SlugsAreUnique
<1>2. category \in [Categories -> Slugs \cup {None}]
  BY CatalogAssumption DEF CatalogAssumption
<1>3. TypeOK
  BY <1>1, <1>2, Bounds DEF TypeOK, Stages, Drafts
<1>4. \A c \in Creators : ProductCall(c) /\ HoldsAlone(c)
  BY Apart, Bounds, NoneIsApart DEF ProductCall, HoldsAlone, Holding
<1>5. \A c \in Founders : CategoryCall(c)
  BY Apart DEF CategoryCall
<1>6. SlugsStay /\ ProductsAreShelved
  BY DEF SlugsStay, ProductsAreShelved
<1>7. QED  BY <1>3, <1>4, <1>5, <1>6 DEF CatalogInv, CallsInv

LEMMA InvStays == CatalogInv /\ UNCHANGED vars => CatalogInv'
<1> SUFFICES ASSUME CatalogInv, UNCHANGED vars PROVE CatalogInv'
  OBVIOUS
<1>1. UNCHANGED <<callVars, product, category, closing, editing, created>>
  BY DEF vars, callVars
<1>2. TypeOK' /\ SlugsStay' /\ ProductsAreShelved'
  BY <1>1 DEF CatalogInv, TypeOK, SlugsAreUnique, SlugsStay, ProductsAreShelved, callVars
<1>3. \A c \in Creators : Holding(c) => ~Taken(c, draft[c].slug)'
  BY <1>1 DEF CatalogInv, CallsInv, HoldsAlone, Taken, callVars
<1>4. QED  BY <1>1, <1>2, <1>3, TablesStep DEF CatalogInv

LEMMA InvNext == CatalogInv /\ [Next]_vars => CatalogInv'
<1> SUFFICES ASSUME CatalogInv, [Next]_vars PROVE CatalogInv'
  OBVIOUS
<1>1. ASSUME NEW c \in Creators, PostProduct(c) \/ DeleteProduct(c) PROVE CatalogInv'
  BY <1>1, PostProductStep, DeleteProductStep
<1>2. ASSUME NEW c \in Founders, PostCategory(c) PROVE CatalogInv'
  BY <1>2, PostCategoryStep
<1>3. ASSUME NEW c \in Calls, Create(c) \/ Crash(c) PROVE CatalogInv'
  BY <1>3, FindCategoryStep, ProbeStep, InsertProductStep, InsertAxesStep, CommitProductStep, ReplyCreatedStep,
     RecheckStep, InsertCategoryStep, CrashStep DEF Create
<1>4. ASSUME NEW k \in Categories, CloseCategory(k) \/ EraseCategory(k) PROVE CatalogInv'
  BY <1>4, CategoryDeletionStep
<1>5. ASSUME NEW e \in Editors, LoadProduct(e) \/ SaveProduct(e) PROVE CatalogInv'
  BY <1>5, LoadProductStep, SaveProductStep
<1>6. CASE UNCHANGED vars
  BY <1>6, InvStays
<1>7. QED  BY <1>1, <1>2, <1>3, <1>4, <1>5, <1>6 DEF Next, Quiet

LEMMA CatalogInvariant == Spec => []CatalogInv
  BY InvInit, InvNext, PTL DEF Spec

-----------------------------------------------------------------------------
(* Conflicts *)

LEMMA RivalsInit == Init => RivalsInv
<1> SUFFICES ASSUME Init PROVE RivalsInv
  OBVIOUS
<1>1. created = {} /\ IsFiniteSet(created)
  BY FS_EmptySet DEF Init
<1>2. ASSUME NEW c \in Creators PROVE Beaten(c)
  <2>1. created \ {c} = {} /\ Cardinality(created \ {c}) = 0
    BY <1>1, FS_EmptySet
  <2>2. tries[c] = 0 /\ stage[c] = "idle" /\ answer[c] = None
    BY Apart DEF Init
  <2>3. QED  BY <2>1, <2>2, NoneIsApart DEF Beaten
<1>3. QED  BY <1>1, <1>2 DEF RivalsInv, Init

Rests(c) == stage'[c] = stage[c] /\ draft'[c] = draft[c] /\ tries'[c] = tries[c] /\ answer'[c] = answer[c]

\* A create rests while anyone else takes a step.
LEMMA OthersRest ==
  ASSUME CatalogInv, Next, NEW c \in Calls
  PROVE  \/ Rests(c)
         \/ Create(c) \/ Crash(c)
         \/ c \in Creators /\ PostProduct(c)
         \/ c \in Founders /\ PostCategory(c)
<1>0. CallTypes
  BY TypesNow
<1> USE DEF Goto, Answer, Draw, CallTypes, Rests, callVars
<1>1. ASSUME NEW d \in Calls, d # c, Create(d) PROVE Rests(c)
  <2>1. CASE FindCategory(d) \/ Probe(d)
    BY <1>0, <1>1, <2>1 DEF FindCategory, Probe
  <2>2. CASE InsertProduct(d) \/ InsertAxes(d) \/ CommitProduct(d) \/ ReplyCreated(d)
    BY <1>0, <1>1, <2>2 DEF InsertProduct, InsertAxes, CommitProduct, ReplyCreated
  <2>3. CASE Recheck(d) \/ InsertCategory(d)
    BY <1>0, <1>1, <2>3 DEF Recheck, InsertCategory
  <2>4. QED  BY <1>1, <2>1, <2>2, <2>3 DEF Create
<1>2. ASSUME NEW d \in Calls, d # c, Crash(d) \/ PostProduct(d) \/ PostCategory(d) PROVE Rests(c)
  BY <1>0, <1>2 DEF Crash, PostProduct, PostCategory
<1>3. ASSUME \/ \E p \in Creators : DeleteProduct(p)
             \/ \E k \in Categories : CloseCategory(k) \/ EraseCategory(k)
             \/ \E e \in Editors : LoadProduct(e) \/ SaveProduct(e)
      PROVE  Rests(c)
  BY <1>3 DEF DeleteProduct, CloseCategory, EraseCategory, LoadProduct, SaveProduct
<1>4. CASE Quiet
  BY <1>4 DEF Quiet, vars
<1>5. QED  BY <1>1, <1>2, <1>3, <1>4, Apart DEF Next

\* What a step does to the products.
Commits(q) ==
  /\ CommitProduct(q) /\ q \notin created /\ created' = created \cup {q} /\ product'[q] # None
  /\ \A p \in Creators \ {q} : product'[p] = product[p]

LEMMA ProductSteps ==
  ASSUME CatalogInv, Next
  PROVE  \/ UNCHANGED <<product, created>>
         \/ \E q \in Creators : Commits(q)
         \/ \E p \in Creators : DeleteProduct(p)
         \/ \E e \in Editors : SaveProduct(e)
<1>1. ASSUME NEW c \in Calls, CommitProduct(c) PROVE UNCHANGED <<product, created>> \/ (c \in Creators /\ Commits(c))
  <2>0. c \in Creators /\ ProductCall(c) /\ stage[c] = "commit" /\ c \notin created
    BY <1>1, Apart DEF CatalogInv, CallsInv, CategoryCall, CommitProduct, ProductCall
  <2>1. CASE category[draft[c].category] = None
    BY <1>1, <2>1 DEF CommitProduct
  <2>2. CASE category[draft[c].category] # None
    <3>1. product' = [product EXCEPT ![c] = RowOf(c)] /\ created' = created \cup {c}
      BY <1>1, <2>2 DEF CommitProduct, RowOf
    <3>2. RowOf(c) \in ProductRows
      BY <2>0 DEF RowOf, ProductRows, ProductCall
    <3>3. product'[c] # None /\ \A p \in Creators \ {c} : product'[p] = product[p]
      BY <2>0, <3>1, <3>2, NoneIsApart DEF CatalogInv, TypeOK
    <3>4. QED  BY <1>1, <2>0, <3>1, <3>3 DEF Commits
  <2>3. QED  BY <2>1, <2>2
<1>2. ASSUME NEW c \in Calls, \/ FindCategory(c) \/ Probe(c) \/ InsertProduct(c) \/ InsertAxes(c)
                              \/ ReplyCreated(c) \/ Recheck(c) \/ InsertCategory(c) \/ Crash(c)
                              \/ PostProduct(c) \/ PostCategory(c)
      PROVE  UNCHANGED <<product, created>>
  BY <1>2 DEF FindCategory, Probe, InsertProduct, InsertAxes, ReplyCreated, Recheck, InsertCategory, Crash,
              PostProduct, PostCategory, tableVars
<1>3. ASSUME \/ \E k \in Categories : CloseCategory(k) \/ EraseCategory(k)
             \/ \E e \in Editors : LoadProduct(e)
      PROVE  UNCHANGED <<product, created>>
  BY <1>3 DEF CloseCategory, EraseCategory, LoadProduct
<1>4. CASE Quiet
  BY <1>4 DEF Quiet, vars
<1>5. QED  BY <1>1, <1>2, <1>3, <1>4, Apart DEF Next, Create

\* A save writes a row, and writes the slug that the product has.
LEMMA SaveKeepsSlug ==
  ASSUME CatalogInv, NEW e \in Editors, SaveProduct(e)
  PROVE  /\ editing[e] # None /\ editing[e].product \in created /\ created' = created
         /\ \A p \in Creators : /\ product[p] # None => product'[p] # None
                                /\ p # editing[e].product => product'[p] = product[p]
                                /\ product[p] # None => product'[p].slug = product[p].slug
<1> DEFINE p == editing[e].product
           row == Merge(editing[e].row, editing[e].patch)
<1>1. /\ editing[e] # None /\ created' = created
      /\ product' = IF Storable(p, row) THEN [product EXCEPT ![p] = row] ELSE product
  BY DEF SaveProduct
<1>2. p \in Creators /\ p \in created /\ editing[e].row.slug = draft[p].slug
  BY <1>1 DEF CatalogInv, SlugsStay, TypeOK
<1>3. CASE Storable(p, row)
  <2>1. row # None /\ row.slug = draft[p].slug
    BY <1>1, <1>2, <1>3, MergedRow, NoneIsApart
  <2> HIDE DEF row
  <2>2. product'[p] = row /\ \A q \in Creators \ {p} : product'[q] = product[q]
    BY <1>1, <1>2, <1>3 DEF CatalogInv, TypeOK
  <2>3. product[p] # None => product[p].slug = draft[p].slug
    BY <1>2 DEF CatalogInv, SlugsStay
  <2> HIDE DEF p
  <2>4. QED  BY <1>1, <1>2, <2>1, <2>2, <2>3 DEF p
<1>4. CASE ~Storable(p, row)
  BY <1>1, <1>2, <1>4
<1>5. QED  BY <1>3, <1>4

\* Unless a product is brought back, a slug is taken only by a product that is created.
LEMMA TakenByCommit ==
  ASSUME CatalogInv, RivalsInv, Steady, Next
  PROVE  \/ /\ created' = created
            /\ \A c \in Creators : \A x : Taken(c, x)' => Taken(c, x)
         \/ \E q \in Creators : Commits(q)
<1>1. CASE UNCHANGED <<product, created>>
  BY <1>1, Apart DEF Taken
<1>2. ASSUME NEW p \in Creators, DeleteProduct(p)
      PROVE  created' = created /\ \A c \in Creators : \A x : Taken(c, x)' => Taken(c, x)
  BY <1>2, Apart DEF DeleteProduct, Taken, CatalogInv, TypeOK
<1>3. ASSUME NEW e \in Editors, SaveProduct(e)
      PROVE  created' = created /\ \A c \in Creators : \A x : Taken(c, x)' => Taken(c, x)
  <2>1. editing[e] # None /\ editing[e].product \in created /\ created' = created
    BY <1>3, SaveKeepsSlug
  <2>2. product[editing[e].product] # None
    BY <2>1 DEF RivalsInv, Steady
  <2>3. \A p \in Creators : product'[p] # None => product[p] # None /\ product'[p].slug = product[p].slug
    BY <1>3, <2>1, <2>2, SaveKeepsSlug
  <2>4. QED  BY <2>1, <2>3, Apart DEF Taken
<1>4. QED  BY <1>1, <1>2, <1>3, ProductSteps

\* What a step of a create does to its tries.
LEMMA TriesStep ==
  ASSUME CatalogInv, NEW c \in Creators, Create(c) \/ Crash(c) \/ PostProduct(c)
  PROVE  \/ /\ tries'[c] = tries[c] /\ answer'[c] # 409
            /\ \/ stage'[c] \notin {"insert", "axes", "commit", "recheck"}
               \/ ~Taken(c, draft[c].slug)'
               \/ /\ stage[c] \in {"insert", "axes", "commit", "recheck"}
                  /\ draft'[c] = draft[c] /\ UNCHANGED <<product, created>>
         \/ /\ stage[c] = "recheck" /\ Taken(c, draft[c].slug) /\ UNCHANGED <<product, created>>
            /\ tries'[c] = tries[c] + 1 /\ stage'[c] \in {"probe", "done"}
            /\ answer'[c] = 409 => tries'[c] = Tries
<1>0. c \in Calls /\ c \notin Founders /\ CallTypes /\ ProductCall(c)
  BY Apart, TypesNow DEF CatalogInv, CallsInv
<1>a. stage[c] # "done" => answer[c] # 409
  BY <1>0, NoneIsApart DEF ProductCall
<1> USE DEF Goto, Answer, Draw, CallTypes, tableVars
<1>1. CASE FindCategory(c)
  BY <1>0, <1>a, <1>1 DEF FindCategory
<1>2. CASE Probe(c)
  <2>1. CASE Taken(c, Candidate(c))
    BY <1>0, <1>a, <1>2, <2>1 DEF Probe
  <2>2. CASE ~Taken(c, Candidate(c))
    <3>1. draft'[c].slug = Candidate(c) /\ tries'[c] = tries[c] /\ answer'[c] # 409 /\ UNCHANGED product
      BY <1>0, <1>a, <1>2, <2>2 DEF Probe
    <3>2. ~Taken(c, draft[c].slug)'
      BY <1>0, <2>2, <3>1 DEF Taken
    <3>3. QED  BY <3>1, <3>2
  <2>3. QED  BY <2>1, <2>2
<1>3. CASE InsertProduct(c)
  <2>1. UNCHANGED <<payload, at, draft, tries, tableVars>> /\ stage[c] = "insert"
    BY <1>3 DEF InsertProduct
  <2>2. \/ Answer(c, 500) \/ Goto(c, "recheck") \/ Goto(c, "axes")
    BY <1>3 DEF InsertProduct
  <2>3. QED  BY <1>0, <1>a, <2>1, <2>2
<1>4. CASE InsertAxes(c)
  BY <1>0, <1>a, <1>4 DEF InsertAxes
<1>5. CASE CommitProduct(c)
  BY <1>0, <1>a, <1>5 DEF CommitProduct
<1>6. CASE ReplyCreated(c) \/ Crash(c)
  BY <1>0, <1>6 DEF ReplyCreated, Crash
<1>7. CASE Recheck(c)
  <2>1. CASE Taken(c, draft[c].slug)
    BY <1>0, <1>a, <1>7, <2>1 DEF Recheck
  <2>2. CASE ~Taken(c, draft[c].slug)
    BY <1>0, <1>7, <2>2 DEF Recheck
  <2>3. QED  BY <2>1, <2>2
<1>8. CASE PostProduct(c)
  BY <1>0, <1>a, <1>8 DEF PostProduct
<1>9. QED  BY <1>0, <1>1, <1>2, <1>3, <1>4, <1>5, <1>6, <1>7, <1>8 DEF Create, InsertCategory

LEMMA BeatenStep ==
  ASSUME CatalogInv, RivalsInv, Steady, Next, NEW c \in Creators
  PROVE  Beaten(c)'
<1> DEFINE n == Cardinality(created \ {c})
           Late == {"insert", "axes", "commit", "recheck"}
<1>0. /\ c \in Calls /\ c \notin Founders /\ IsFiniteSet(created) /\ tries[c] \in Nat /\ Tries \in Nat /\ Beaten(c)
      /\ tries'[c] \in 0..Tries
  BY Apart, Bounds, InvNext DEF CatalogInv, TypeOK, RivalsInv
<1>1. n \in Nat
  <2>1. IsFiniteSet(created \ {c})
    BY <1>0, FS_Subset
  <2>2. QED  BY <2>1, FS_CardinalityType
<1>2. ASSUME NEW q \in Creators, Commits(q)
      PROVE  n' = IF q = c THEN n ELSE n + 1
  <2>1. CASE q = c
    <3>1. created' \ {c} = created \ {c}
      BY <1>2, <2>1 DEF Commits
    <3>2. QED  BY <2>1, <3>1
  <2>2. CASE q # c
    <3>1. created' \ {c} = (created \ {c}) \cup {q} /\ q \notin created \ {c} /\ IsFiniteSet(created \ {c})
      BY <1>0, <1>2, <2>2, FS_Subset DEF Commits
    <3>2. Cardinality((created \ {c}) \cup {q}) = Cardinality(created \ {c}) + 1
      BY <3>1, FS_AddElement
    <3>3. QED  BY <2>2, <3>1, <3>2
  <2>3. QED  BY <2>1, <2>2
<1> HIDE DEF n
<1>3. Beaten(c)' <=> /\ n' >= tries'[c]
                     /\ stage'[c] \in Late /\ Taken(c, draft[c].slug)' => n' >= tries'[c] + 1
                     /\ answer'[c] = 409 => tries'[c] >= Tries
  BY DEF Beaten, n
<1>4. /\ n >= tries[c]
      /\ stage[c] \in Late /\ Taken(c, draft[c].slug) => n >= tries[c] + 1
      /\ answer[c] = 409 => tries[c] >= Tries
  BY <1>0 DEF Beaten, n
<1>5. CASE Rests(c)
  <2>1. ASSUME NEW q \in Creators, Commits(q) PROVE n' = n + 1
    <3>1. q # c
      BY <1>0, <1>5, <2>1 DEF Commits, CommitProduct, CatalogInv, TypeOK, Goto, Rests, CallsInv, ProductCall
    <3>2. QED  BY <1>2, <2>1, <3>1
  <2>2. ASSUME created' = created, \A x : Taken(c, x)' => Taken(c, x) PROVE Beaten(c)'
    <3>1. n' = n
      BY <2>2 DEF n
    <3>2. Taken(c, draft[c].slug)' => Taken(c, draft[c].slug)
      BY <1>5, <2>2 DEF Rests
    <3>3. QED  BY <1>3, <1>4, <1>5, <3>1, <3>2 DEF Rests
  <2>3. ASSUME n' = n + 1 PROVE Beaten(c)'
    BY <1>0, <1>1, <1>3, <1>4, <1>5, <2>3 DEF Rests
  <2>4. QED  BY <2>1, <2>2, <2>3, TakenByCommit
<1>6. CASE Create(c) \/ Crash(c) \/ PostProduct(c)
  <2>1. n' = n
    <3>1. ASSUME NEW q \in Creators, Commits(q) PROVE q = c
      BY <1>0, <1>6, <3>1, Apart
         DEF Commits, CommitProduct, CatalogInv, TypeOK, Goto, Answer, Create, Crash, PostProduct, FindCategory,
             Probe, InsertProduct, InsertAxes, ReplyCreated, Recheck, InsertCategory, tableVars
    <3>2. created' = created => n' = n
      BY DEF n
    <3>3. QED  BY <1>2, <3>1, <3>2, TakenByCommit
  <2>2. UNCHANGED product => (draft'[c] = draft[c] => (Taken(c, draft[c].slug)' => Taken(c, draft[c].slug)))
    BY <1>0 DEF Taken
  <2>3. QED  BY <1>0, <1>1, <1>3, <1>4, <1>6, <2>1, <2>2, TriesStep
<1>7. QED  BY <1>0, <1>5, <1>6, OthersRest

LEMMA RivalsStep ==
  ASSUME CatalogInv, RivalsInv, Steady, [Next]_vars
  PROVE  RivalsInv'
<1>1. CASE UNCHANGED vars
  <2>1. \A c \in Creators : Taken(c, draft[c].slug)' <=> Taken(c, draft[c].slug)
    BY <1>1 DEF vars, Taken
  <2>2. QED  BY <1>1, <2>1 DEF vars, RivalsInv, Beaten
<1>2. CASE Next
  <2>1. IsFiniteSet(created')
    BY <1>2, TakenByCommit, FS_AddElement DEF RivalsInv, Commits
  <2>2. ASSUME ~Deletes, NEW p \in created' PROVE product'[p] # None
    <3>1. \A z \in created : z \in Creators /\ product[z] # None
      BY <2>2 DEF RivalsInv, CatalogInv, TypeOK
    <3>2. CASE UNCHANGED <<product, created>>
      BY <2>2, <3>1, <3>2
    <3>3. ASSUME NEW q \in Creators, Commits(q) PROVE product'[p] # None
      BY <2>2, <3>1, <3>3 DEF Commits
    <3>4. ASSUME NEW q \in Creators, DeleteProduct(q) PROVE FALSE
      BY <2>2, <3>4 DEF DeleteProduct
    <3>5. ASSUME NEW e \in Editors, SaveProduct(e) PROVE product'[p] # None
      BY <2>2, <3>1, <3>5, SaveKeepsSlug
    <3>6. QED  BY <1>2, <3>2, <3>3, <3>4, <3>5, ProductSteps
  <2>3. ASSUME Patches = {} PROVE \A e \in Editors : editing'[e] = None
    <3>1. \A e \in Editors : editing[e] = None
      BY <2>3 DEF RivalsInv
    <3>2. editing' = editing
      BY <1>2, <2>3, <3>1 DEF Next, Quiet, vars, Create, Crash, PostProduct, PostCategory, DeleteProduct,
         FindCategory, Probe, InsertProduct, InsertAxes, CommitProduct, ReplyCreated, Recheck, InsertCategory,
         CloseCategory, EraseCategory, LoadProduct, SaveProduct, tableVars
    <3>3. QED  BY <3>1, <3>2
  <2>4. \A c \in Creators : Beaten(c)'
    BY <1>2, BeatenStep
  <2>5. QED  BY <2>1, <2>2, <2>3, <2>4 DEF RivalsInv
<1>3. QED  BY <1>1, <1>2

-----------------------------------------------------------------------------
(* Theorems *)

\* Rows, drafts and answers keep their shape, whichever creates, updates and deletions race:
\* a slug names one product and one category, and a committed price fits its column.
THEOREM TypeCorrect == Spec => []TypeOK
  BY CatalogInvariant, PTL DEF CatalogInv

\* The transaction of create_product is all or nothing: a product is there only after its
\* whole transaction, and what was answered with an error never was.
THEOREM CreatesWhole == Spec => []CreatesAreWhole
<1>1. CatalogInv => CreatesAreWhole
  BY DEF CatalogInv, CallsInv, ProductCall, SlugsStay, CreatesAreWhole
<1>2. QED  BY <1>1, CatalogInvariant, PTL

\* PROTECT and the deferred foreign key together: no category goes from under a product,
\* neither one that is being created in it nor one that is being moved to it.
THEOREM ProductsShelved == Spec => []ProductsAreShelved
  BY CatalogInvariant, PTL DEF CatalogInv

\* create_product answers 409 only after as many other creates as it has tries, as long as
\* no update brings deleted products back.
THEOREM ConflictsMeanRivals == ASSUME Steady PROVE Spec => []ConflictMeansRivals
<1>1. ASSUME CatalogInv, RivalsInv PROVE ConflictMeansRivals
  <2>1. SUFFICES ASSUME NEW c \in Creators, answer[c] = 409 PROVE Cardinality(created \ {c}) >= Tries
    BY DEF ConflictMeansRivals
  <2>2. /\ Cardinality(created \ {c}) >= tries[c] /\ tries[c] >= Tries
        /\ tries[c] \in Nat /\ Tries \in Nat
    BY <1>1, <2>1, Apart, Bounds DEF RivalsInv, Beaten, CatalogInv, TypeOK
  <2>3. Cardinality(created \ {c}) \in Nat
    BY <1>1, FS_Subset, FS_CardinalityType DEF RivalsInv
  <2>4. QED  BY <2>2, <2>3
<1>2. CatalogInv /\ RivalsInv /\ [Next]_vars => RivalsInv'
  BY RivalsStep
<1>3. QED  BY <1>1, <1>2, RivalsInit, CatalogInvariant, PTL DEF Spec

=============================================================================
