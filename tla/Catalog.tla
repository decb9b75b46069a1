------------------------------ MODULE Catalog ------------------------------
(***************************************************************************)
(* The seller's writes to the catalog of one store, apps/products, racing  *)
(* with each other and with the deletion of a category in the Django admin. *)
(*                                                                         *)
(* One action is one SQL statement, or one COMMIT, with the Python around  *)
(* it.  A product inserted by create_product holds its slug but is private *)
(* until CommitProduct, and an INSERT of a slug that an open transaction   *)
(* holds waits for it.  update_product and create_category autocommit.     *)
(***************************************************************************)
EXTENDS Integers, FiniteSets

CONSTANTS
  Creators,    \* POST .../catalog/products calls; a product carries the id of its call
  Founders,    \* POST .../catalog/categories calls; a category carries the id of its call
  Editors,     \* PATCH .../catalog/products/{id} calls
  Shelves,     \* the categories there from the start
  ShelfSlug,   \* their slugs
  Names, Slugs,
  Candidates,  \* per name: slugify(name), then suffixed -2, -3, ... up to MaxSuffix
  MaxSuffix,
  Posts,       \* what a seller may post as a product
  Patches,     \* what a seller may send as an update
  Deletes,     \* whether sellers delete products
  Closes,      \* whether operators delete categories in the Django admin
  Tries,       \* how often create_product tries: 5 in the code
  MaxInt,      \* the largest value of a PositiveIntegerField column
  None

Calls == Creators \cup Founders
Categories == Shelves \cup Founders

\* axes are the payload's variant groups; two of one name break a unique constraint
ProductPosts == [name: Names, shelf: Slugs, price: Int, axes: {"distinct", "duplicate"}]
CategoryPosts == [name: Names]
ProductRows == [slug: Slugs, category: Categories, price: 0..MaxInt, visible: BOOLEAN]
Stages == {"idle", "lookup", "probe", "insert", "axes", "commit", "created", "recheck", "done"}
Codes == {0, 201, 404, 409, 500}
Drafts == [slug: Slugs \cup {None}, category: Categories \cup {None}]
Edits == [product: Creators, row: ProductRows, patch: Patches]

ASSUME CatalogAssumption ==
  /\ MaxInt \in Nat
  /\ Tries \in Nat \ {0}
  /\ Deletes \in BOOLEAN /\ Closes \in BOOLEAN
  /\ Creators \cap Founders = {} /\ Shelves \cap Founders = {}
  /\ ShelfSlug \in [Shelves -> Slugs]
  /\ \A s, z \in Shelves : ShelfSlug[s] = ShelfSlug[z] => s = z
  /\ MaxSuffix \in Nat \ {0}
  /\ Candidates \in [Names -> [1..MaxSuffix -> Slugs]]
  /\ Posts \subseteq ProductPosts
  /\ \A p \in Patches : /\ DOMAIN p \subseteq {"price", "visible", "category"}
                        /\ "category" \in DOMAIN p => p["category"] \in Categories
                        /\ "visible" \in DOMAIN p => p["visible"] \in BOOLEAN
  /\ None \notin Slugs \cup Categories \cup Posts \cup CategoryPosts
             \cup ProductRows \cup Edits \cup Codes

VARIABLES
  stage, payload, at, draft, tries, answer,  \* of each create call
  product, category,                         \* the committed tables
  closing,                                   \* categories found empty by a deletion
  editing,                                   \* of each editor
  created                                    \* history: every product ever committed

vars == <<stage, payload, at, draft, tries, answer, product, category, closing, editing, created>>
callVars == <<stage, payload, at, draft, tries, answer>>
tableVars == <<product, category, closing, editing, created>>

-----------------------------------------------------------------------------
(* Queries *)

\* the taken(s) of _unique_slug: only committed rows are visible
Taken(c, s) ==
  IF c \in Founders
  THEN \E k \in Categories : category[k] = s
  ELSE \E p \in Creators : product[p] # None /\ product[p].slug = s

Candidate(c) == Candidates[payload[c].name][at[c]]

\* another transaction has inserted a product with slug s and not ended
Held(c, s) == \E p \in Creators \ {c} : stage[p] \in {"axes", "commit"} /\ draft[p].slug = s

InCategory(k) == {p \in Creators : product[p] # None /\ product[p].category = k}

\* the category a payload names by its slug
Shelved(s) == {k \in Categories : category[k] = s}

Merge(row, patch) ==
  LET now(f) == IF f \in DOMAIN patch THEN patch[f] ELSE row[f] IN
  [slug |-> row.slug, category |-> now("category"), price |-> now("price"), visible |-> now("visible")]

-----------------------------------------------------------------------------
Init ==
  /\ stage = [c \in Calls |-> "idle"]
  /\ payload = [c \in Calls |-> None]
  /\ at = [c \in Calls |-> 1]
  /\ draft = [c \in Calls |-> [slug |-> None, category |-> None]]
  /\ tries = [c \in Calls |-> 0]
  /\ answer = [c \in Calls |-> None]
  /\ product = [p \in Creators |-> None]
  /\ category = [k \in Categories |-> IF k \in Shelves THEN ShelfSlug[k] ELSE None]
  /\ closing = {}
  /\ editing = [e \in Editors |-> None]
  /\ created = {}

Goto(c, s) == stage' = [stage EXCEPT ![c] = s] /\ UNCHANGED answer

Draw(c, s, k) == draft' = [draft EXCEPT ![c] = [slug |-> s, category |-> k]]

Answer(c, code) ==
  /\ stage' = [stage EXCEPT ![c] = "done"]
  /\ answer' = [answer EXCEPT ![c] = code]

-----------------------------------------------------------------------------
(* _unique_slug, used by both creates: one EXISTS query per candidate *)

\* mutant: the suffix does not advance
Probe_NoAdvance(c) ==
  /\ stage[c] = "probe"
  /\ IF Taken(c, Candidate(c))
     THEN UNCHANGED <<stage, at, draft, answer>>
     ELSE Draw(c, Candidate(c), draft[c].category) /\ Goto(c, "insert") /\ UNCHANGED at
  /\ UNCHANGED <<payload, tries, tableVars>>

Probe(c) ==
  /\ stage[c] = "probe"
  /\ IF Taken(c, Candidate(c))
     THEN at[c] < MaxSuffix /\ at' = [at EXCEPT ![c] = @ + 1] /\ UNCHANGED <<stage, draft, answer>>
     ELSE Draw(c, Candidate(c), draft[c].category) /\ Goto(c, "insert") /\ UNCHANGED at
  /\ UNCHANGED <<payload, tries, tableVars>>

-----------------------------------------------------------------------------
(* POST .../catalog/products: create_product *)

PostProduct(c) ==
  /\ stage[c] = "idle"
  /\ \E p \in Posts : payload' = [payload EXCEPT ![c] = p]
  /\ Goto(c, "lookup")
  /\ UNCHANGED <<at, draft, tries, tableVars>>

\* get_object_or_404(Category, store=store, slug=payload.category_slug)
FindCategory(c) ==
  /\ stage[c] = "lookup"
  /\ \/ \E k \in Shelved(payload[c].shelf) :
          Draw(c, draft[c].slug, k) /\ Goto(c, "probe")
     \/ Shelved(payload[c].shelf) = {} /\ Answer(c, 404) /\ UNCHANGED draft
  /\ UNCHANGED <<payload, at, tries, tableVars>>

\* mutant: uniq_product_store_slug is missing
InsertProduct_NoConstraint(c) ==
  /\ stage[c] = "insert" /\ c \in Creators
  /\ IF payload[c].price < 0 THEN Goto(c, "recheck")
     ELSE IF payload[c].price > MaxInt THEN Answer(c, 500)
     ELSE Goto(c, "axes")
  /\ UNCHANGED <<payload, at, draft, tries, tableVars>>

\* mutant: the product is inserted outside the atomic block
InsertProduct_Autocommit(c) ==
  /\ stage[c] = "insert" /\ c \in Creators
  /\ IF Taken(c, draft[c].slug) \/ payload[c].price < 0
     THEN Goto(c, "recheck") /\ UNCHANGED product
     ELSE /\ product' = [product EXCEPT ![c] = [slug |-> draft[c].slug, category |-> draft[c].category,
                                                price |-> payload[c].price, visible |-> TRUE]]
          /\ Goto(c, "axes")
  /\ UNCHANGED <<payload, at, draft, tries, category, closing, editing, created>>

\* Product.objects.create: the CHECK of the price column, then the unique slug
InsertProduct(c) ==
  /\ stage[c] = "insert" /\ c \in Creators
  /\ \/ payload[c].price < 0 /\ Goto(c, "recheck")
     \/ payload[c].price > MaxInt /\ Answer(c, 500)
     \/ /\ payload[c].price \in 0..MaxInt
        /\ ~Held(c, draft[c].slug)
        /\ Goto(c, IF Taken(c, draft[c].slug) THEN "recheck" ELSE "axes")
  /\ UNCHANGED <<payload, at, draft, tries, tableVars>>

\* the images, variant groups and options of _build_product
InsertAxes(c) ==
  /\ stage[c] = "axes"
  /\ Goto(c, IF payload[c].axes = "duplicate" THEN "recheck" ELSE "commit")
  /\ UNCHANGED <<payload, at, draft, tries, tableVars>>

\* mutant: Product.category with db_constraint=False
CommitProduct_Unchecked(c) ==
  /\ stage[c] = "commit"
  /\ product' = [product EXCEPT ![c] = [slug |-> draft[c].slug, category |-> draft[c].category,
                                        price |-> payload[c].price, visible |-> TRUE]]
  /\ created' = created \cup {c}
  /\ Goto(c, "created")
  /\ UNCHANGED <<payload, at, draft, tries, category, closing, editing>>

\* the end of transaction.atomic(): the deferred foreign key to the category decides
CommitProduct(c) ==
  /\ stage[c] = "commit"
  /\ IF category[draft[c].category] # None
     THEN /\ product' = [product EXCEPT ![c] = [slug |-> draft[c].slug, category |-> draft[c].category,
                                                price |-> payload[c].price, visible |-> TRUE]]
          /\ created' = created \cup {c}
          /\ Goto(c, "created")
     ELSE Goto(c, "recheck") /\ UNCHANGED <<product, created>>
  /\ UNCHANGED <<payload, at, draft, tries, category, closing, editing>>

ReplyCreated(c) ==
  /\ stage[c] = "created"
  /\ Answer(c, 201)
  /\ UNCHANGED <<payload, at, draft, tries, tableVars>>

\* mutant: the retry does not recompute the slug
Recheck_SameSlug(c) ==
  /\ stage[c] = "recheck"
  /\ IF ~Taken(c, draft[c].slug) THEN Answer(c, 500) /\ UNCHANGED <<at, tries>>
     ELSE /\ tries' = [tries EXCEPT ![c] = @ + 1]
          /\ IF tries[c] + 1 = Tries THEN Answer(c, 409) ELSE Goto(c, "insert")
          /\ UNCHANGED at
  /\ UNCHANGED <<payload, draft, tableVars>>

\* except IntegrityError: is the slug taken?  Then try again, at most Tries times;
\* any other constraint is raised again
Recheck(c) ==
  /\ stage[c] = "recheck"
  /\ IF ~Taken(c, draft[c].slug) THEN Answer(c, 500) /\ UNCHANGED <<at, tries>>
     ELSE /\ tries' = [tries EXCEPT ![c] = @ + 1]
          /\ IF tries[c] + 1 = Tries THEN Answer(c, 409) ELSE Goto(c, "probe")
          /\ at' = [at EXCEPT ![c] = 1]
  /\ UNCHANGED <<payload, draft, tableVars>>

-----------------------------------------------------------------------------
(* POST .../catalog/categories: create_category, one autocommitted INSERT *)

PostCategory(c) ==
  /\ stage[c] = "idle"
  /\ \E x \in Names : payload' = [payload EXCEPT ![c] = [name |-> x]]
  /\ Goto(c, "probe")
  /\ UNCHANGED <<at, draft, tries, tableVars>>

\* nothing catches the IntegrityError of a slug taken since the probe
InsertCategory(c) ==
  /\ stage[c] = "insert" /\ c \in Founders
  /\ IF Taken(c, draft[c].slug)
     THEN Answer(c, 500) /\ UNCHANGED category
     ELSE category' = [category EXCEPT ![c] = draft[c].slug] /\ Answer(c, 201)
  /\ UNCHANGED <<payload, at, draft, tries, product, closing, editing, created>>

\* the worker or its connection dies: the open transaction rolls back
Crash(c) ==
  /\ stage[c] \notin {"idle", "done"}
  /\ Answer(c, 0)
  /\ UNCHANGED <<payload, at, draft, tries, tableVars>>

-----------------------------------------------------------------------------
(* Deletions and updates *)

\* delete_product: one transaction, atomic for everyone else
DeleteProduct(p) ==
  /\ Deletes
  /\ product[p] # None
  /\ product' = [product EXCEPT ![p] = None]
  /\ UNCHANGED <<callVars, category, closing, editing, created>>

\* the Django admin collects a category: PROTECT refuses while it has products
CloseCategory(k) ==
  /\ Closes
  /\ category[k] # None /\ k \notin closing
  /\ InCategory(k) = {}
  /\ closing' = closing \cup {k}
  /\ UNCHANGED <<callVars, product, category, editing, created>>

\* ... and its DELETE commits, unless a product was committed into it meanwhile
EraseCategory(k) ==
  /\ k \in closing
  /\ category' = [category EXCEPT ![k] = IF InCategory(k) = {} THEN None ELSE @]
  /\ closing' = closing \ {k}
  /\ UNCHANGED <<callVars, product, editing, created>>

\* update_product loads the whole row and, when asked to, the new category
LoadProduct(e) ==
  /\ editing[e] = None
  /\ \E p \in Creators, patch \in Patches :
       /\ product[p] # None
       /\ "category" \in DOMAIN patch => category[patch.category] # None
       /\ editing' = [editing EXCEPT ![e] = [product |-> p, row |-> product[p], patch |-> patch]]
  /\ UNCHANGED <<callVars, product, category, closing, created>>

\* the row that product.save() writes satisfies the constraints of the table
Storable(p, row) ==
  /\ row.price \in 0..MaxInt
  /\ category[row.category] # None
  /\ \A q \in Creators \ {p} : product[q] # None => product[q].slug # row.slug

\* product.save(): every column of the row loaded before, an INSERT if the row is gone
SaveProduct(e) ==
  /\ editing[e] # None
  /\ LET p == editing[e].product
         row == Merge(editing[e].row, editing[e].patch) IN
       /\ product[p] = None => ~Held(p, row.slug)
       /\ product' = IF Storable(p, row) THEN [product EXCEPT ![p] = row] ELSE product
  /\ editing' = [editing EXCEPT ![e] = None]
  /\ UNCHANGED <<callVars, category, closing, created>>

-----------------------------------------------------------------------------
Create(c) ==
  \/ FindCategory(c) \/ Probe(c) \/ InsertProduct(c) \/ InsertAxes(c) \/ CommitProduct(c)
  \/ ReplyCreated(c) \/ Recheck(c) \/ InsertCategory(c)

Quiet == (\A c \in Calls : stage[c] = "done") /\ UNCHANGED vars

Next ==
  \/ \E c \in Creators : PostProduct(c) \/ DeleteProduct(c)
  \/ \E c \in Founders : PostCategory(c)
  \/ \E c \in Calls : Create(c) \/ Crash(c)
  \/ \E k \in Categories : CloseCategory(k) \/ EraseCategory(k)
  \/ \E e \in Editors : LoadProduct(e) \/ SaveProduct(e)
  \/ Quiet

Spec == Init /\ [][Next]_vars

\* a statement that a request has started returns; nobody has to post, edit or delete
FairSpec == Spec /\ \A c \in Calls : WF_vars(Create(c))

-----------------------------------------------------------------------------
(* Properties *)

\* A slug names one product and one category of the store, whichever creates, retries,
\* deletes and updates race for it.
SlugsAreUnique ==
  /\ \A p, q \in Creators :
       product[p] # None /\ product[q] # None /\ product[p].slug = product[q].slug => p = q
  /\ \A k, z \in Categories : category[k] # None /\ category[k] = category[z] => k = z

\* Every row, draft and answer keeps its shape: in particular a committed price fits its
\* column, whatever was posted or patched, and slugs stay unique.
TypeOK ==
  /\ stage \in [Calls -> Stages]
  /\ payload \in [Calls -> Posts \cup CategoryPosts \cup {None}]
  /\ at \in [Calls -> 1..MaxSuffix]
  /\ draft \in [Calls -> Drafts]
  /\ tries \in [Calls -> 0..Tries]
  /\ answer \in [Calls -> Codes \cup {None}]
  /\ product \in [Creators -> ProductRows \cup {None}]
  /\ category \in [Categories -> Slugs \cup {None}]
  /\ closing \subseteq Categories
  /\ editing \in [Editors -> Edits \cup {None}]
  /\ created \subseteq Creators
  /\ SlugsAreUnique

\* Every product is in a category that exists: a category is never deleted under a
\* product that is being created in it or moved to it.
ProductsAreShelved == \A p \in Creators : product[p] # None => category[product[p].category] # None

\* A create is all or nothing: a product is in the table only after its whole
\* transaction, a create answered with an error has never been visible, and one
\* answered 201 has been.
CreatesAreWhole ==
  \A c \in Creators :
    /\ product[c] # None => c \in created
    /\ answer[c] = 201 => c \in created
    /\ answer[c] \in {404, 409, 500} => c \notin created

\* A create gives up with 409 only after Tries other creates beat it to a slug: a retry
\* never loses to the product that it has already lost to.  It takes a catalog in which no
\* update brings a deleted product back: one that comes and goes can beat a create twice.
ConflictMeansRivals ==
  \A c \in Creators : answer[c] = 409 => Cardinality(created \ {c}) >= Tries

\* Every create ends: neither the search for a free slug, nor the retries, nor the waits
\* for slugs held by open transactions go on for ever.
EveryCreateEnds == \A c \in Calls : stage[c] \in {"lookup", "probe"} ~> stage[c] = "done"

\* The DELETE endpoint removes a product for good.
DeletedStaysDeleted ==
  [][\A p \in created : product[p] = None => product'[p] = None]_vars
=============================================================================
