----------------------------- MODULE Favorites -----------------------------
(***************************************************************************)
(* apps/favorites: customers keep products of a store, or order them,      *)
(* while its sellers hide, delete and restore them.                        *)
(*                                                                         *)
(* A call takes one action per statement.  An INSERT is one with its       *)
(* COMMIT: until then nobody sees it, and who collides with it waits.  The *)
(* foreign keys to the product are deferred, so they are checked at a      *)
(* COMMIT.  Of the rows that reference a product, only favorites are kept: *)
(* of the others, like the lines of orders, whether one came too late for  *)
(* a delete to see.                                                        *)
(* Tenancy lets a seller's call get as far as its first statement here.    *)
(***************************************************************************)
EXTENDS Naturals, FiniteSets

CONSTANTS
  Calls,        \* customers' calls
  SellerCalls,
  Users, Stores, Products,
  StoreOf,      \* the store of a product, which nothing changes
  Requests,     \* what all the calls may ask for: one function for each, None for a call not made
  None

Rows == [id: Calls, customer: Users, store: Stores, product: Products]
AllCalls == Calls \cup SellerCalls
Asked == [kind: {"add", "remove", "list", "order"}, customer: Users, store: Stores, product: Products]

ASSUME FavoritesAssumption ==
  /\ StoreOf \in [Products -> Stores]
  /\ \A f \in Requests : DOMAIN f = AllCalls /\ \A c \in Calls : f[c] \in Asked \cup {None}
  /\ Calls \cap SellerCalls = {} /\ IsFiniteSet(AllCalls)
  /\ None \notin Asked \cup {200, 201, 204, 403, 404, 500}

VARIABLES
  product,    \* the committed products
  favorite,   \* the committed favorites
  doomed,     \* the favorites that an open delete of their product has deleted
  late,       \* the open deletes whose product other rows reference that they did not see
  astray,     \* the calls that loaded the product in a category that is erased by now
  stage,      \* the next statement of a call
  request,    \* what it asks for, None if it is not made
  answer,     \* its status code
  told        \* what it lists

tables == <<product, favorite, doomed, late, astray>>
favoritesVars == <<tables, stage, request, answer, told>>

CustomerStages == {"find", "get", "insert", "again", "reload", "render", "line", "remove", "list"}
DeleteStages == {"clear", "null", "row", "commit"}
CatalogStages == {"load", "save", "render"} \cup DeleteStages
Opening == [add |-> "find", order |-> "find", remove |-> "remove", list |-> "list"]
Found == [add |-> "get", order |-> "line"]

-----------------------------------------------------------------------------
Exists(p) == product[p] # "gone"

OnSale(p, k) == product[p] = "shown" /\ StoreOf[p] = k

\* mutant: the customer is left out of the filter
Mine_Anyones(c) == {r \in favorite : r.store = request[c].store /\ r.product = request[c].product}

\* filter(customer=..., store=..., product=...)
Mine(c) == {r \in favorite : /\ r.customer = request[c].customer
                             /\ r.store = request[c].store
                             /\ r.product = request[c].product}

RowsOf(p) == {r \in favorite : r.product = p}

\* mutant: a deleted row is not locked
Locked_None == {}

\* the rows that nobody else can delete or insert again before the transaction ends
Locked == UNION {doomed[s] : s \in SellerCalls}

\* the deletes of p at one of these stages
DeletesAt(p, stages) == {s \in SellerCalls : stage[s] \in stages /\ request[s].product = p}

\* an open transaction has deleted p
RowLocked(p) == DeletesAt(p, {"commit"}) # {}

Goto(c, s) == stage' = [stage EXCEPT ![c] = s] /\ UNCHANGED <<request, answer, told>>
Answer(c, n) ==
  /\ stage' = [stage EXCEPT ![c] = "done"] /\ answer' = [answer EXCEPT ![c] = n]
  /\ UNCHANGED <<request, told>>
Tell(c, x) ==
  /\ stage' = [stage EXCEPT ![c] = "done"] /\ answer' = [answer EXCEPT ![c] = 200]
  /\ told' = [told EXCEPT ![c] = x] /\ UNCHANGED request

FavoritesInit ==
  /\ product = [p \in Products |-> "shown"]
  /\ favorite = {}
  /\ doomed = [s \in SellerCalls |-> {}]
  /\ late = {} /\ astray = {}
  /\ stage = [c \in AllCalls |-> "idle"]
  /\ request \in Requests
  /\ answer = [c \in AllCalls |-> None]
  /\ told = [c \in AllCalls |-> {}]

-----------------------------------------------------------------------------
(* POST, DELETE and GET /stores/{slug}/favorites *)

Wish(c) ==
  /\ stage[c] = "idle" /\ request[c] # None
  /\ Goto(c, Opening[request[c].kind])
  /\ UNCHANGED tables

FindProduct(c) ==
  /\ stage[c] = "find"
  /\ IF OnSale(request[c].product, request[c].store) THEN Goto(c, Found[request[c].kind]) ELSE Answer(c, 404)
  /\ UNCHANGED tables

GetFavorite(c) ==
  /\ stage[c] = "get"
  /\ Goto(c, IF Mine(c) = {} THEN "insert" ELSE "reload")
  /\ UNCHANGED tables

\* get_or_create: a duplicate, or a product that is gone by the COMMIT, is an IntegrityError
InsertFavorite(c) ==
  /\ stage[c] = "insert"
  /\ \/ Mine(c) \ Locked # {} /\ Goto(c, "again") /\ UNCHANGED favorite
     \/ /\ Mine(c) = {} /\ ~RowLocked(request[c].product)
        /\ IF Exists(request[c].product)
           THEN /\ favorite' = favorite \cup {[id |-> c, customer |-> request[c].customer,
                                               store |-> request[c].store, product |-> request[c].product]}
                /\ Goto(c, "render")
           ELSE Goto(c, "again") /\ UNCHANGED favorite
  /\ UNCHANGED <<product, doomed, late, astray>>

\* mutant: what failed was another call of the same customer
GetAgain_AssumeRival(c) == stage[c] = "again" /\ Answer(c, 201) /\ UNCHANGED tables

\* ... after which get_or_create looks again
GetAgain(c) ==
  /\ stage[c] = "again"
  /\ IF Mine(c) = {} THEN Answer(c, 500) ELSE Goto(c, "reload")
  /\ UNCHANGED tables

\* favorite.product of a row that was found is another query
ReloadProduct(c) ==
  /\ stage[c] = "reload"
  /\ IF Exists(request[c].product)
     THEN Goto(c, "render") /\ astray' = astray \ {c}
     ELSE Answer(c, 500) /\ UNCHANGED astray
  /\ UNCHANGED <<product, favorite, doomed, late>>

\* The answer to an add or an update shows the category, which is another query: it raises
\* when that category is no more.
RenderProduct(c) ==
  /\ stage[c] = "render"
  /\ Answer(c, IF c \in astray THEN 500 ELSE IF c \in Calls THEN 201 ELSE 200)
  /\ UNCHANGED tables

\* The COMMIT of a line of place_order (Orders has the rest of it).  A delete that is to
\* remove the row of the product next has set the lines to NULL that there were.
PlaceLine(c) ==
  /\ stage[c] = "line" /\ ~RowLocked(request[c].product)
  /\ IF Exists(request[c].product)
     THEN late' = late \cup DeletesAt(request[c].product, {"row"}) /\ Answer(c, 201)
     ELSE Answer(c, 500) /\ UNCHANGED late
  /\ UNCHANGED <<product, favorite, doomed, astray>>

RemoveFavorite(c) ==
  /\ stage[c] = "remove"
  /\ Mine(c) \cap Locked = {}
  /\ favorite' = favorite \ Mine(c)
  /\ Answer(c, 204)
  /\ UNCHANGED <<product, doomed, late, astray>>

FavoriteProducts(c) ==
  {r.product : r \in {z \in favorite : /\ z.customer = request[c].customer
                                       /\ z.store = request[c].store
                                       /\ product[z.product] = "shown"}}

MyFavorites(c) == stage[c] = "list" /\ Tell(c, FavoriteProducts(c)) /\ UNCHANGED tables

-----------------------------------------------------------------------------
(* update_product and delete_product, for the store that the seller's call was let into *)

\* mutant: the product is looked up in all stores
Loadable_AnyStore(p, k) == Exists(p)

Loadable(p, k) == Exists(p) /\ StoreOf[p] = k

LoadProduct(s, k) ==
  /\ stage[s] = "load"
  /\ IF Loadable(request[s].product, k)
     THEN Goto(s, IF request[s].kind = "delete" THEN "clear" ELSE "save")
     ELSE Answer(s, 404)
  /\ UNCHANGED tables

\* save() writes all columns: the UPDATE waits for an open delete, a row that is gone is
\* inserted again, and a category that is gone fails the COMMIT
SaveProduct(s) ==
  /\ stage[s] = "save" /\ ~RowLocked(request[s].product)
  /\ IF s \in astray
     THEN Answer(s, 500) /\ UNCHANGED product
     ELSE /\ product' = [product EXCEPT ![request[s].product] = IF request[s].visible THEN "shown" ELSE "hidden"]
          /\ Goto(s, "render")
  /\ UNCHANGED <<favorite, doomed, late, astray>>

\* the transaction of s is over
End(s) == doomed' = [doomed EXCEPT ![s] = {}] /\ late' = late \ {s} /\ UNCHANGED astray

\* The collector of delete() deletes the favorites that there are, ...
ClearFavorites(s) ==
  /\ stage[s] = "clear"
  /\ RowsOf(request[s].product) \cap Locked = {}
  /\ doomed' = [doomed EXCEPT ![s] = RowsOf(request[s].product)]
  /\ Goto(s, "null")
  /\ UNCHANGED <<product, favorite, late, astray>>

\* ... sets the lines that there are to NULL ...
DetachLines(s) == stage[s] = "null" /\ Goto(s, "row") /\ UNCHANGED tables

\* ... and deletes the row, which waits for another delete of it.
RemoveRow(s) ==
  /\ stage[s] = "row" /\ ~RowLocked(request[s].product)
  /\ IF Exists(request[s].product)
     THEN Goto(s, "commit") /\ UNCHANGED tables
     ELSE favorite' = favorite \ doomed[s] /\ End(s) /\ Answer(s, 204) /\ UNCHANGED product

\* Two deletes wait for each other, this one for the row or the lines that the other one has
\* written, that one at its COMMIT for favorites that this one has deleted: one is aborted.
Deadlock(s) ==
  /\ stage[s] \in {"null", "row"} /\ RowLocked(request[s].product) /\ doomed[s] # {}
  /\ End(s) /\ Answer(s, 500) /\ UNCHANGED <<product, favorite>>

\* mutant: the foreign keys are not checked
ForeignKeyHolds_Unchecked(s) == TRUE

\* the deferred foreign keys at the COMMIT of a delete: no favorite, and no other row that
\* references the product, came after those that there were went
ForeignKeyHolds(s) == RowsOf(request[s].product) \subseteq doomed[s] /\ s \notin late

CommitDelete(s) ==
  /\ stage[s] = "commit"
  /\ IF ForeignKeyHolds(s)
     THEN /\ favorite' = favorite \ doomed[s]
          /\ product' = [product EXCEPT ![request[s].product] = "gone"]
          /\ Answer(s, 204)
     ELSE Answer(s, 500) /\ UNCHANGED <<product, favorite>>
  /\ End(s)

\* A worker dies and its open transaction is rolled back.  Without one, a call that dies is a
\* call that takes no further step.
Crash(s) ==
  /\ stage[s] \in {"null", "row", "commit"}
  /\ stage' = [stage EXCEPT ![s] = "done"]
  /\ End(s)
  /\ UNCHANGED <<product, favorite, request, answer, told>>

Add(c) ==
  \/ FindProduct(c) \/ GetFavorite(c) \/ InsertFavorite(c) \/ GetAgain(c) \/ ReloadProduct(c)
  \/ RenderProduct(c)

CustomerStep(c) == Wish(c) \/ Add(c) \/ PlaceLine(c) \/ RemoveFavorite(c) \/ MyFavorites(c)

DeleteStep(s) ==
  ClearFavorites(s) \/ DetachLines(s) \/ RemoveRow(s) \/ Deadlock(s) \/ CommitDelete(s) \/ Crash(s)

-----------------------------------------------------------------------------
(* Properties *)

\* The tables keep their shape; in particular only committed favorites are doomed, those of
\* one product by one delete.
FavoritesTypeOK ==
  /\ product \in [Products -> {"shown", "hidden", "gone"}]
  /\ favorite \subseteq Rows
  /\ doomed \in [SellerCalls -> SUBSET favorite]
  /\ \A s, z \in SellerCalls : s # z => doomed[s] \cap doomed[z] = {}
  /\ \A s \in SellerCalls : doomed[s] # {} => stage[s] \in {"null", "row", "commit"}
  /\ late \subseteq SellerCalls /\ astray \subseteq AllCalls
  /\ \A c \in Calls : stage[c] \in CustomerStages \cup {"idle", "done"}
  /\ request \in Requests
  /\ \A c \in AllCalls : answer[c] # None => stage[c] = "done"

\* services.py:14, "favoriting twice is one row", however the calls of the customer overlap.
OneFavoriteEach ==
  \A r, z \in favorite :
    r.customer = z.customer /\ r.store = z.store /\ r.product = z.product => r = z

\* A favorite keeps a product that exists, of the store that it is listed at: none outlives
\* its product, although neither the add nor the delete sees what the other one is doing.
FavoritesReferenceProducts == \A r \in favorite : Exists(r.product) /\ StoreOf[r.product] = r.store

\* What the customers kept is told apart and is there to be kept.
FavoritesAreSound == OneFavoriteEach /\ FavoritesReferenceProducts

\* A favorite goes only with its product, or by a remove of the customer that it is of.
FavoritesGoOnlyOnRequest ==
  [][\A r \in favorite \ favorite' :
       \/ product'[r.product] = "gone"
       \/ \E c \in Calls : /\ stage[c] = "remove" /\ stage'[c] = "done"
                           /\ request[c].customer = r.customer /\ request[c].product = r.product]_favoritesVars
=============================================================================
