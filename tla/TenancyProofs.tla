--------------------------- MODULE TenancyProofs ---------------------------
(***************************************************************************)
(* Theorems about Tenancy and the Favorites that it extends, for every set *)
(* of calls, users, stores and products.                                   *)
(*                                                                         *)
(* The history during[c] holds every fact of every state in which c was    *)
(* open (Watched), so what a statement reads is in it as long as the call  *)
(* is open when it reads.  CustomerInv and SellerInv say what each stage   *)
(* of a call has read, and what its answer was given for.                  *)
(***************************************************************************)
EXTENDS Tenancy, FiniteSetTheorems, TLAPS

AllStages ==
  CustomerStages \cup {"idle", "done", "store", "member"} \cup StoreKinds \cup GateKinds \cup CatalogStages

Shape ==
  /\ stage \in [AllCalls -> AllStages]
  /\ DOMAIN answer = AllCalls /\ DOMAIN told = AllCalls /\ DOMAIN during = AllCalls
  /\ place \in [SellerCalls -> Stores \cup {None}]
  /\ IsFiniteSet(favorite)

\* What held while a call was open is in its history.
Watched == \A c \in AllCalls : Open(c) => Facts(c) \subseteq during[c]

\* An add past its first query knows that the product is of the store; what a later query
\* found or missed was so during the call.
CustomerReads(c) ==
  /\ stage[c] # "idle" => request[c] \in Asked
  /\ stage[c] = "find" => request[c].kind \in {"add", "order"}
  /\ stage[c] = "line" => request[c].kind = "order"
  /\ stage[c] \in {"get", "insert", "again", "reload", "render"} => request[c].kind = "add"
  /\ stage[c] = "list" => request[c].kind = "list"
  /\ stage[c] = "remove" => request[c].kind = "remove"
  /\ stage[c] \in {"get", "insert", "again", "reload"} => StoreOf[request[c].product] = request[c].store
  /\ stage[c] \in {"reload", "render"} => \E d \in Calls : <<"kept", d>> \in during[c]
  /\ stage[c] = "again" => <<"gone">> \in during[c] \/ \E d \in Calls \ {c} : <<"kept", d>> \in during[c]

CustomerAnswers(c) ==
  /\ request[c] # None /\ request[c].kind = "add" =>
       /\ Replied(c, 201) => \E d \in Calls : <<"kept", d>> \in during[c]
       /\ Replied(c, 404) => <<"offsale">> \in during[c]
       /\ Replied(c, 500) =>
            \/ <<"gone">> \in during[c] \/ Edited(c)
            \/ <<"unkept">> \in during[c] /\ \E d \in Calls \ {c} : <<"kept", d>> \in during[c]
  /\ Replied(c, 200) => \A p \in Products : <<IF p \in told[c] THEN "liked" ELSE "not", p>> \in during[c]

\* Past each of its gates a seller's call has been through that gate.
SellerReads(s) ==
  /\ stage[s] # "idle" => request[s] \in Errands
  /\ stage[s] \in {"store", "member"} => request[s].kind \in StoreKinds
  /\ stage[s] = "load" => request[s].kind \in {"update", "delete"}
  /\ stage[s] \in {"save", "render"} => request[s].kind = "update"
  /\ stage[s] \in DeleteStages => request[s].kind = "delete"
  /\ stage[s] \in {"members", "customers", "gate"} => request[s].kind = stage[s]
  /\ stage[s] = "whoami" => request[s].kind \in GateKinds
  /\ stage[s] \in {"member", "members", "customers"} \cup CatalogStages =>
       place[s] \in Stores /\ <<"named", place[s]>> \in during[s]
  /\ stage[s] \in {"customers"} \cup CatalogStages => place[s] \in Held(s, Roles)
  /\ stage[s] = "members" => place[s] \in Held(s, {"owner"})
  /\ stage[s] \in {"save", "render"} \cup DeleteStages => StoreOf[request[s].product] = place[s]
  /\ stage[s] = "whoami" /\ request[s].kind = "gate" =>
       \E k \in Stores, x \in Roles : <<"holds", k, x>> \in during[s]

\* A favorite, or another row, that references a product that is being deleted, and that came
\* too late to be cleared, was inserted by a call that the delete could have seen, or edited.
RivalsSeen ==
  \A s \in SellerCalls :
    /\ stage[s] \in {"null", "row", "commit"} =>
         RowsOf(request[s].product) \subseteq doomed[s] \/ <<"rival">> \in during[s]
    /\ s \in late => <<"rival">> \in during[s] \/ Edited(s)

\* Who goes on with a product in an erased category was open when that was erased.
StraysSeen == \A c \in Calls : c \in astray => Edited(c)

\* The favorite that an add inserts is its last word but one.
FreshIds == \A r \in favorite : stage[r.id] \in {"render", "done"}

\* What a delete has doomed are favorites of the product that it deletes.
DoomedAreOfTheProduct == \A s \in SellerCalls : \A r \in doomed[s] : r.product = request[s].product

Refusals(s) ==
  /\ Replied(s, 404) =>
       \/ <<"nowhere">> \in during[s] \/ <<"gone">> \in during[s]
       \/ \E k \in Held(s, Roles) : StoreOf[request[s].product] # k
  /\ Replied(s, 403) /\ request[s].kind = "gate" => \A k \in Stores : <<"holds", k, None>> \in during[s]
  /\ Replied(s, 403) /\ request[s].kind \in StoreKinds =>
       Held(s, IF request[s].kind = "members" THEN {None, "staff"} ELSE {None}) # {}

Lists(s) ==
  Replied(s, 200) =>
    /\ request[s].kind = "members" =>
         \E k \in Held(s, {"owner"}) : \A u \in told[s] : <<"member", k, u>> \in during[s]
    /\ request[s].kind = "customers" =>
         \E k \in Held(s, Roles) :
           /\ \A x \in told[s] : x.orders + x.favorites > 0
                              /\ <<"active", x.customer, x.orders, x.favorites, k>> \in during[s]
           /\ \A u \in Users : u \in {x.customer : x \in told[s]} \/ <<"active", u, 0, 0, k>> \in during[s]

Gates(s) ==
  Replied(s, 200) =>
    /\ request[s].kind = "gate" => \E k \in Stores, x \in Roles : <<"holds", k, x>> \in during[s]
    /\ request[s].kind \in GateKinds => \A x \in told[s] : \E k \in Stores : <<"holds", k, x[2]>> \in during[s]
    /\ request[s].kind = "me" => \E x \in told[s] : Held(s, {x[2]}) # {}

Deletes(s) ==
  request[s] # None /\ request[s].kind = "delete" =>
    /\ Replied(s, 204) => <<"gone">> \in during[s]
    /\ Replied(s, 500) => <<"rival">> \in during[s] \/ Edited(s)

SellerAnswers(s) == Refusals(s) /\ Lists(s) /\ Gates(s) /\ Deletes(s)

CallsInv ==
  /\ \A c \in Calls : CustomerReads(c) /\ CustomerAnswers(c)
  /\ \A s \in SellerCalls : SellerReads(s) /\ SellerAnswers(s)

TenancyInv ==
  Shape /\ TypeOK /\ Watched /\ FavoritesAreSound /\ RivalsSeen /\ StraysSeen /\ FreshIds /\ CallsInv

-----------------------------------------------------------------------------
(* The constants *)

LEMMA KindsAreApart == Calls \cap SellerCalls = {} /\ AllCalls = Calls \cup SellerCalls
  BY FavoritesAssumption DEF FavoritesAssumption, AllCalls

LEMMA NoneIsNoCode == None \notin {200, 201, 204, 403, 404, 500}
  BY FavoritesAssumption DEF FavoritesAssumption

LEMMA RequestTypes ==
  ASSUME request \in Requests
  PROVE  /\ \A c \in Calls : request[c] # None => request[c] \in Asked
         /\ \A s \in SellerCalls : request[s] # None => request[s] \in Errands
  BY FavoritesAssumption, TenancyAssumption DEF FavoritesAssumption, TenancyAssumption

LEMMA NoneIsApart == None \notin Asked /\ None \notin Errands /\ None \notin Roles /\ None \notin Stores
  BY FavoritesAssumption, TenancyAssumption DEF FavoritesAssumption, TenancyAssumption

AllRead == (\A c \in Calls : CustomerReads(c)) /\ (\A s \in SellerCalls : SellerReads(s))

-----------------------------------------------------------------------------
(* What a step may touch *)

Rests(c) ==
  /\ stage'[c] = stage[c] /\ answer'[c] = answer[c] /\ told'[c] = told[c]
  /\ c \in SellerCalls => place'[c] = place[c]

\* c is the only call that a step moves.
Moves(c) ==
  /\ request' = request
  /\ stage' \in [AllCalls -> AllStages] /\ DOMAIN answer' = AllCalls /\ DOMAIN told' = AllCalls
  /\ \A d \in AllCalls : d # c => stage'[d] = stage[d] /\ answer'[d] = answer[d] /\ told'[d] = told[d]
  /\ stage'[c] # "done" => answer'[c] = answer[c]

LEMMA GotoMoves ==
  ASSUME Shape, NEW c \in AllCalls, NEW x \in AllStages, Goto(c, x)
  PROVE  Moves(c) /\ stage'[c] = x /\ answer'[c] = answer[c] /\ told'[c] = told[c]
  BY DEF Shape, Goto, Moves

LEMMA AnswerMoves ==
  ASSUME Shape, NEW c \in AllCalls, NEW n, Answer(c, n)
  PROVE  Moves(c) /\ stage'[c] = "done" /\ answer'[c] = n /\ told'[c] = told[c]
  BY DEF Shape, Answer, Moves, AllStages

LEMMA TellMoves ==
  ASSUME Shape, NEW c \in AllCalls, NEW x, Tell(c, x)
  PROVE  Moves(c) /\ stage'[c] = "done" /\ answer'[c] = 200 /\ told'[c] = x
  BY DEF Shape, Tell, Moves, AllStages

LEMMA CustomerMoves ==
  ASSUME Shape, TypeOK, NEW c \in Calls, CustomerReads(c), CustomerStep(c)
  PROVE  Moves(c) /\ stage[c] # "done" /\ stage'[c] \in CustomerStages \cup {"done"}
<1>0. c \in AllCalls
  BY KindsAreApart
<1>1. CASE Wish(c)
  <2>1. Opening[request[c].kind] \in AllStages \cap CustomerStages
    BY <1>1, RequestTypes DEF Wish, Opening, AllStages, CustomerStages, TypeOK, FavoritesTypeOK, Asked
  <2>2. QED  BY <1>0, <1>1, <2>1, GotoMoves DEF Wish
<1>2. CASE FindProduct(c) \/ GetFavorite(c) \/ GetAgain(c) \/ ReloadProduct(c) \/ RenderProduct(c) \/ PlaceLine(c)
  <2> USE DEF AllStages, CustomerStages
  <2>1. CASE FindProduct(c)
    <3>1. Found[request[c].kind] \in {"get", "line"}
      BY <2>1 DEF FindProduct, Found, CustomerReads
    <3>2. QED  BY <1>0, <2>1, <3>1, GotoMoves, AnswerMoves DEF FindProduct
  <2>2. CASE GetFavorite(c)
    BY <1>0, <2>2, GotoMoves DEF GetFavorite
  <2>3. CASE GetAgain(c)
    BY <1>0, <2>3, GotoMoves, AnswerMoves DEF GetAgain
  <2>4. CASE ReloadProduct(c)
    BY <1>0, <2>4, GotoMoves, AnswerMoves DEF ReloadProduct
  <2>5. CASE RenderProduct(c) \/ PlaceLine(c)
    BY <1>0, <2>5, AnswerMoves DEF RenderProduct, PlaceLine
  <2>6. QED  BY <1>2, <2>1, <2>2, <2>3, <2>4, <2>5
<1>3. CASE InsertFavorite(c)
  BY <1>0, <1>3, GotoMoves, AnswerMoves DEF InsertFavorite, AllStages, CustomerStages
<1>4. CASE RemoveFavorite(c) \/ MyFavorites(c)
  BY <1>0, <1>4, AnswerMoves, TellMoves DEF RemoveFavorite, MyFavorites
<1>5. QED  BY <1>1, <1>2, <1>3, <1>4 DEF CustomerStep, Add

LEMMA AdmitMoves ==
  ASSUME Shape, TypeOK, NEW s \in SellerCalls, SellerReads(s), Admit(s)
  PROVE  /\ Moves(s) /\ stage[s] # "done"
         /\ UNCHANGED <<tables, slug, membership, edits>>
         /\ place' \in [SellerCalls -> Stores \cup {None}]
         /\ \A z \in SellerCalls : z # s => place'[z] = place[z]
<1>0. s \in AllCalls
  BY KindsAreApart
<1>1. CASE Come(s)
  <2>1. request[s].kind \in AllStages
    BY <1>1, RequestTypes DEF Come, AllStages, TypeOK, FavoritesTypeOK, Errands
  <2>2. \E x \in AllStages : Goto(s, x)
    BY <1>1, <2>1 DEF Come, AllStages
  <2>3. QED  BY <1>0, <1>1, <2>2, GotoMoves DEF Come, tenancyVars, Shape
<1>2. CASE FindStore(s)
  <2>1. CASE StoreNamed(request[s].slug) = {}
    BY <1>0, <1>2, <2>1, AnswerMoves DEF FindStore, Shape
  <2>2. CASE StoreNamed(request[s].slug) # {}
    <3>1. Goto(s, "member") /\ place' = [place EXCEPT ![s] = CHOOSE z \in StoreNamed(request[s].slug) : TRUE]
      BY <1>2, <2>2 DEF FindStore
    <3>2. (CHOOSE z \in StoreNamed(request[s].slug) : TRUE) \in Stores
      BY <2>2 DEF StoreNamed
    <3>3. Moves(s)
      BY <1>0, <3>1, GotoMoves DEF AllStages
    <3>4. QED  BY <1>2, <3>1, <3>2, <3>3 DEF FindStore, Shape
  <2>3. QED  BY <2>1, <2>2
<1>3. CASE RequireMembership(s)
  <2>1. request[s].kind \in StoreKinds
    BY <1>3 DEF RequireMembership, SellerReads
  <2>2. \/ Answer(s, 403) \/ \E x : Tell(s, x)
        \/ Goto(s, "load") \/ Goto(s, request[s].kind)
    BY <1>3 DEF RequireMembership
  <2>3. Moves(s)
    BY <1>0, <2>1, <2>2, GotoMoves, AnswerMoves, TellMoves DEF AllStages, CatalogStages
  <2>4. QED  BY <1>3, <2>3 DEF RequireMembership, tenancyVars, Shape
<1>4. CASE ListMembers(s) \/ ListCustomers(s) \/ TellStanding(s)
  BY <1>0, <1>4, TellMoves DEF ListMembers, ListCustomers, TellStanding, tenancyVars, Shape
<1>5. CASE PassGate(s)
  BY <1>0, <1>5, GotoMoves, AnswerMoves DEF PassGate, tenancyVars, Shape, AllStages, GateKinds
<1>6. QED  BY <1>1, <1>2, <1>3, <1>4, <1>5 DEF Admit

LEMMA CatalogMoves ==
  ASSUME Shape, NEW s \in SellerCalls, WriteCatalog(s)
  PROVE  Moves(s) /\ stage[s] \in CatalogStages /\ UNCHANGED tenancyVars
<1>0. s \in AllCalls
  BY KindsAreApart
<1>t. UNCHANGED tenancyVars
  BY DEF WriteCatalog
<1> USE DEF AllStages, CatalogStages, DeleteStages
<1>1. CASE LoadProduct(s, place[s])
  BY <1>0, <1>t, <1>1, GotoMoves, AnswerMoves DEF LoadProduct
<1>2. CASE SaveProduct(s) \/ RenderProduct(s)
  BY <1>0, <1>t, <1>2, GotoMoves, AnswerMoves DEF SaveProduct, RenderProduct
<1>3. CASE ClearFavorites(s) \/ DetachLines(s)
  BY <1>0, <1>t, <1>3, GotoMoves DEF ClearFavorites, DetachLines
<1>4. CASE RemoveRow(s)
  BY <1>0, <1>t, <1>4, GotoMoves, AnswerMoves DEF RemoveRow
<1>5. CASE CommitDelete(s) \/ Deadlock(s)
  BY <1>0, <1>t, <1>5, AnswerMoves DEF CommitDelete, Deadlock
<1>6. CASE Crash(s)
  BY <1>0, <1>t, <1>6 DEF Crash, Moves, Shape
<1>7. QED  BY <1>1, <1>2, <1>3, <1>4, <1>5, <1>6 DEF WriteCatalog, DeleteStep

\* An edit in the Django admin touches no call and no table that calls write.
LEMMA EditRests ==
  ASSUME EditAdmin
  PROVE  UNCHANGED <<product, favorite, doomed, stage, request, answer, told, place>>
  BY DEF EditAdmin, EditMembership, RenameStore, AddImage, EraseCategory, Edit

LEMMA CallsGoOn ==
  ASSUME Shape, TypeOK, AllRead, Step, NEW d \in AllCalls
  PROVE  \/ Rests(d)
         \/ d \in Calls /\ CustomerStep(d) /\ UNCHANGED tenancyVars
         \/ d \in SellerCalls /\ (Admit(d) \/ WriteCatalog(d))
<1>1. ASSUME NEW c \in Calls, c # d, CustomerStep(c), UNCHANGED tenancyVars PROVE Rests(d)
  BY <1>1, CustomerMoves DEF Moves, Rests, tenancyVars, AllRead
<1>2. ASSUME NEW s \in SellerCalls, s # d, Admit(s) PROVE Rests(d)
  BY <1>2, AdmitMoves DEF Moves, Rests, AllRead
<1>3. ASSUME NEW s \in SellerCalls, s # d, WriteCatalog(s) PROVE Rests(d)
  BY <1>3, CatalogMoves DEF Moves, Rests, tenancyVars
<1>4. CASE EditAdmin
  BY <1>4, EditRests DEF Rests
<1>5. QED  BY <1>1, <1>2, <1>3, <1>4 DEF Step

-----------------------------------------------------------------------------
(* The shape of the state *)

LEMMA RequestRests ==
  ASSUME Shape, TypeOK, AllRead, Step
  PROVE  /\ request' = request
         /\ stage' \in [AllCalls -> AllStages] /\ DOMAIN answer' = AllCalls /\ DOMAIN told' = AllCalls
         /\ place' \in [SellerCalls -> Stores \cup {None}]
         /\ \A c \in AllCalls : stage'[c] # "done" => answer'[c] = answer[c] /\ stage[c] # "done"
<1> DEFINE Goal == /\ request' = request
                   /\ stage' \in [AllCalls -> AllStages] /\ DOMAIN answer' = AllCalls /\ DOMAIN told' = AllCalls
                   /\ place' \in [SellerCalls -> Stores \cup {None}]
                   /\ \A c \in AllCalls : stage'[c] # "done" => answer'[c] = answer[c] /\ stage[c] # "done"
<1>1. ASSUME NEW c \in Calls, CustomerStep(c), UNCHANGED tenancyVars PROVE Goal
  BY <1>1, CustomerMoves DEF Moves, tenancyVars, Shape, AllRead
<1>2. ASSUME NEW s \in SellerCalls, Admit(s) PROVE Goal
  BY <1>2, AdmitMoves DEF Moves, Shape, AllRead
<1>3. ASSUME NEW s \in SellerCalls, WriteCatalog(s) PROVE Goal
  BY <1>3, CatalogMoves DEF Moves, tenancyVars, Shape, CatalogStages, DeleteStages
<1>4. CASE EditAdmin
  BY <1>4, EditRests DEF Shape
<1>5. QED  BY <1>1, <1>2, <1>3, <1>4 DEF Step

LEMMA ReadsHold == CallsInv => AllRead
  BY DEF CallsInv, AllRead

LEMMA WatchGrows ==
  ASSUME Shape, Watch
  PROVE  /\ DOMAIN during' = AllCalls
         /\ \A c \in AllCalls : /\ during[c] \subseteq during'[c]
                                /\ Open(c) \/ Open(c)' => Facts(c)' \subseteq during'[c]
  BY DEF Shape, Watch

\* The favorites stay finitely many, and only an insert adds one.
LEMMA FavoritesComeFrom ==
  ASSUME Step
  PROVE  \/ favorite' \subseteq favorite
         \/ \E c \in Calls : /\ InsertFavorite(c) /\ Mine(c) = {} /\ Exists(request[c].product)
                             /\ favorite' = favorite \cup {[id |-> c, customer |-> request[c].customer,
                                               store |-> request[c].store, product |-> request[c].product]}
<1>1. ASSUME NEW c \in Calls, CustomerStep(c)
      PROVE  \/ favorite' \subseteq favorite
             \/ /\ InsertFavorite(c) /\ Mine(c) = {} /\ Exists(request[c].product)
                /\ favorite' = favorite \cup {[id |-> c, customer |-> request[c].customer,
                                  store |-> request[c].store, product |-> request[c].product]}
  <2>1. CASE InsertFavorite(c)
    BY <2>1 DEF InsertFavorite
  <2>2. CASE RemoveFavorite(c)
    BY <2>2 DEF RemoveFavorite
  <2>3. CASE ~InsertFavorite(c) /\ ~RemoveFavorite(c)
    BY <1>1, <2>3 DEF CustomerStep, Add, Wish, FindProduct, GetFavorite, GetAgain, ReloadProduct,
                      RenderProduct, PlaceLine, MyFavorites, tables
  <2>4. QED  BY <2>1, <2>2, <2>3
<1>2. ASSUME NEW s \in SellerCalls, Admit(s) PROVE favorite' \subseteq favorite
  BY <1>2 DEF Admit, Come, FindStore, RequireMembership, ListMembers, ListCustomers, PassGate,
              TellStanding, tables
<1>3. ASSUME NEW s \in SellerCalls, WriteCatalog(s) PROVE favorite' \subseteq favorite
  BY <1>3 DEF WriteCatalog, DeleteStep, LoadProduct, SaveProduct, RenderProduct, ClearFavorites, DetachLines,
              RemoveRow, Deadlock, CommitDelete, Crash, End, tables
<1>4. CASE EditAdmin
  BY <1>4, EditRests
<1>5. QED  BY <1>1, <1>2, <1>3, <1>4 DEF Step

\* A delete is late only for a line or an image, and a product astray only by an erased category.
LEMMA FlagsComeFrom ==
  ASSUME Step
  PROVE  /\ \/ late' \subseteq late
            \/ \E c \in Calls : PlaceLine(c) /\ late' = late \cup DeletesAt(request[c].product, {"row"})
            \/ \E p \in Products : AddImage(p)
         /\ astray' \subseteq astray \/ \E p \in Products : EraseCategory(p)
<1>1. ASSUME NEW c \in Calls, CustomerStep(c)
      PROVE  /\ \/ late' = late
                \/ PlaceLine(c) /\ late' = late \cup DeletesAt(request[c].product, {"row"})
             /\ astray' \subseteq astray
  <2>1. CASE PlaceLine(c)
    BY <2>1 DEF PlaceLine
  <2>2. CASE ~PlaceLine(c)
    BY <1>1, <2>2 DEF CustomerStep, Add, Wish, FindProduct, GetFavorite, InsertFavorite, GetAgain, ReloadProduct,
                      RenderProduct, RemoveFavorite, MyFavorites, tables
  <2>3. QED  BY <2>1, <2>2
<1>2. ASSUME NEW s \in SellerCalls, Admit(s) PROVE late' = late /\ astray' = astray
  BY <1>2 DEF Admit, Come, FindStore, RequireMembership, ListMembers, ListCustomers, PassGate,
              TellStanding, tables
<1>3. ASSUME NEW s \in SellerCalls, WriteCatalog(s) PROVE late' \subseteq late /\ astray' = astray
  BY <1>3 DEF WriteCatalog, DeleteStep, LoadProduct, SaveProduct, RenderProduct, ClearFavorites, DetachLines,
              RemoveRow, Deadlock, CommitDelete, Crash, End, tables
<1>4. CASE EditAdmin
  <2>1. ASSUME NEW u \in Users, NEW k \in Stores, EditMembership(u, k) PROVE late' = late /\ astray' = astray
    BY <2>1 DEF EditMembership
  <2>2. ASSUME NEW k \in Stores, RenameStore(k) PROVE late' = late /\ astray' = astray
    BY <2>2 DEF RenameStore
  <2>3. ASSUME NEW p \in Products, AddImage(p) PROVE astray' = astray
    BY <2>3 DEF AddImage
  <2>4. ASSUME NEW p \in Products, EraseCategory(p) PROVE late' = late
    BY <2>4 DEF EraseCategory
  <2>5. QED  BY <1>4, <2>1, <2>2, <2>3, <2>4 DEF EditAdmin
<1>5. QED  BY <1>1, <1>2, <1>3, <1>4 DEF Step

LEMMA FlagsTyped ==
  ASSUME TypeOK, Step
  PROVE  late' \subseteq SellerCalls /\ astray' \subseteq AllCalls
<1>1. late \subseteq SellerCalls /\ astray \subseteq AllCalls
  BY DEF TypeOK, FavoritesTypeOK
<1>2. \A p, stages : DeletesAt(p, stages) \subseteq SellerCalls
  BY DEF DeletesAt
<1>3. \A p : Holding(p) \subseteq AllCalls
  BY DEF Holding
<1>4. QED  BY <1>1, <1>2, <1>3, FlagsComeFrom DEF AddImage, EraseCategory

LEMMA ShapeStep ==
  ASSUME Shape, TypeOK, AllRead, Step, Watch
  PROVE  Shape'
<1>1. IsFiniteSet(favorite')
  BY FavoritesComeFrom, FS_Subset, FS_AddElement DEF Shape
<1>2. QED  BY <1>1, RequestRests, WatchGrows DEF Shape

\* The fact that lets two deletes keep their doomed favorites apart.
LEMMA LockedRows == \A r : r \in Locked <=> \E s \in SellerCalls : r \in doomed[s]
  BY DEF Locked

LEMMA ProductWrites ==
  ASSUME Shape, TypeOK, CallsInv, Step
  PROVE  \/ UNCHANGED product
         \/ \E s \in SellerCalls : SaveProduct(s) \/ CommitDelete(s)
<1>1. ASSUME NEW c \in Calls, CustomerStep(c) PROVE UNCHANGED product
  BY <1>1 DEF CustomerStep, Add, Wish, FindProduct, GetFavorite, InsertFavorite, GetAgain, ReloadProduct,
              RenderProduct, PlaceLine, RemoveFavorite, MyFavorites, tables
<1>2. ASSUME NEW s \in SellerCalls, Admit(s) PROVE UNCHANGED product
  BY <1>2, AdmitMoves DEF tables, CallsInv
<1>3. ASSUME NEW s \in SellerCalls, WriteCatalog(s)
      PROVE  UNCHANGED product \/ SaveProduct(s) \/ CommitDelete(s)
  BY <1>3 DEF WriteCatalog, DeleteStep, LoadProduct, RenderProduct, ClearFavorites, DetachLines, RemoveRow,
              Deadlock, Crash, tables
<1>4. CASE EditAdmin
  BY <1>4, EditRests
<1>5. QED  BY <1>1, <1>2, <1>3, <1>4 DEF Step

LEMMA TablesTyped ==
  ASSUME Shape, TypeOK, CallsInv, Step
  PROVE  product' \in [Products -> {"shown", "hidden", "gone"}] /\ favorite' \subseteq Rows
<1>1. favorite' \subseteq Rows
  <2>1. ASSUME NEW c \in Calls, InsertFavorite(c)
        PROVE  request[c] \in Asked
    BY <2>1 DEF InsertFavorite, CallsInv, CustomerReads
  <2>2. QED  BY <2>1, FavoritesComeFrom DEF TypeOK, FavoritesTypeOK, Rows, Asked
<1>2. product' \in [Products -> {"shown", "hidden", "gone"}]
  BY ProductWrites DEF SaveProduct, CommitDelete, TypeOK, FavoritesTypeOK
<1>3. QED  BY <1>1, <1>2

DoomedOK ==
  /\ doomed \in [SellerCalls -> SUBSET favorite]
  /\ \A s, z \in SellerCalls : s # z => doomed[s] \cap doomed[z] = {}
  /\ \A s \in SellerCalls : doomed[s] # {} => stage[s] \in {"null", "row", "commit"}

LEMMA DoomedTyped ==
  ASSUME Shape, TypeOK, CallsInv, Step
  PROVE  DoomedOK'
<1>0. DoomedOK
  BY DEF DoomedOK, TypeOK, FavoritesTypeOK
<1> USE DEF DoomedOK
<1>1. ASSUME UNCHANGED <<favorite, doomed>>, \A s \in SellerCalls : stage[s] \in {"null", "row", "commit"} => stage'[s] = stage[s]
      PROVE  DoomedOK'
  BY <1>0, <1>1
<1>2. ASSUME NEW c \in Calls, CustomerStep(c) PROVE DoomedOK'
  <2>1. \A s \in SellerCalls : stage'[s] = stage[s]
    BY <1>2, CustomerMoves, KindsAreApart DEF Moves, CallsInv
  <2>2. CASE InsertFavorite(c)
    BY <1>0, <2>1, <2>2 DEF InsertFavorite
  <2>3. CASE RemoveFavorite(c)
    <3>1. favorite' = favorite \ Mine(c) /\ doomed' = doomed /\ Mine(c) \cap Locked = {}
      BY <2>3 DEF RemoveFavorite
    <3>2. \A s \in SellerCalls : doomed[s] \subseteq favorite'
      BY <1>0, <3>1, LockedRows
    <3>3. QED  BY <1>0, <2>1, <3>1, <3>2
  <2>4. CASE ~InsertFavorite(c) /\ ~RemoveFavorite(c)
    BY <1>1, <1>2, <2>1, <2>4
       DEF CustomerStep, Add, Wish, FindProduct, GetFavorite, GetAgain, ReloadProduct, RenderProduct, PlaceLine,
           MyFavorites, tables
  <2>5. QED  BY <2>2, <2>3, <2>4
<1>3. ASSUME NEW s \in SellerCalls, Admit(s) PROVE DoomedOK'
  <2>1. SellerReads(s)
    BY DEF CallsInv
  <2>2. stage[s] \notin {"null", "row", "commit"}
    BY <1>3, <2>1, RequestTypes DEF Admit, Come, FindStore, RequireMembership, ListMembers, ListCustomers, PassGate, TellStanding
  <2>3. QED  BY <1>1, <1>3, <2>1, <2>2, AdmitMoves, KindsAreApart DEF Moves, tables
<1>4. ASSUME NEW s \in SellerCalls, WriteCatalog(s) PROVE DoomedOK'
  <2>1. \A z \in SellerCalls \ {s} : stage'[z] = stage[z]
    BY <1>4, CatalogMoves, KindsAreApart DEF Moves
  <2>2. CASE LoadProduct(s, place[s]) \/ SaveProduct(s) \/ RenderProduct(s)
    BY <1>1, <2>1, <2>2 DEF LoadProduct, SaveProduct, RenderProduct, tables
  <2>3. CASE ClearFavorites(s)
    <3>1. stage'[s] = "null" /\ favorite' = favorite /\ doomed' = [doomed EXCEPT ![s] = RowsOf(request[s].product)]
      BY <2>3, KindsAreApart DEF ClearFavorites, Goto, Shape
    <3>2. RowsOf(request[s].product) \subseteq favorite /\ RowsOf(request[s].product) \cap Locked = {}
      BY <2>3 DEF ClearFavorites, RowsOf
    <3>3. \A z \in SellerCalls : RowsOf(request[s].product) \cap doomed[z] = {}
      BY <3>2, LockedRows
    <3>4. QED  BY <1>0, <2>1, <3>1, <3>2, <3>3
  <2>4. ASSUME doomed' = [doomed EXCEPT ![s] = {}], favorite' = favorite \/ favorite' = favorite \ doomed[s]
        PROVE  DoomedOK'
    BY <1>0, <2>1, <2>4
  <2>5. CASE RemoveRow(s) \/ DetachLines(s)
    <3>1. CASE Goto(s, "commit") /\ UNCHANGED tables
      BY <1>0, <2>1, <3>1, KindsAreApart DEF Goto, Shape, tables
    <3>2. CASE DetachLines(s)
      BY <1>0, <2>1, <3>2, KindsAreApart DEF DetachLines, Goto, Shape, tables
    <3>3. QED  BY <2>4, <2>5, <3>1, <3>2 DEF RemoveRow, End
  <2>6. CASE Deadlock(s) \/ CommitDelete(s) \/ Crash(s)
    BY <2>4, <2>6 DEF Deadlock, CommitDelete, Crash, End
  <2>7. QED  BY <1>4, <2>2, <2>3, <2>5, <2>6 DEF WriteCatalog, DeleteStep
<1>5. CASE EditAdmin
  BY <1>1, <1>5, EditRests
<1>6. QED  BY <1>2, <1>3, <1>4, <1>5 DEF Step

SlugsUnique == slug \in [Stores -> Slugs] /\ \A k, z \in Stores : slug[k] = slug[z] => k = z

LEMMA AdminTyped ==
  ASSUME TypeOK, CallsInv, Shape, Step
  PROVE  SlugsUnique' /\ membership' \in [Users \X Stores -> Roles \cup {None}] /\ edits' \in 0..MaxActors
<1>0. SlugsUnique /\ membership \in [Users \X Stores -> Roles \cup {None}] /\ edits \in 0..MaxActors
  BY DEF TypeOK, SlugsUnique
<1>e. ASSUME Edit PROVE edits' \in 0..MaxActors
  <2> DEFINE made == {c \in AllCalls : request[c] # None}
  <2>1. Cardinality(made) \in Nat
    <3>1. IsFiniteSet(made)
      BY FavoritesAssumption, FS_Subset DEF FavoritesAssumption
    <3>2. QED  BY <3>1, FS_CardinalityType
  <2>2. edits + Cardinality(made) < MaxActors /\ edits' = edits + 1
    BY <1>e DEF Edit
  <2>3. MaxActors \in Nat
    BY TenancyAssumption DEF TenancyAssumption
  <2> HIDE DEF made
  <2>4. QED  BY <1>0, <2>1, <2>2, <2>3
<1>1. CASE UNCHANGED <<slug, membership, edits>>
  BY <1>0, <1>1 DEF SlugsUnique
<1>2. ASSUME NEW u \in Users, NEW k \in Stores, EditMembership(u, k)
      PROVE  SlugsUnique' /\ membership' \in [Users \X Stores -> Roles \cup {None}] /\ edits' \in 0..MaxActors
  <2>1. PICK x \in Roles \cup {None} : membership' = [membership EXCEPT ![<<u, k>>] = x]
    BY <1>2 DEF EditMembership
  <2>2. QED  BY <1>0, <1>2, <1>e, <2>1 DEF EditMembership, SlugsUnique
<1>3. ASSUME NEW k \in Stores, RenameStore(k)
      PROVE  SlugsUnique' /\ membership' \in [Users \X Stores -> Roles \cup {None}] /\ edits' \in 0..MaxActors
  <2>1. PICK x \in Slugs : (\A z \in Stores : slug[z] # x) /\ slug' = [slug EXCEPT ![k] = x]
    BY <1>3 DEF RenameStore, StoreNamed
  <2>2. SlugsUnique'
    BY <1>0, <2>1 DEF SlugsUnique
  <2>3. QED  BY <1>0, <1>3, <1>e, <2>2 DEF RenameStore
<1>7. ASSUME NEW p \in Products, AddImage(p) \/ EraseCategory(p)
      PROVE  SlugsUnique' /\ membership' \in [Users \X Stores -> Roles \cup {None}] /\ edits' \in 0..MaxActors
  BY <1>0, <1>7, <1>e DEF AddImage, EraseCategory, SlugsUnique
<1>4. ASSUME NEW c \in Calls, UNCHANGED tenancyVars
      PROVE  UNCHANGED <<slug, membership, edits>>
  BY <1>4 DEF tenancyVars
<1>5. ASSUME NEW s \in SellerCalls, Admit(s) \/ WriteCatalog(s)
      PROVE  UNCHANGED <<slug, membership, edits>>
  BY <1>5, AdmitMoves, CatalogMoves DEF tenancyVars, CallsInv
<1>6. QED  BY <1>1, <1>2, <1>3, <1>4, <1>5, <1>7 DEF Step, EditAdmin

\* A seller's call reaches a store by finding it.
LEMMA StagesTyped ==
  ASSUME Shape, TypeOK, CallsInv, Step
  PROVE  /\ \A c \in Calls : stage'[c] \in CustomerStages \cup {"idle", "done"}
         /\ \A s \in SellerCalls :
              /\ stage'[s] \in {"idle", "done", "store", "member"} \cup StoreKinds \cup GateKinds \cup CatalogStages
              /\ stage'[s] \in CatalogStages \cup {"member", "members", "customers"} => place'[s] # None
<1> DEFINE Fits(s) ==
      /\ stage[s] \in {"idle", "done", "store", "member"} \cup StoreKinds \cup GateKinds \cup CatalogStages
      /\ stage[s] \in CatalogStages \cup {"member", "members", "customers"} => place[s] # None
<1>0. AllRead
  BY ReadsHold
<1>1. ASSUME NEW c \in Calls PROVE stage'[c] \in CustomerStages \cup {"idle", "done"}
  <2>1. CASE Rests(c)
    BY <2>1 DEF Rests, TypeOK, FavoritesTypeOK
  <2>2. CASE CustomerStep(c)
    BY <1>0, <2>2, CustomerMoves DEF AllRead
  <2>3. QED  BY <1>0, <2>1, <2>2, CallsGoOn, KindsAreApart
<1>2. ASSUME NEW s \in SellerCalls PROVE Fits(s)'
  <2>0. s \in AllCalls /\ Fits(s) /\ SellerReads(s)
    BY <1>0, KindsAreApart DEF TypeOK, AllRead
  <2>1. CASE Rests(s)
    BY <2>0, <2>1 DEF Rests
  <2>2. CASE Admit(s)
    <3> USE DEF StoreKinds, GateKinds, CatalogStages, DeleteStages
    <3>1. CASE Come(s)
      <4>1. request[s] \in Errands
        BY <3>1, RequestTypes DEF Come, TypeOK, FavoritesTypeOK
      <4>2. request[s].kind \in StoreKinds \cup GateKinds
        BY <4>1 DEF Errands
      <4>3. stage'[s] = "store" \/ (stage'[s] = request[s].kind /\ request[s].kind \in GateKinds)
        BY <2>0, <3>1, <4>2 DEF Come, Goto, Shape
      <4>4. QED  BY <4>3
    <3>2. CASE FindStore(s)
      <4>1. CASE StoreNamed(request[s].slug) = {}
        BY <2>0, <3>2, <4>1, AnswerMoves DEF FindStore
      <4>2. CASE StoreNamed(request[s].slug) # {}
        <5>1. place' = [place EXCEPT ![s] = CHOOSE z \in StoreNamed(request[s].slug) : TRUE] /\ Goto(s, "member")
          BY <3>2, <4>2 DEF FindStore
        <5>2. (CHOOSE z \in StoreNamed(request[s].slug) : TRUE) \in Stores
          BY <4>2 DEF StoreNamed
        <5>3. QED  BY <2>0, <5>1, <5>2, NoneIsApart DEF Goto, Shape
      <4>3. QED  BY <4>1, <4>2
    <3>3. CASE RequireMembership(s)
      <4>1. place[s] # None /\ place' = place
        BY <2>0, <3>3 DEF RequireMembership, tenancyVars
      <4>2. stage'[s] \in {"done", "load", "members", "customers"}
        BY <2>0, <3>3, GotoMoves, AnswerMoves, TellMoves DEF RequireMembership, AllStages
      <4>3. QED  BY <4>1, <4>2
    <3>4. CASE ListMembers(s) \/ ListCustomers(s) \/ TellStanding(s)
      BY <2>0, <3>4, TellMoves DEF ListMembers, ListCustomers, TellStanding
    <3>5. CASE PassGate(s)
      BY <2>0, <3>5, GotoMoves, AnswerMoves DEF PassGate, AllStages
    <3>6. QED  BY <2>2, <3>1, <3>2, <3>3, <3>4, <3>5 DEF Admit
  <2>3. CASE WriteCatalog(s)
    <3>1. place'[s] = place[s] /\ place[s] # None
      BY <2>0, <2>3, CatalogMoves DEF tenancyVars
    <3>2. stage'[s] \in CatalogStages \cup {"done"}
      <4> USE DEF CatalogStages, DeleteStages
      <4>1. CASE LoadProduct(s, place[s])
        BY <2>0, <4>1 DEF LoadProduct, Goto, Answer, Shape
      <4>2. CASE SaveProduct(s) \/ RenderProduct(s) \/ ClearFavorites(s) \/ DetachLines(s)
        BY <2>0, <4>2 DEF SaveProduct, RenderProduct, ClearFavorites, DetachLines, Goto, Answer, Shape
      <4>3. CASE RemoveRow(s) \/ Deadlock(s) \/ CommitDelete(s) \/ Crash(s)
        BY <2>0, <4>3 DEF RemoveRow, Deadlock, CommitDelete, Crash, Goto, Answer, Shape
      <4>4. QED  BY <2>3, <4>1, <4>2, <4>3 DEF WriteCatalog, DeleteStep
    <3>3. QED  BY <3>1, <3>2
  <2>4. QED  BY <1>0, <2>0, <2>1, <2>2, <2>3, CallsGoOn, KindsAreApart
<1>3. QED  BY <1>1, <1>2

LEMMA TypeStep ==
  ASSUME Shape, TypeOK, CallsInv, Step, Watch
  PROVE  TypeOK' /\ Shape'
<1>0. AllRead
  BY ReadsHold
<1>1. Shape'
  BY <1>0, ShapeStep
<1>2. \A c \in AllCalls : answer'[c] # None => stage'[c] = "done"
  BY <1>0, RequestRests DEF TypeOK, FavoritesTypeOK
<1>3. FavoritesTypeOK'
  BY <1>0, <1>2, TablesTyped, FlagsTyped, DoomedTyped, StagesTyped, RequestRests DEF FavoritesTypeOK, DoomedOK, TypeOK
<1>4. TypeOK'
  BY <1>1, <1>3, AdminTyped, StagesTyped DEF TypeOK, SlugsUnique, Shape
<1>5. QED  BY <1>1, <1>4

-----------------------------------------------------------------------------
(* Favorites and products *)

LEMMA SoundStep ==
  ASSUME Shape, TypeOK, CallsInv, FavoritesAreSound, Step
  PROVE  FavoritesAreSound'
<1>1. OneFavoriteEach'
  <2>1. OneFavoriteEach
    BY DEF FavoritesAreSound
  <2>2. CASE favorite' \subseteq favorite
    BY <2>1, <2>2 DEF OneFavoriteEach
  <2>3. ASSUME NEW c \in Calls, Mine(c) = {},
               favorite' = favorite \cup {[id |-> c, customer |-> request[c].customer,
                                           store |-> request[c].store, product |-> request[c].product]}
        PROVE  OneFavoriteEach'
    <3>1. \A r \in favorite : ~(/\ r.customer = request[c].customer /\ r.store = request[c].store
                                /\ r.product = request[c].product)
      BY <2>3 DEF Mine
    <3>2. QED  BY <2>1, <2>3, <3>1 DEF OneFavoriteEach
  <2>4. QED  BY <2>2, <2>3, FavoritesComeFrom
<1>2. FavoritesReferenceProducts'
  <2>1. FavoritesReferenceProducts
    BY DEF FavoritesAreSound
  <2>2. CASE UNCHANGED product
    <3>1. CASE favorite' \subseteq favorite
      BY <2>1, <2>2, <3>1 DEF FavoritesReferenceProducts, Exists
    <3>2. ASSUME NEW c \in Calls, InsertFavorite(c), Exists(request[c].product),
                 favorite' = favorite \cup {[id |-> c, customer |-> request[c].customer,
                                             store |-> request[c].store, product |-> request[c].product]}
          PROVE  FavoritesReferenceProducts'
      <4>1. StoreOf[request[c].product] = request[c].store
        BY <3>2 DEF CallsInv, CustomerReads, InsertFavorite
      <4>2. QED  BY <2>1, <2>2, <3>2, <4>1 DEF FavoritesReferenceProducts, Exists
    <3>3. QED  BY <3>1, <3>2, FavoritesComeFrom
  <2>3. ASSUME NEW s \in SellerCalls, SaveProduct(s) PROVE FavoritesReferenceProducts'
    <3>1. favorite' = favorite /\ \A p \in Products : product'[p] = product[p] \/ product'[p] \in {"shown", "hidden"}
      BY <2>3 DEF SaveProduct, TypeOK, FavoritesTypeOK
    <3>2. \A r \in favorite : r.product \in Products
      BY DEF TypeOK, FavoritesTypeOK, Rows
    <3>3. QED  BY <2>1, <3>1, <3>2 DEF FavoritesReferenceProducts, Exists
  <2>4. ASSUME NEW s \in SellerCalls, CommitDelete(s) PROVE FavoritesReferenceProducts'
    <3>1. CASE ForeignKeyHolds(s)
      <4>1. \A r \in favorite' : r \in favorite /\ r.product # request[s].product
        BY <2>4, <3>1 DEF CommitDelete, ForeignKeyHolds, RowsOf
      <4>2. \A p \in Products \ {request[s].product} : product'[p] = product[p]
        BY <2>4, <3>1 DEF CommitDelete, TypeOK, FavoritesTypeOK
      <4>3. \A r \in favorite : r.product \in Products
        BY DEF TypeOK, FavoritesTypeOK, Rows
      <4>4. QED  BY <2>1, <4>1, <4>2, <4>3 DEF FavoritesReferenceProducts, Exists
    <3>2. CASE ~ForeignKeyHolds(s)
      BY <2>1, <2>4, <3>2 DEF CommitDelete, FavoritesReferenceProducts, Exists
    <3>3. QED  BY <3>1, <3>2
  <2>5. QED  BY <2>2, <2>3, <2>4, ProductWrites
<1>3. QED  BY <1>1, <1>2 DEF FavoritesAreSound

-----------------------------------------------------------------------------
(* What the history of a call holds *)

SellerFacts(s) ==
  /\ \A k \in StoreNamed(request[s].slug) : <<"named", k>> \in Facts(s)
  /\ \A k \in Stores : <<"holds", k, membership[<<request[s].user, k>>]>> \in Facts(s)
  /\ StoreNamed(request[s].slug) = {} => <<"nowhere">> \in Facts(s)
  /\ ~Exists(request[s].product) => <<"gone">> \in Facts(s)
  /\ request[s].kind = "delete" =>
       \A z \in AllCalls \ {s} :
         stage[z] \in {"insert", "line"} \cup DeleteStages /\ request[z].product = request[s].product =>
           <<"rival">> \in Facts(s)
  /\ request[s].kind = "delete" => <<"edits", edits>> \in Facts(s)
  /\ request[s].kind = "members" =>
       \A k \in Stores : \A u \in MembersOf(k) : <<"member", k, u>> \in Facts(s)
  /\ request[s].kind = "customers" =>
       \A u \in Users, k \in Stores :
         <<"active", u, OrdersAt(u, k), FavoritesAt(u, k), k>> \in Facts(s)

CustomerFacts(c) ==
  /\ request[c].kind = "list" =>
       \A p \in Products :
         <<IF /\ product[p] = "shown" /\ StoreOf[p] = request[c].store
              /\ \E z \in favorite : z.customer = request[c].customer /\ z.product = p
           THEN "liked" ELSE "not", p>> \in Facts(c)
  /\ request[c].kind = "add" =>
       /\ \A r \in Mine(c) : <<"kept", r.id>> \in Facts(c)
       /\ Mine(c) = {} => <<"unkept">> \in Facts(c)
       /\ ~OnSale(request[c].product, request[c].store) => <<"offsale">> \in Facts(c)
       /\ ~Exists(request[c].product) => <<"gone">> \in Facts(c)
       /\ <<"edits", edits>> \in Facts(c)

LEMMA SellersFacts == \A s \in SellerCalls : SellerFacts(s)
<1> SUFFICES ASSUME NEW s \in SellerCalls PROVE SellerFacts(s)
  OBVIOUS
<1>0. s \notin Calls
  BY KindsAreApart
<1>1. /\ \A k \in StoreNamed(request[s].slug) : <<"named", k>> \in Facts(s)
      /\ \A k \in Stores : <<"holds", k, membership[<<request[s].user, k>>]>> \in Facts(s)
      /\ StoreNamed(request[s].slug) = {} => <<"nowhere">> \in Facts(s)
      /\ ~Exists(request[s].product) => <<"gone">> \in Facts(s)
  BY <1>0 DEF Facts
<1>2. ASSUME request[s].kind = "delete", NEW z \in AllCalls \ {s},
             stage[z] \in {"insert", "line"} \cup DeleteStages, request[z].product = request[s].product
      PROVE  <<"rival">> \in Facts(s)
  BY <1>0, <1>2 DEF Facts
<1>3. ASSUME request[s].kind = "members", NEW k \in Stores, NEW u \in MembersOf(k)
      PROVE  <<"member", k, u>> \in Facts(s)
  BY <1>0, <1>3 DEF Facts
<1>4. ASSUME request[s].kind = "customers", NEW u \in Users, NEW k \in Stores
      PROVE  <<"active", u, OrdersAt(u, k), FavoritesAt(u, k), k>> \in Facts(s)
  BY <1>0, <1>4 DEF Facts
<1>5. request[s].kind = "delete" => <<"edits", edits>> \in Facts(s)
  BY <1>0 DEF Facts
<1>6. QED  BY <1>1, <1>2, <1>3, <1>4, <1>5 DEF SellerFacts

LEMMA CustomersFacts == \A c \in Calls : CustomerFacts(c)
<1> SUFFICES ASSUME NEW c \in Calls PROVE CustomerFacts(c)
  OBVIOUS
<1>1. CASE request[c].kind = "list"
  BY <1>1 DEF CustomerFacts, Facts
<1>2. CASE request[c].kind = "add"
  BY <1>2 DEF CustomerFacts, Facts
<1>3. QED  BY <1>1, <1>2 DEF CustomerFacts

\* What holds when a call is open, or after its step, is in its history after the step.
LEMMA FactsAreKept ==
  ASSUME Shape, Watched, Watch, NEW c \in AllCalls, Open(c)
  PROVE  Facts(c) \subseteq during'[c] /\ Facts(c)' \subseteq during'[c] /\ during[c] \subseteq during'[c]
  BY WatchGrows DEF Watched

LEMMA SellersFactsNext == (\A s \in SellerCalls : SellerFacts(s))'
  BY SellersFacts, PTL
LEMMA CustomersFactsNext == (\A c \in Calls : CustomerFacts(c))'
  BY CustomersFacts, PTL

LEMMA WatchedStep == ASSUME Shape, Watch PROVE Watched'
  BY WatchGrows DEF Watched

\* The favorites that an open delete has doomed are its own business.
LEMMA DoomedGoOn ==
  ASSUME Shape, TypeOK, CallsInv, Step, NEW s \in SellerCalls, stage'[s] \in {"null", "row", "commit"}
  PROVE  \/ stage[s] \in {"null", "row", "commit"} /\ doomed'[s] = doomed[s]
         \/ ClearFavorites(s)
<1>0. s \in AllCalls /\ doomed \in [SellerCalls -> SUBSET favorite]
  BY KindsAreApart DEF TypeOK, FavoritesTypeOK
<1>1. ASSUME NEW c \in Calls, CustomerStep(c)
      PROVE  stage[s] \in {"null", "row", "commit"} /\ doomed'[s] = doomed[s]
  <2>1. stage'[s] = stage[s]
    BY <1>0, <1>1, CustomerMoves, KindsAreApart DEF Moves, CallsInv
  <2>2. doomed' = doomed
    BY <1>1 DEF CustomerStep, Add, Wish, FindProduct, GetFavorite, InsertFavorite, GetAgain, ReloadProduct,
                RenderProduct, PlaceLine, RemoveFavorite, MyFavorites, tables
  <2>3. QED  BY <2>1, <2>2
<1>2. ASSUME NEW z \in SellerCalls, Admit(z)
      PROVE  stage[s] \in {"null", "row", "commit"} /\ doomed'[s] = doomed[s]
  <2>1. Moves(z) /\ doomed' = doomed
    BY <1>2, AdmitMoves DEF tables, CallsInv
  <2>2. CASE z # s
    BY <1>0, <2>1, <2>2 DEF Moves
  <2>3. CASE z = s
    <3>1. stage[s] \in {"idle", "store", "member", "members", "customers", "gate", "whoami"}
      BY <1>2, <2>3 DEF Admit, Come, FindStore, RequireMembership, ListMembers, ListCustomers, PassGate,
                        TellStanding
    <3>2. request[s] # None /\ stage[s] = "idle" => request[s].kind \in StoreKinds \cup GateKinds
      BY RequestTypes DEF TypeOK, FavoritesTypeOK, Errands
    <3>3. stage'[s] \notin {"null", "row", "commit"}
      <4> USE DEF Goto, Answer, Tell, Shape, StoreKinds, GateKinds
      <4>1. CASE Come(s)
        BY <1>0, <3>2, <4>1 DEF Come
      <4>2. CASE FindStore(s) \/ ListMembers(s) \/ ListCustomers(s) \/ PassGate(s) \/ TellStanding(s)
        BY <1>0, <4>2 DEF FindStore, ListMembers, ListCustomers, PassGate, TellStanding
      <4>3. CASE RequireMembership(s)
        BY <1>0, <4>3 DEF RequireMembership
      <4>4. QED  BY <1>2, <2>3, <4>1, <4>2, <4>3 DEF Admit
    <3>4. QED  BY <3>3
  <2>4. QED  BY <2>2, <2>3
<1>3. ASSUME NEW z \in SellerCalls, z # s, WriteCatalog(z)
      PROVE  stage[s] \in {"null", "row", "commit"} /\ doomed'[s] = doomed[s]
  <2>1. stage'[s] = stage[s]
    BY <1>0, <1>3, CatalogMoves DEF Moves
  <2>2. doomed'[s] = doomed[s]
    BY <1>0, <1>3 DEF WriteCatalog, DeleteStep, LoadProduct, SaveProduct, RenderProduct, ClearFavorites,
                      DetachLines, RemoveRow, Deadlock, CommitDelete, Crash, End, tables
  <2>3. QED  BY <2>1, <2>2
<1>4. CASE WriteCatalog(s)
  <2> USE DEF Goto, Answer, Shape
  <2>1. CASE LoadProduct(s, place[s]) \/ SaveProduct(s) \/ RenderProduct(s)
    BY <1>0, <2>1 DEF LoadProduct, SaveProduct, RenderProduct
  <2>2. CASE DetachLines(s) \/ RemoveRow(s)
    BY <1>0, <2>2 DEF DetachLines, RemoveRow, tables
  <2>3. CASE Deadlock(s) \/ CommitDelete(s) \/ Crash(s)
    BY <1>0, <2>3 DEF Deadlock, CommitDelete, Crash
  <2>4. QED  BY <1>4, <2>1, <2>2, <2>3 DEF WriteCatalog, DeleteStep
<1>5. CASE EditAdmin
  BY <1>5, EditRests
<1>6. QED  BY <1>1, <1>2, <1>3, <1>4, <1>5 DEF Step

\* Who was open before and after an edit has seen it.
LEMMA EditIsSeen ==
  ASSUME Shape, TypeOK, CallsInv, Watched, Step, Watch, Edit, NEW c \in AllCalls, Open(c),
         <<"edits", edits>> \in Facts(c), (<<"edits", edits>> \in Facts(c))'
  PROVE  Edited(c)'
<1>1. edits \in 0..MaxActors /\ edits' \in 0..MaxActors /\ edits' = edits + 1
  BY AdminTyped DEF TypeOK, Edit
<1>2. <<"edits", edits>> \in during'[c] /\ <<"edits", edits'>> \in during'[c]
  BY FactsAreKept
<1>3. edits # edits'
  BY <1>1
<1>4. QED  BY <1>1, <1>2, <1>3 DEF Edited

LEMMA EditedStays ==
  ASSUME Shape, Watch, NEW c \in AllCalls, Edited(c)
  PROVE  Edited(c)'
  BY WatchGrows DEF Edited

\* A favorite that a delete has not cleared has a rival behind it ...
LEMMA UnclearedStep ==
  ASSUME Shape, TypeOK, CallsInv, Watched, RivalsSeen, Step, Watch,
         NEW s \in SellerCalls, stage'[s] \in {"null", "row", "commit"}
  PROVE  RowsOf(request[s].product)' \subseteq doomed'[s] \/ <<"rival">> \in during'[s]
<1>0. s \in AllCalls /\ request' = request /\ during[s] \subseteq during'[s]
  BY KindsAreApart, RequestRests, ReadsHold, WatchGrows
<1>1. CASE ClearFavorites(s)
  BY <1>0, <1>1 DEF ClearFavorites, RowsOf, TypeOK, FavoritesTypeOK
<1>2. CASE stage[s] \in {"null", "row", "commit"} /\ doomed'[s] = doomed[s]
  <2>1. CASE <<"rival">> \in during[s]
    BY <1>0, <2>1
  <2>2. CASE RowsOf(request[s].product) \subseteq doomed[s] /\ favorite' \subseteq favorite
    BY <1>0, <1>2, <2>2 DEF RowsOf
  <2>3. ASSUME RowsOf(request[s].product) \subseteq doomed[s],
               NEW c \in Calls, InsertFavorite(c),
               favorite' = favorite \cup {[id |-> c, customer |-> request[c].customer,
                                           store |-> request[c].store, product |-> request[c].product]}
        PROVE  RowsOf(request[s].product)' \subseteq doomed'[s] \/ <<"rival">> \in during'[s]
    <3>1. CASE request[c].product # request[s].product
      BY <1>0, <1>2, <2>3, <3>1 DEF RowsOf
    <3>2. CASE request[c].product = request[s].product
      <4>1. c \in AllCalls \ {s} /\ stage[c] = "insert" /\ Open(s)
        BY <1>2, <2>3, KindsAreApart DEF InsertFavorite, Open
      <4>2. request[s].kind = "delete"
        BY <1>2 DEF CallsInv, SellerReads, DeleteStages
      <4>3. <<"rival">> \in Facts(s)
        BY <3>2, <4>1, <4>2, SellersFacts DEF SellerFacts
      <4>4. QED  BY <1>0, <4>1, <4>3, FactsAreKept
    <3>3. QED  BY <3>1, <3>2
  <2>4. QED  BY <1>2, <2>1, <2>2, <2>3, FavoritesComeFrom DEF RivalsSeen
<1>3. QED  BY <1>1, <1>2, DoomedGoOn

\* ... and so has a line; an image has an edit.
LEMMA LateStep ==
  ASSUME Shape, TypeOK, CallsInv, Watched, RivalsSeen, Step, Watch, NEW s \in SellerCalls, s \in late'
  PROVE  <<"rival">> \in during'[s] \/ Edited(s)'
<1>0. s \in AllCalls /\ s \notin Calls /\ during[s] \subseteq during'[s]
  BY KindsAreApart, WatchGrows
<1>1. CASE s \in late
  BY <1>0, <1>1, EditedStays DEF RivalsSeen
<1>2. ASSUME NEW c \in Calls, PlaceLine(c), s \in DeletesAt(request[c].product, {"row"})
      PROVE  <<"rival">> \in during'[s]
  <2>1. stage[s] = "row" /\ request[s].product = request[c].product /\ stage[c] = "line"
    BY <1>2 DEF DeletesAt, PlaceLine
  <2>2. Open(s) /\ request[s].kind = "delete" /\ c \in AllCalls \ {s}
    BY <1>0, <2>1, KindsAreApart DEF Open, CallsInv, SellerReads, DeleteStages
  <2>3. <<"rival">> \in Facts(s)
    BY <2>1, <2>2, SellersFacts DEF SellerFacts
  <2>4. QED  BY <1>0, <2>2, <2>3, FactsAreKept
<1>3. ASSUME NEW p \in Products, AddImage(p), s \in DeletesAt(p, {"null", "row"})
      PROVE  Edited(s)'
  <2>1. stage[s] \in {"null", "row"} /\ Edit
    BY <1>3 DEF DeletesAt, AddImage
  <2>2. Open(s) /\ request[s].kind = "delete" /\ request' = request
    BY <2>1 DEF Open, CallsInv, SellerReads, DeleteStages, Edit
  <2>3. <<"edits", edits>> \in Facts(s)
    BY <2>2, SellersFacts DEF SellerFacts
  <2>4. (<<"edits", edits>> \in Facts(s))'
    BY <2>2, SellersFactsNext DEF SellerFacts
  <2>5. QED  BY <1>0, <2>1, <2>2, <2>3, <2>4, EditIsSeen
<1>4. QED  BY <1>1, <1>2, <1>3, FlagsComeFrom DEF AddImage

LEMMA RivalsStep ==
  ASSUME Shape, TypeOK, CallsInv, Watched, RivalsSeen, Step, Watch
  PROVE  RivalsSeen'
  BY UnclearedStep, LateStep DEF RivalsSeen

LEMMA StraysStep ==
  ASSUME Shape, TypeOK, CallsInv, Watched, StraysSeen, Step, Watch
  PROVE  StraysSeen'
<1> SUFFICES ASSUME NEW c \in Calls, c \in astray' PROVE Edited(c)'
  BY DEF StraysSeen
<1>0. c \in AllCalls /\ c \notin SellerCalls
  BY KindsAreApart
<1>1. CASE c \in astray
  BY <1>0, <1>1, EditedStays DEF StraysSeen
<1>2. ASSUME NEW p \in Products, EraseCategory(p), c \in Holding(p)
      PROVE  Edited(c)'
  <2>1. stage[c] \in {"get", "insert", "save", "render"} /\ Edit
    BY <1>2 DEF Holding, EraseCategory
  <2>2. stage[c] \in {"get", "insert", "render"}
    BY <2>1 DEF TypeOK, FavoritesTypeOK, CustomerStages
  <2>3. Open(c) /\ request[c].kind = "add" /\ request' = request
    BY <2>1, <2>2 DEF Open, CallsInv, CustomerReads, Edit
  <2>4. <<"edits", edits>> \in Facts(c)
    BY <2>3, CustomersFacts DEF CustomerFacts
  <2>5. (<<"edits", edits>> \in Facts(c))'
    BY <2>3, CustomersFactsNext DEF CustomerFacts
  <2>6. QED  BY <1>0, <2>1, <2>3, <2>4, <2>5, EditIsSeen
<1>3. QED  BY <1>1, <1>2, FlagsComeFrom DEF EraseCategory

LEMMA FreshStep ==
  ASSUME Shape, TypeOK, CallsInv, FreshIds, Step
  PROVE  FreshIds'
<1>0. AllRead /\ \A r \in favorite : r.id \in Calls /\ r.id \in AllCalls
  BY ReadsHold, KindsAreApart DEF TypeOK, FavoritesTypeOK, Rows
<1>1. ASSUME NEW r \in favorite PROVE stage'[r.id] \in {"render", "done"}
  <2>1. CASE Rests(r.id)
    BY <2>1 DEF Rests, FreshIds
  <2>2. CASE CustomerStep(r.id)
    <3>1. stage[r.id] \in {"render", "done"}
      BY DEF FreshIds
    <3>2. stage[r.id] = "render"
      BY <1>0, <2>2, <3>1, CustomerMoves DEF AllRead
    <3>3. RenderProduct(r.id)
      BY <2>2, <3>2 DEF CustomerStep, Add, Wish, FindProduct, GetFavorite, InsertFavorite, GetAgain, ReloadProduct,
                        PlaceLine, RemoveFavorite, MyFavorites
    <3>4. QED  BY <1>0, <3>3, AnswerMoves DEF RenderProduct
  <2>3. QED  BY <1>0, <2>1, <2>2, CallsGoOn, KindsAreApart
<1>2. ASSUME NEW c \in Calls, InsertFavorite(c), Mine(c) = {}, Exists(request[c].product)
      PROVE  stage'[c] = "render"
  <2>1. Goto(c, "render")
    BY <1>2 DEF InsertFavorite
  <2>2. QED  BY <2>1, KindsAreApart DEF Goto, Shape
<1>3. QED  BY <1>1, <1>2, FavoritesComeFrom DEF FreshIds

-----------------------------------------------------------------------------
(* The calls of customers *)

CustomerInv(c) == CustomerReads(c) /\ CustomerAnswers(c)

LEMMA CustomerRests ==
  ASSUME NEW c \in Calls, CustomerInv(c), Rests(c), request' = request, during[c] \subseteq during'[c]
  PROVE  CustomerInv(c)'
<1>1. CustomerReads(c)'
  BY DEF CustomerInv, CustomerReads, Rests
<1>2. CustomerAnswers(c)'
  BY DEF CustomerInv, CustomerAnswers, Rests, Replied, Edited
<1>3. QED  BY <1>1, <1>2 DEF CustomerInv

\* Who has not been answered has no answer to justify.
LEMMA CustomerWaits ==
  ASSUME Shape, TypeOK, NEW c \in Calls, stage[c] # "done", answer'[c] = answer[c], CustomerReads(c)'
  PROVE  CustomerInv(c)'
<1>1. answer'[c] = None
  BY KindsAreApart DEF TypeOK, FavoritesTypeOK
<1>2. CustomerAnswers(c)'
  BY <1>1, NoneIsNoCode DEF CustomerAnswers, Replied
<1>3. QED  BY <1>2 DEF CustomerInv

LEMMA CustomerStepInv ==
  ASSUME TenancyInv, Watch, NEW c \in Calls, CustomerStep(c)
  PROVE  CustomerInv(c)'
<1>0. /\ Shape /\ TypeOK /\ Watched /\ c \in AllCalls
      /\ CustomerReads(c) /\ CustomerFacts(c) /\ FavoritesReferenceProducts
  BY KindsAreApart, CustomersFacts DEF TenancyInv, CallsInv, FavoritesAreSound
<1>i. \A r \in Mine(c) : r.id \in Calls /\ (stage[c] \notin {"render", "done"} => r.id # c)
  BY DEF TenancyInv, FreshIds, TypeOK, FavoritesTypeOK, Rows, Mine
<1>m. request' = request
  BY <1>0, CustomerMoves DEF Moves
<1>f. ASSUME Open(c)
      PROVE  Facts(c) \subseteq during'[c] /\ Facts(c)' \subseteq during'[c] /\ during[c] \subseteq during'[c]
  BY <1>0, <1>f, FactsAreKept
<1>1. CASE Wish(c)
  <2>1. request[c] \in Asked /\ stage[c] = "idle"
    BY <1>0, <1>1, RequestTypes DEF Wish, TypeOK, FavoritesTypeOK
  <2>2. \/ request[c].kind \in {"add", "order"} /\ Goto(c, "find")
        \/ request[c].kind = "remove" /\ Goto(c, "remove")
        \/ request[c].kind = "list" /\ Goto(c, "list")
    BY <1>1, <2>1 DEF Wish, Opening, Asked
  <2>3. \/ request[c].kind \in {"add", "order"} /\ stage'[c] = "find"
        \/ request[c].kind = "remove" /\ stage'[c] = "remove"
        \/ request[c].kind = "list" /\ stage'[c] = "list"
    BY <1>0, <2>2 DEF Goto, Shape
  <2>4. CustomerReads(c)'
    BY <1>m, <2>1, <2>3 DEF CustomerReads
  <2>5. answer'[c] = answer[c]
    BY <2>2 DEF Goto
  <2>6. QED  BY <1>0, <2>1, <2>4, <2>5, CustomerWaits
<1>2. CASE FindProduct(c)
  <2>1. stage[c] = "find" /\ Open(c) /\ request[c].kind \in {"add", "order"} /\ request[c] \in Asked
    BY <1>0, <1>2 DEF FindProduct, Open, CustomerReads
  <2>2. CASE OnSale(request[c].product, request[c].store)
    <3>1. \/ request[c].kind = "add" /\ Goto(c, "get")
          \/ request[c].kind = "order" /\ Goto(c, "line")
      BY <1>2, <2>1, <2>2 DEF FindProduct, Found
    <3>2. /\ answer'[c] = answer[c]
          /\ \/ request[c].kind = "add" /\ stage'[c] = "get"
             \/ request[c].kind = "order" /\ stage'[c] = "line"
      BY <1>0, <3>1 DEF Goto, Shape
    <3>3. StoreOf[request[c].product] = request[c].store
      BY <2>2 DEF OnSale
    <3>4. CustomerReads(c)'
      BY <1>m, <2>1, <3>2, <3>3 DEF CustomerReads
    <3>5. QED  BY <1>0, <2>1, <3>2, <3>4, CustomerWaits
  <2>3. CASE ~OnSale(request[c].product, request[c].store)
    <3>1. stage'[c] = "done" /\ answer'[c] = 404
      BY <1>0, <1>2, <2>3 DEF FindProduct, Answer, Shape
    <3>2. request[c].kind = "add" => <<"offsale">> \in during'[c]
      BY <1>0, <1>f, <2>1, <2>3 DEF CustomerFacts
    <3>3. QED  BY <1>m, <2>1, <3>1, <3>2 DEF CustomerInv, CustomerReads, CustomerAnswers, Replied
  <2>4. QED  BY <2>2, <2>3
<1>3. CASE GetFavorite(c)
  <2>1. stage[c] = "get" /\ Open(c) /\ request[c].kind = "add" /\ request[c] \in Asked
        /\ StoreOf[request[c].product] = request[c].store
    BY <1>0, <1>3 DEF GetFavorite, Open, CustomerReads
  <2>2. answer'[c] = answer[c] /\ stage'[c] = IF Mine(c) = {} THEN "insert" ELSE "reload"
    BY <1>0, <1>3 DEF GetFavorite, Goto, Shape
  <2>3. Mine(c) # {} => \E d \in Calls : <<"kept", d>> \in during'[c]
    BY <1>0, <1>f, <1>i, <2>1 DEF CustomerFacts
  <2>4. CustomerReads(c)'
    BY <1>m, <2>1, <2>2, <2>3 DEF CustomerReads
  <2>5. QED  BY <1>0, <2>1, <2>2, <2>4, CustomerWaits
<1>4. CASE InsertFavorite(c)
  <2>1. stage[c] = "insert" /\ Open(c) /\ request[c].kind = "add" /\ request[c] \in Asked
        /\ StoreOf[request[c].product] = request[c].store
    BY <1>0, <1>4 DEF InsertFavorite, Open, CustomerReads
  <2>2. CASE Goto(c, "again") /\ (Mine(c) # {} \/ ~Exists(request[c].product))
    <3>1. answer'[c] = answer[c] /\ stage'[c] = "again"
      BY <1>0, <2>2 DEF Goto, Shape
    <3>2. <<"gone">> \in during'[c] \/ \E d \in Calls \ {c} : <<"kept", d>> \in during'[c]
      BY <1>0, <1>f, <1>i, <2>1, <2>2 DEF CustomerFacts
    <3>3. CustomerReads(c)'
      BY <1>m, <2>1, <3>1, <3>2 DEF CustomerReads
    <3>4. QED  BY <1>0, <2>1, <3>1, <3>3, CustomerWaits
  <2>3. CASE /\ Goto(c, "render")
             /\ favorite' = favorite \cup {[id |-> c, customer |-> request[c].customer,
                                            store |-> request[c].store, product |-> request[c].product]}
    <3>1. stage'[c] = "render" /\ answer'[c] = answer[c]
      BY <1>0, <2>3 DEF Goto, Shape
    <3> DEFINE new == [id |-> c, customer |-> request[c].customer,
                       store |-> request[c].store, product |-> request[c].product]
    <3>n. /\ new \in favorite' /\ new.customer = request[c].customer
          /\ new.store = request[c].store /\ new.product = request[c].product /\ new.id = c
      BY <2>3
    <3> HIDE DEF new
    <3>2. new \in Mine(c)'
      BY <1>m, <3>n DEF Mine
    <3>3. <<"kept", c>> \in Facts(c)'
      BY <1>m, <2>1, <3>n, <3>2, CustomersFactsNext DEF CustomerFacts
    <3>4. <<"kept", c>> \in during'[c]
      BY <1>f, <2>1, <3>3
    <3>5. CustomerReads(c)'
      BY <1>m, <2>1, <3>1, <3>4 DEF CustomerReads
    <3>6. QED  BY <1>0, <2>1, <3>1, <3>5, CustomerWaits
  <2>4. QED  BY <1>4, <2>2, <2>3 DEF InsertFavorite
<1>5. CASE GetAgain(c)
  <2>1. stage[c] = "again" /\ Open(c) /\ request[c].kind = "add" /\ request[c] \in Asked
        /\ StoreOf[request[c].product] = request[c].store
        /\ (<<"gone">> \in during'[c] \/ \E d \in Calls \ {c} : <<"kept", d>> \in during'[c])
    BY <1>0, <1>5, <1>f DEF GetAgain, Open, CustomerReads
  <2>2. CASE Mine(c) = {}
    <3>1. stage'[c] = "done" /\ answer'[c] = 500
      BY <1>0, <1>5, <2>2 DEF GetAgain, Answer, Shape
    <3>2. <<"unkept">> \in during'[c]
      BY <1>0, <1>f, <2>1, <2>2 DEF CustomerFacts
    <3>3. QED  BY <1>m, <2>1, <3>1, <3>2 DEF CustomerInv, CustomerReads, CustomerAnswers, Replied
  <2>3. CASE Mine(c) # {}
    <3>1. stage'[c] = "reload" /\ answer'[c] = answer[c]
      BY <1>0, <1>5, <2>3 DEF GetAgain, Goto, Shape
    <3>2. \E d \in Calls : <<"kept", d>> \in during'[c]
      BY <1>0, <1>f, <1>i, <2>1, <2>3 DEF CustomerFacts
    <3>3. CustomerReads(c)'
      BY <1>m, <2>1, <3>1, <3>2 DEF CustomerReads
    <3>4. QED  BY <1>0, <2>1, <3>1, <3>3, CustomerWaits
  <2>4. QED  BY <2>2, <2>3
<1>6. CASE ReloadProduct(c)
  <2>1. stage[c] = "reload" /\ Open(c) /\ request[c].kind = "add" /\ request[c] \in Asked
        /\ \E d \in Calls : <<"kept", d>> \in during'[c]
    BY <1>0, <1>6, <1>f DEF ReloadProduct, Open, CustomerReads
  <2>2. CASE Exists(request[c].product)
    <3>1. stage'[c] = "render" /\ answer'[c] = answer[c]
      BY <1>0, <1>6, <2>2 DEF ReloadProduct, Goto, Shape
    <3>2. CustomerReads(c)'
      BY <1>m, <2>1, <3>1 DEF CustomerReads
    <3>3. QED  BY <1>0, <2>1, <3>1, <3>2, CustomerWaits
  <2>3. CASE ~Exists(request[c].product)
    <3>1. stage'[c] = "done" /\ answer'[c] = 500
      BY <1>0, <1>6, <2>3 DEF ReloadProduct, Answer, Shape
    <3>2. <<"gone">> \in during'[c]
      BY <1>0, <1>f, <2>1, <2>3 DEF CustomerFacts
    <3>3. QED  BY <1>m, <2>1, <3>1, <3>2 DEF CustomerInv, CustomerReads, CustomerAnswers, Replied
  <2>4. QED  BY <2>2, <2>3
<1>9. CASE RenderProduct(c)
  <2>1. stage[c] = "render" /\ Open(c) /\ request[c].kind = "add" /\ request[c] \in Asked
        /\ \E d \in Calls : <<"kept", d>> \in during'[c]
    BY <1>0, <1>9, <1>f DEF RenderProduct, Open, CustomerReads
  <2>2. stage'[c] = "done" /\ answer'[c] = IF c \in astray THEN 500 ELSE 201
    BY <1>0, <1>9 DEF RenderProduct, Answer, Shape
  <2>3. c \in astray => Edited(c)'
    BY <1>0, EditedStays DEF TenancyInv, StraysSeen
  <2>4. CustomerReads(c)'
    BY <1>m, <2>1, <2>2 DEF CustomerReads
  <2>5. CustomerAnswers(c)'
    BY <1>m, <2>1, <2>2, <2>3 DEF CustomerAnswers, Replied
  <2>6. QED  BY <2>4, <2>5 DEF CustomerInv
<1>10. CASE PlaceLine(c)
  <2>1. request[c].kind = "order" /\ request[c] \in Asked
    BY <1>0, <1>10 DEF PlaceLine, CustomerReads
  <2>2. stage'[c] = "done" /\ answer'[c] \in {201, 500}
    BY <1>0, <1>10 DEF PlaceLine, Answer, Shape
  <2>3. CustomerReads(c)'
    BY <1>m, <2>1, <2>2 DEF CustomerReads
  <2>4. CustomerAnswers(c)'
    BY <1>m, <2>1, <2>2 DEF CustomerAnswers, Replied
  <2>5. QED  BY <2>3, <2>4 DEF CustomerInv
<1>7. CASE RemoveFavorite(c)
  <2>1. request[c].kind = "remove" /\ request[c] \in Asked
    BY <1>0, <1>7 DEF RemoveFavorite, CustomerReads
  <2>2. stage'[c] = "done" /\ answer'[c] = 204
    BY <1>0, <1>7 DEF RemoveFavorite, Answer, Shape
  <2>3. QED  BY <1>m, <2>1, <2>2 DEF CustomerInv, CustomerReads, CustomerAnswers, Replied
<1>8. CASE MyFavorites(c)
  <2>1. stage[c] = "list" /\ Open(c) /\ request[c].kind = "list" /\ request[c] \in Asked
    BY <1>0, <1>8 DEF MyFavorites, Open, CustomerReads
  <2>2. stage'[c] = "done" /\ answer'[c] = 200 /\ told'[c] = FavoriteProducts(c)
    BY <1>0, <1>8 DEF MyFavorites, Tell, Shape
  <2>3. ASSUME NEW p \in Products
        PROVE  p \in FavoriteProducts(c) <=>
                 /\ product[p] = "shown" /\ StoreOf[p] = request[c].store
                 /\ \E z \in favorite : z.customer = request[c].customer /\ z.product = p
    BY <1>0 DEF FavoriteProducts, FavoritesReferenceProducts
  <2>4. \A p \in Products : <<IF p \in told'[c] THEN "liked" ELSE "not", p>> \in during'[c]
    BY <1>0, <1>f, <2>1, <2>2, <2>3 DEF CustomerFacts
  <2>5. QED  BY <1>m, <2>1, <2>2, <2>4 DEF CustomerInv, CustomerReads, CustomerAnswers, Replied
<1>11. QED  BY <1>1, <1>2, <1>3, <1>4, <1>5, <1>6, <1>7, <1>8, <1>9, <1>10 DEF CustomerStep, Add

-----------------------------------------------------------------------------
(* The calls of sellers *)

SellerInv(s) == SellerReads(s) /\ SellerAnswers(s)

LEMMA SellerRests ==
  ASSUME NEW s \in SellerCalls, SellerInv(s), Rests(s), request' = request, during[s] \subseteq during'[s]
  PROVE  SellerInv(s)'
<1>1. SellerReads(s)'
  BY DEF SellerInv, SellerReads, Rests, Held
<1>2. Refusals(s)'
  <2>0. Refusals(s) /\ answer'[s] = answer[s]
    BY DEF SellerInv, SellerAnswers, Rests
  <2>1. CASE Replied(s, 403) /\ request[s].kind \in StoreKinds
    <3>1. /\ request[s].kind = "members" => Held(s, {None, "staff"}) # {}
          /\ request[s].kind # "members" => Held(s, {None}) # {}
      BY <2>0, <2>1 DEF Refusals
    <3>2. /\ request[s].kind = "members" => Held(s, {None, "staff"})' # {}
          /\ request[s].kind # "members" => Held(s, {None})' # {}
      BY <3>1 DEF Held
    <3>3. request[s].kind # "gate"
      BY <2>1 DEF StoreKinds
    <3>4. QED  BY <2>0, <2>1, <3>2, <3>3 DEF Refusals, Replied
  <2>2. CASE ~(Replied(s, 403) /\ request[s].kind \in StoreKinds)
    BY <2>0, <2>2 DEF Refusals, Replied, Held
  <2>3. QED  BY <2>1, <2>2
<1>3. Lists(s)'
  BY DEF SellerInv, SellerAnswers, Lists, Rests, Replied, Held
<1>4. Gates(s)'
  BY DEF SellerInv, SellerAnswers, Gates, Rests, Replied, Held
<1>5. Deletes(s)'
  <2>1. Deletes(s) /\ answer'[s] = answer[s]
    BY DEF SellerInv, SellerAnswers, Rests
  <2>2. Edited(s) => Edited(s)'
    BY DEF Edited
  <2>3. QED  BY <2>1, <2>2 DEF Deletes, Replied
<1>6. QED  BY <1>1, <1>2, <1>3, <1>4, <1>5 DEF SellerInv, SellerAnswers

LEMMA SellerWaits ==
  ASSUME Shape, TypeOK, NEW s \in SellerCalls, stage[s] # "done", answer'[s] = answer[s], SellerReads(s)'
  PROVE  SellerInv(s)'
<1>1. answer'[s] = None
  BY KindsAreApart DEF TypeOK, FavoritesTypeOK
<1>2. Refusals(s)' /\ Lists(s)' /\ Gates(s)' /\ Deletes(s)'
  BY <1>1, NoneIsNoCode DEF Refusals, Lists, Gates, Deletes, Replied
<1>3. QED  BY <1>2 DEF SellerInv, SellerAnswers

\* What every action of a seller's call starts from.
SellerSetting(s) ==
  /\ Shape /\ TypeOK /\ s \in AllCalls /\ SellerReads(s) /\ SellerFacts(s) /\ request' = request
  /\ Open(s) => Facts(s) \subseteq during'[s] /\ Facts(s)' \subseteq during'[s] /\ during[s] \subseteq during'[s]

LEMMA SellerSets ==
  ASSUME TenancyInv, Watch, NEW s \in SellerCalls, Admit(s) \/ WriteCatalog(s)
  PROVE  SellerSetting(s)
<1>1. Shape /\ TypeOK /\ Watched /\ s \in AllCalls /\ SellerReads(s) /\ SellerFacts(s)
  BY KindsAreApart, SellersFacts DEF TenancyInv, CallsInv
<1>2. request' = request
  BY <1>1, AdmitMoves, CatalogMoves DEF Moves
<1>3. QED  BY <1>1, <1>2, FactsAreKept DEF SellerSetting

LEMMA ComeInv ==
  ASSUME NEW s \in SellerCalls, SellerSetting(s), Come(s)
  PROVE  SellerInv(s)'
<1>1. request[s] \in Errands /\ stage[s] = "idle"
  BY RequestTypes DEF SellerSetting, Come, TypeOK, FavoritesTypeOK
<1>2. request[s].kind \in StoreKinds \cup GateKinds
  BY <1>1 DEF Errands
<1>3. /\ answer'[s] = answer[s]
      /\ \/ request[s].kind \in StoreKinds /\ stage'[s] = "store"
         \/ request[s].kind \in GateKinds /\ stage'[s] = request[s].kind
  BY <1>2 DEF SellerSetting, Come, Goto, Shape
<1>4. SellerReads(s)'
  BY <1>1, <1>3 DEF SellerSetting, SellerReads, GateKinds, CatalogStages, DeleteStages
<1>5. QED  BY <1>1, <1>3, <1>4, SellerWaits DEF SellerSetting

LEMMA FindStoreInv ==
  ASSUME NEW s \in SellerCalls, SellerSetting(s), FindStore(s)
  PROVE  SellerInv(s)'
<1>1. /\ stage[s] = "store" /\ Open(s) /\ request[s] \in Errands /\ request[s].kind \in StoreKinds
      /\ request' = request
  BY DEF SellerSetting, FindStore, SellerReads, Open
<1>2. CASE StoreNamed(request[s].slug) = {}
  <2>1. stage'[s] = "done" /\ answer'[s] = 404
    BY <1>2 DEF SellerSetting, FindStore, Answer, Shape
  <2>2. <<"nowhere">> \in during'[s]
    BY <1>1, <1>2 DEF SellerSetting, SellerFacts
  <2>3. SellerReads(s)'
    BY <1>1, <2>1 DEF SellerReads, CatalogStages, DeleteStages
  <2>4. SellerAnswers(s)'
    BY <2>1, <2>2 DEF SellerAnswers, Refusals, Lists, Gates, Deletes, Replied
  <2>5. QED  BY <2>3, <2>4 DEF SellerInv
<1>3. CASE StoreNamed(request[s].slug) # {}
  <2> DEFINE k == CHOOSE z \in StoreNamed(request[s].slug) : TRUE
  <2>1. Goto(s, "member") /\ place' = [place EXCEPT ![s] = k]
    BY <1>3 DEF FindStore
  <2>2. k \in StoreNamed(request[s].slug) /\ k \in Stores
    BY <1>3 DEF StoreNamed
  <2> HIDE DEF k
  <2>3. stage'[s] = "member" /\ place'[s] = k /\ answer'[s] = answer[s]
    BY <2>1 DEF SellerSetting, Goto, Shape
  <2>4. <<"named", k>> \in during'[s]
    BY <1>1, <2>2 DEF SellerSetting, SellerFacts
  <2>5. SellerReads(s)'
    BY <1>1, <2>2, <2>3, <2>4 DEF SellerReads, CatalogStages, DeleteStages
  <2>6. QED  BY <1>1, <2>3, <2>5, SellerWaits DEF SellerSetting
<1>4. QED  BY <1>2, <1>3

\* What the capabilities ask for: only the members are for owners alone.
LEMMA Capabilities ==
  ASSUME NEW kind \in StoreKinds, NEW x \in Roles
  PROVE  HasPermission(x, Capability[kind]) <=> (kind = "members" => x = "owner")
<1>1. None \notin Governance
  BY TenancyAssumption DEF TenancyAssumption, Governance
<1>2. Capability[kind] \in Governance <=> kind = "members"
  BY <1>1 DEF Capability, StoreKinds, Governance
<1>3. QED  BY <1>2 DEF HasPermission

LEMMA RequireMembershipInv ==
  ASSUME NEW s \in SellerCalls, SellerSetting(s), RequireMembership(s)
  PROVE  SellerInv(s)'
<1> DEFINE k == place[s]
           role == membership[<<request[s].user, k>>]
<1>1. /\ stage[s] = "member" /\ Open(s) /\ request[s] \in Errands /\ request[s].kind \in StoreKinds
      /\ request' = request /\ k \in Stores /\ <<"named", k>> \in during'[s]
  BY DEF SellerSetting, RequireMembership, SellerReads, Open
<1>p. place' = place
  BY DEF RequireMembership, tenancyVars
<1>2. role \in Roles \cup {None}
  BY <1>1 DEF SellerSetting, TypeOK, Errands
<1>3. <<"holds", k, role>> \in during'[s]
  BY <1>1 DEF SellerSetting, SellerFacts
<1>4. \A roles : role \in roles => k \in Held(s, roles)'
  BY <1>1, <1>3 DEF Held
<1>5. RolesAt(request[s].user, place[s]) = {role} \ {None}
  BY DEF RolesAt
<1>6. CASE \A x \in {role} \ {None} : ~HasPermission(x, Capability[request[s].kind])
  <2>1. role = None \/ (request[s].kind = "members" /\ role = "staff")
    BY <1>1, <1>2, <1>6, Capabilities DEF Roles
  <2>2. stage'[s] = "done" /\ answer'[s] = 403
    BY <1>5, <1>6 DEF SellerSetting, RequireMembership, Answer, Shape
  <2> HIDE DEF k, role
  <2>3. SellerReads(s)'
    BY <1>1, <2>2 DEF SellerReads, CatalogStages, DeleteStages
  <2>4. Held(s, IF request[s].kind = "members" THEN {None, "staff"} ELSE {None})' # {}
    BY <1>1, <1>4, <2>1
  <2>5. Refusals(s)'
    BY <1>1, <2>2, <2>4 DEF Refusals, Replied, StoreKinds
  <2>6. Lists(s)' /\ Gates(s)' /\ Deletes(s)'
    BY <2>2 DEF Lists, Gates, Deletes, Replied
  <2>7. QED  BY <2>3, <2>5, <2>6 DEF SellerInv, SellerAnswers
<1>7. CASE ~(\A x \in {role} \ {None} : ~HasPermission(x, Capability[request[s].kind]))
  <2>1. role \in Roles /\ (request[s].kind = "members" => role = "owner")
    BY <1>1, <1>2, <1>7, Capabilities
  <2>2. k \in Held(s, Roles)' /\ (request[s].kind = "members" => k \in Held(s, {"owner"})')
    BY <1>4, <2>1
  <2>3. \/ request[s].kind = "me" /\ Tell(s, {slug[k]} \X {role})
        \/ request[s].kind \in {"update", "delete"} /\ Goto(s, "load")
        \/ request[s].kind \in {"members", "customers"} /\ Goto(s, request[s].kind)
    <3>1. {role} \ {None} = {role}
      BY <2>1, NoneIsApart
    <3>2. QED  BY <1>5, <1>7, <3>1 DEF RequireMembership
  <2>4. CASE request[s].kind = "me" /\ Tell(s, {slug[k]} \X {role})
    <3> HIDE DEF k, role
    <3>1. stage'[s] = "done" /\ answer'[s] = 200 /\ told'[s] = {slug[k]} \X {role}
      BY <2>4 DEF SellerSetting, Tell, Shape
    <3>2. <<slug[k], role>> \in told'[s] /\ <<slug[k], role>>[2] = role
      BY <3>1
    <3>4. \E x \in told'[s] : Held(s, {x[2]})' # {}
      BY <1>1, <1>3, <3>2 DEF Held
    <3>5. Gates(s)'
      BY <1>1, <2>4, <3>1, <3>4 DEF Gates, GateKinds
    <3>6. Refusals(s)' /\ Lists(s)' /\ Deletes(s)'
      BY <1>1, <2>4, <3>1 DEF Refusals, Lists, Deletes, Replied
    <3>7. SellerReads(s)'
      BY <1>1, <3>1 DEF SellerReads, CatalogStages, DeleteStages
    <3>8. QED  BY <3>5, <3>6, <3>7 DEF SellerInv, SellerAnswers
  <2>5. CASE ~(request[s].kind = "me")
    <3>1. /\ answer'[s] = answer[s]
          /\ \/ request[s].kind \in {"update", "delete"} /\ stage'[s] = "load"
             \/ request[s].kind \in {"members", "customers"} /\ stage'[s] = request[s].kind
      BY <2>3, <2>5 DEF SellerSetting, Goto, Shape
    <3>2. place'[s] = k
      BY <1>p
    <3> HIDE DEF k, role
    <3>3. SellerReads(s)'
      BY <1>1, <2>2, <3>1, <3>2 DEF SellerReads, CatalogStages, DeleteStages
    <3>4. QED  BY <1>1, <3>1, <3>3, SellerWaits DEF SellerSetting
  <2>6. QED  BY <2>3, <2>4, <2>5
<1>8. QED  BY <1>6, <1>7

\* An answer with a list, once all that it tells is justified.
LEMMA SellerTold ==
  ASSUME NEW s \in SellerCalls, SellerSetting(s), request[s] \in Errands, NEW x, Tell(s, x),
         request[s].kind \in {"members", "customers"} \cup GateKinds, (Lists(s) /\ Gates(s))'
  PROVE  SellerInv(s)'
<1>1. stage'[s] = "done" /\ answer'[s] = 200 /\ request' = request
  BY DEF SellerSetting, Tell, Shape
<1>2. SellerReads(s)'
  BY <1>1 DEF SellerReads, CatalogStages, DeleteStages
<1>3. Refusals(s)' /\ Deletes(s)'
  BY <1>1 DEF Refusals, Deletes, Replied, GateKinds
<1>4. QED  BY <1>2, <1>3 DEF SellerInv, SellerAnswers

LEMMA ListMembersInv ==
  ASSUME NEW s \in SellerCalls, SellerSetting(s), ListMembers(s)
  PROVE  SellerInv(s)'
<1> DEFINE k == place[s]
<1>1. /\ stage[s] = "members" /\ Open(s) /\ request[s] \in Errands /\ request[s].kind = "members"
      /\ request' = request /\ k \in Held(s, {"owner"})
  BY DEF SellerSetting, ListMembers, SellerReads, Open
<1>2. k \in Stores /\ k \in Held(s, {"owner"})'
  BY <1>1 DEF SellerSetting, Held
<1>3. Tell(s, MembersOf(k)) /\ told'[s] = MembersOf(k)
  BY DEF SellerSetting, ListMembers, Tell, Shape
<1>4. \A u \in MembersOf(k) : <<"member", k, u>> \in during'[s]
  BY <1>1, <1>2 DEF SellerSetting, SellerFacts
<1> HIDE DEF k
<1>5. Lists(s)'
  BY <1>1, <1>2, <1>3, <1>4 DEF Lists
<1>6. Gates(s)'
  BY <1>1 DEF Gates, GateKinds
<1>7. QED  BY <1>1, <1>3, <1>5, <1>6, SellerTold

\* Count(..., distinct=True) over the joined rows counts what there is to count at the store,
\* and who has nothing there is in no joined row of it.
LEMMA CountsMatch ==
  ASSUME Shape, TypeOK, NEW u, NEW k
  PROVE  /\ CountAt(Joined(u, k), 1, k) = OrdersAt(u, k) /\ OrdersAt(u, k) \in Nat
         /\ CountAt(Joined(u, k), 2, k) = FavoritesAt(u, k) /\ FavoritesAt(u, k) \in Nat
         /\ Joined(u, k) = {} <=> OrdersAt(u, k) = 0 /\ FavoritesAt(u, k) = 0
<1> DEFINE outer(S) == IF S = {} THEN {None} ELSE S
           J == Joined(u, k)
           O == {o \in OrdersOf(u) : o.store = k}
           F == {r \in FavoritesOf(u) : r.store = k}
<1>1. None \notin OrdersOf(u) /\ None \notin FavoritesOf(u)
  BY TenancyAssumption DEF TenancyAssumption, OrdersOf, FavoritesOf, TypeOK, FavoritesTypeOK
<1>2. \A j : j \in J <=> /\ j \in outer(OrdersOf(u)) \X outer(FavoritesOf(u))
                         /\ (j[1] # None /\ j[1].store = k) \/ (j[2] # None /\ j[2].store = k)
  BY DEF Joined
<1>3. PICK x \in outer(OrdersOf(u)) : TRUE
  OBVIOUS
<1>4. PICK y \in outer(FavoritesOf(u)) : TRUE
  OBVIOUS
<1>5. ASSUME NEW o \in O PROVE <<o, y>> \in J
  BY <1>1, <1>2, <1>4
<1>6. ASSUME NEW r \in F PROVE <<x, r>> \in J
  BY <1>1, <1>2, <1>3
<1>7. ASSUME NEW j \in J
      PROVE  /\ j[1] # None /\ j[1].store = k => j[1] \in O
             /\ j[2] # None /\ j[2].store = k => j[2] \in F
             /\ (j[1] # None /\ j[1].store = k) \/ (j[2] # None /\ j[2].store = k)
  BY <1>2
<1>8. {j[1] : j \in {z \in J : z[1] # None /\ z[1].store = k}} = O
  <2> DEFINE at == {z \in J : z[1] # None /\ z[1].store = k}
  <2>1. ASSUME NEW o \in O PROVE o \in {j[1] : j \in at}
    <3>1. <<o, y>> \in J /\ <<o, y>>[1] = o
      BY <1>5
    <3>2. o # None /\ o.store = k
      BY <1>1
    <3> HIDE DEF J, O
    <3>3. <<o, y>> \in at
      BY <3>1, <3>2
    <3>4. QED  BY <3>1, <3>3
  <2>2. \A j \in at : j[1] \in O
    BY <1>7
  <2> HIDE DEF at, O
  <2>3. {j[1] : j \in at} = O
    BY <2>1, <2>2
  <2>4. QED  BY <2>3 DEF at
<1>9. {j[2] : j \in {z \in J : z[2] # None /\ z[2].store = k}} = F
  <2> DEFINE at == {z \in J : z[2] # None /\ z[2].store = k}
  <2>1. ASSUME NEW r \in F PROVE r \in {j[2] : j \in at}
    <3>1. <<x, r>> \in J /\ <<x, r>>[2] = r
      BY <1>6
    <3>2. r # None /\ r.store = k
      BY <1>1
    <3> HIDE DEF J, F
    <3>3. <<x, r>> \in at
      BY <3>1, <3>2
    <3>4. QED  BY <3>1, <3>3
  <2>2. \A j \in at : j[2] \in F
    BY <1>7
  <2> HIDE DEF at, F
  <2>3. {j[2] : j \in at} = F
    BY <2>1, <2>2
  <2>4. QED  BY <2>3 DEF at
<1>10. J = {} <=> O = {} /\ F = {}
  BY <1>5, <1>6, <1>7
<1>11. IsFiniteSet(O) /\ IsFiniteSet(F)
  <2>1. O \subseteq Orders /\ F \subseteq favorite
    BY DEF OrdersOf, FavoritesOf
  <2>2. IsFiniteSet(Orders) /\ IsFiniteSet(favorite)
    BY TenancyAssumption DEF TenancyAssumption, Shape
  <2>3. QED  BY <2>1, <2>2, FS_Subset
<1>12. OrdersAt(u, k) = Cardinality(O) /\ FavoritesAt(u, k) = Cardinality(F)
  BY DEF OrdersAt, FavoritesAt
<1>13. CountAt(J, 1, k) = Cardinality(O) /\ CountAt(J, 2, k) = Cardinality(F)
  BY <1>8, <1>9 DEF CountAt
<1> HIDE DEF J, O, F
<1>14. /\ Cardinality(O) \in Nat /\ Cardinality(F) \in Nat
       /\ Cardinality(O) = 0 <=> O = {}
       /\ Cardinality(F) = 0 <=> F = {}
  BY <1>11, FS_CardinalityType, FS_EmptySet
<1>15. QED  BY <1>10, <1>12, <1>13, <1>14 DEF J

LEMMA ListCustomersInv ==
  ASSUME NEW s \in SellerCalls, SellerSetting(s), ListCustomers(s)
  PROVE  SellerInv(s)'
<1> DEFINE k == place[s]
           row(u) == [customer |-> u, orders |-> OrdersAt(u, k), favorites |-> FavoritesAt(u, k)]
<1>1. /\ stage[s] = "customers" /\ Open(s) /\ request[s] \in Errands /\ request[s].kind = "customers"
      /\ request' = request /\ k \in Held(s, Roles)
  BY DEF SellerSetting, ListCustomers, SellerReads, Open
<1>2. k \in Stores /\ k \in Held(s, Roles)'
  BY <1>1 DEF SellerSetting, Held
<1>3. Tell(s, StoreCustomers(k)) /\ told'[s] = StoreCustomers(k)
  BY DEF SellerSetting, ListCustomers, Tell, Shape
<1> HIDE DEF k
<1>4. \A u \in Users : <<"active", u, OrdersAt(u, k), FavoritesAt(u, k), k>> \in during'[s]
  BY <1>1, <1>2 DEF SellerSetting, SellerFacts
<1>5. Shape /\ TypeOK
  BY DEF SellerSetting
<1>6. StoreCustomers(k) = {row(u) : u \in {z \in Users : Joined(z, k) # {}}}
  BY <1>5, CountsMatch DEF StoreCustomers
<1>7. ASSUME NEW x \in StoreCustomers(k)
      PROVE  /\ x.orders + x.favorites > 0
             /\ <<"active", x.customer, x.orders, x.favorites, k>> \in during'[s]
  <2>1. PICK u \in Users : Joined(u, k) # {} /\ x = row(u)
    BY <1>6
  <2>2. OrdersAt(u, k) \in Nat /\ FavoritesAt(u, k) \in Nat /\ (OrdersAt(u, k) # 0 \/ FavoritesAt(u, k) # 0)
    BY <1>5, <2>1, CountsMatch
  <2>3. x.customer = u /\ x.orders = OrdersAt(u, k) /\ x.favorites = FavoritesAt(u, k)
    BY <2>1
  <2>4. QED  BY <1>4, <2>2, <2>3
<1>8. ASSUME NEW u \in Users, u \notin {x.customer : x \in StoreCustomers(k)}
      PROVE  <<"active", u, 0, 0, k>> \in during'[s]
  <2>1. Joined(u, k) = {}
    <3>1. SUFFICES ASSUME Joined(u, k) # {} PROVE FALSE
      OBVIOUS
    <3>2. row(u) \in StoreCustomers(k)
      BY <1>6, <3>1
    <3>3. row(u).customer = u
      OBVIOUS
    <3> HIDE DEF row
    <3>4. QED  BY <1>8, <3>2, <3>3
  <2>2. OrdersAt(u, k) = 0 /\ FavoritesAt(u, k) = 0
    BY <1>5, <2>1, CountsMatch
  <2>3. QED  BY <1>4, <2>2
<1>9. Lists(s)'
  BY <1>1, <1>2, <1>3, <1>7, <1>8 DEF Lists
<1>10. Gates(s)'
  BY <1>1 DEF Gates, GateKinds
<1>11. QED  BY <1>1, <1>3, <1>9, <1>10, SellerTold

LEMMA PassGateInv ==
  ASSUME NEW s \in SellerCalls, SellerSetting(s), PassGate(s)
  PROVE  SellerInv(s)'
<1>1. /\ stage[s] = "gate" /\ Open(s) /\ request[s] \in Errands /\ request[s].kind = "gate"
      /\ request' = request
  BY DEF SellerSetting, PassGate, SellerReads, Open
<1>2. \A k \in Stores : /\ membership[<<request[s].user, k>>] \in Roles \cup {None}
                        /\ <<"holds", k, membership[<<request[s].user, k>>]>> \in during'[s]
  BY <1>1 DEF SellerSetting, SellerFacts, TypeOK, Errands
<1>3. StandingOf(request[s].user) = {} <=> \A k \in Stores : membership[<<request[s].user, k>>] = None
  BY DEF StandingOf
<1>4. CASE StandingOf(request[s].user) = {}
  <2>1. stage'[s] = "done" /\ answer'[s] = 403
    BY <1>4 DEF SellerSetting, PassGate, Answer, Shape
  <2>2. \A k \in Stores : <<"holds", k, None>> \in during'[s]
    BY <1>2, <1>3, <1>4
  <2>3. SellerReads(s)'
    BY <1>1, <2>1 DEF SellerReads, CatalogStages, DeleteStages
  <2>4. Refusals(s)'
    BY <1>1, <2>1, <2>2 DEF Refusals, Replied, StoreKinds
  <2>5. Lists(s)' /\ Gates(s)' /\ Deletes(s)'
    BY <2>1 DEF Lists, Gates, Deletes, Replied
  <2>6. QED  BY <2>3, <2>4, <2>5 DEF SellerInv, SellerAnswers
<1>5. CASE StandingOf(request[s].user) # {}
  <2>1. stage'[s] = "whoami" /\ answer'[s] = answer[s]
    BY <1>5 DEF SellerSetting, PassGate, Goto, Shape
  <2>2. \E k \in Stores, x \in Roles : <<"holds", k, x>> \in during'[s]
    BY <1>2, <1>3, <1>5
  <2>3. SellerReads(s)'
    BY <1>1, <2>1, <2>2 DEF SellerReads, CatalogStages, DeleteStages, GateKinds
  <2>4. QED  BY <1>1, <2>1, <2>3, SellerWaits DEF SellerSetting
<1>6. QED  BY <1>4, <1>5

LEMMA TellStandingInv ==
  ASSUME NEW s \in SellerCalls, SellerSetting(s), TellStanding(s)
  PROVE  SellerInv(s)'
<1> DEFINE standing == StandingOf(request[s].user)
<1>1. /\ stage[s] = "whoami" /\ Open(s) /\ request[s] \in Errands /\ request[s].kind \in GateKinds
      /\ request' = request
  BY DEF SellerSetting, TellStanding, SellerReads, Open
<1>2. Tell(s, standing) /\ told'[s] = standing
  BY DEF SellerSetting, TellStanding, Tell, Shape
<1>3. \A x \in standing : \E k \in Stores : <<"holds", k, x[2]>> \in during'[s]
  <2>1. SUFFICES ASSUME NEW x \in standing PROVE \E k \in Stores : <<"holds", k, x[2]>> \in during'[s]
    OBVIOUS
  <2>2. PICK k \in Stores : x = <<slug[k], membership[<<request[s].user, k>>]>>
    BY DEF StandingOf
  <2>3. x[2] = membership[<<request[s].user, k>>]
    BY <2>2
  <2>4. QED  BY <1>1, <2>3 DEF SellerSetting, SellerFacts
<1>4. request[s].kind = "gate" => \E k \in Stores, x \in Roles : <<"holds", k, x>> \in during'[s]
  BY <1>1 DEF SellerSetting, SellerReads
<1> HIDE DEF standing
<1>5. Gates(s)'
  BY <1>1, <1>2, <1>3, <1>4 DEF Gates, GateKinds
<1>6. Lists(s)'
  BY <1>1 DEF Lists, GateKinds
<1>7. QED  BY <1>1, <1>2, <1>5, <1>6, SellerTold

\* An answer without a list to an update or a delete.
LEMMA SellerWrote ==
  ASSUME NEW s \in SellerCalls, SellerSetting(s), request[s] \in Errands,
         NEW n \in {200, 204, 404, 500}, Answer(s, n), request[s].kind \in {"update", "delete"},
         n = 200 => request[s].kind = "update",
         (Deletes(s) /\ Refusals(s))'
  PROVE  SellerInv(s)'
<1>1. stage'[s] = "done" /\ answer'[s] = n /\ request' = request
  BY DEF SellerSetting, Answer, Shape
<1>2. SellerReads(s)'
  BY <1>1 DEF SellerReads, CatalogStages, DeleteStages
<1>3. Lists(s)' /\ Gates(s)'
  BY <1>1 DEF Lists, Gates, Replied, GateKinds
<1>4. QED  BY <1>2, <1>3 DEF SellerInv, SellerAnswers

LEMMA LoadProductInv ==
  ASSUME NEW s \in SellerCalls, SellerSetting(s), LoadProduct(s, place[s]), UNCHANGED tenancyVars
  PROVE  SellerInv(s)'
<1> DEFINE k == place[s]
           p == request[s].product
<1>1. /\ stage[s] = "load" /\ Open(s) /\ request[s] \in Errands /\ request[s].kind \in {"update", "delete"}
      /\ request' = request /\ place' = place
  BY DEF SellerSetting, LoadProduct, SellerReads, Open, tenancyVars
<1>2. k \in Stores /\ <<"named", k>> \in during'[s] /\ k \in Held(s, Roles)'
  BY <1>1 DEF SellerSetting, SellerReads, Held, CatalogStages
<1>3. CASE Loadable(p, k)
  <2>1. StoreOf[p] = k
    BY <1>3 DEF Loadable
  <2>2. /\ answer'[s] = answer[s]
        /\ stage'[s] = IF request[s].kind = "delete" THEN "clear" ELSE "save"
    BY <1>3 DEF SellerSetting, LoadProduct, Goto, Shape
  <2>3. SellerReads(s)'
    BY <1>1, <1>2, <2>1, <2>2 DEF SellerReads, CatalogStages, DeleteStages
  <2>4. QED  BY <1>1, <2>2, <2>3, SellerWaits DEF SellerSetting
<1>4. CASE ~Loadable(p, k)
  <2>1. Answer(s, 404) /\ answer'[s] = 404
    BY <1>4 DEF SellerSetting, LoadProduct, Answer, Shape
  <2>2. ~Exists(p) => <<"gone">> \in during'[s]
    BY <1>1 DEF SellerSetting, SellerFacts
  <2>3. Refusals(s)'
    BY <1>1, <1>2, <1>4, <2>1, <2>2 DEF Loadable, Refusals, Replied
  <2>4. Deletes(s)'
    BY <2>1 DEF Deletes, Replied
  <2>5. QED  BY <1>1, <2>1, <2>3, <2>4, SellerWrote
<1>5. QED  BY <1>3, <1>4

LEMMA SaveProductInv ==
  ASSUME NEW s \in SellerCalls, SellerSetting(s), SaveProduct(s) \/ RenderProduct(s), UNCHANGED tenancyVars
  PROVE  SellerInv(s)'
<1>1. /\ stage[s] \in {"save", "render"} /\ Open(s) /\ request[s] \in Errands /\ request[s].kind = "update"
      /\ request' = request /\ place' = place
  BY DEF SellerSetting, SaveProduct, RenderProduct, SellerReads, Open, tenancyVars
<1>2. /\ place[s] \in Stores /\ <<"named", place[s]>> \in during'[s] /\ place[s] \in Held(s, Roles)'
      /\ StoreOf[request[s].product] = place[s]
  BY <1>1 DEF SellerSetting, SellerReads, Held, CatalogStages
<1>3. s \notin Calls
  BY KindsAreApart
<1>4. CASE Goto(s, "render")
  <2>1. stage'[s] = "render" /\ answer'[s] = answer[s]
    BY <1>4 DEF SellerSetting, Goto, Shape
  <2>2. SellerReads(s)'
    BY <1>1, <1>2, <2>1 DEF SellerReads, CatalogStages, DeleteStages
  <2>3. QED  BY <1>1, <2>1, <2>2, SellerWaits DEF SellerSetting
<1>5. ASSUME NEW n \in {200, 500}, Answer(s, n) PROVE SellerInv(s)'
  <2>1. answer'[s] = n
    BY <1>5 DEF SellerSetting, Answer, Shape
  <2>2. Refusals(s)' /\ Deletes(s)'
    BY <1>1, <2>1 DEF Refusals, Deletes, Replied
  <2>3. QED  BY <1>1, <1>5, <2>2, SellerWrote
<1>6. QED  BY <1>3, <1>4, <1>5 DEF SaveProduct, RenderProduct

LEMMA DeleteStepInv ==
  ASSUME TenancyInv, Watch, NEW s \in SellerCalls, SellerSetting(s), DeleteStep(s), UNCHANGED tenancyVars
  PROVE  SellerInv(s)'
<1> DEFINE p == request[s].product
<1>1. /\ stage[s] \in DeleteStages /\ Open(s) /\ request[s] \in Errands /\ request[s].kind = "delete"
      /\ request' = request /\ place' = place /\ stage[s] # "done"
  <2>1. stage[s] \in DeleteStages
    BY DEF DeleteStep, ClearFavorites, DetachLines, RemoveRow, Deadlock, CommitDelete, Crash, DeleteStages
  <2>2. QED  BY <2>1 DEF SellerSetting, SellerReads, Open, tenancyVars, DeleteStages
<1>2. /\ place[s] \in Stores /\ <<"named", place[s]>> \in during'[s] /\ place[s] \in Held(s, Roles)'
      /\ StoreOf[p] = place[s]
  BY <1>1 DEF SellerSetting, SellerReads, Held, CatalogStages
<1>3. ASSUME stage'[s] \in DeleteStages \cup {"done"}, answer'[s] = answer[s] PROVE SellerInv(s)'
  <2>1. SellerReads(s)'
    BY <1>1, <1>2, <1>3 DEF SellerReads, CatalogStages, DeleteStages
  <2>2. QED  BY <1>1, <1>3, <2>1, SellerWaits DEF SellerSetting
<1>4. ASSUME Answer(s, 204), <<"gone">> \in during'[s] PROVE SellerInv(s)'
  <2>1. answer'[s] = 204
    BY <1>4 DEF SellerSetting, Answer, Shape
  <2>2. Refusals(s)' /\ Deletes(s)'
    BY <1>4, <2>1 DEF Refusals, Deletes, Replied
  <2>3. QED  BY <1>1, <1>4, <2>2, SellerWrote
<1>5. ASSUME Answer(s, 500), <<"rival">> \in during'[s] \/ Edited(s)' PROVE SellerInv(s)'
  <2>1. answer'[s] = 500
    BY <1>5 DEF SellerSetting, Answer, Shape
  <2>2. Refusals(s)' /\ Deletes(s)'
    BY <1>5, <2>1 DEF Refusals, Deletes, Replied
  <2>3. QED  BY <1>1, <1>5, <2>2, SellerWrote
<1>6. CASE ClearFavorites(s) \/ DetachLines(s)
  BY <1>3, <1>6 DEF ClearFavorites, DetachLines, SellerSetting, Goto, Shape, DeleteStages
<1>7. CASE RemoveRow(s)
  <2>1. CASE Goto(s, "commit")
    BY <1>3, <2>1 DEF SellerSetting, Goto, Shape, DeleteStages
  <2>2. CASE Answer(s, 204) /\ ~Exists(p)
    BY <1>1, <1>4, <2>2 DEF SellerSetting, SellerFacts
  <2>3. QED  BY <1>7, <2>1, <2>2 DEF RemoveRow
<1>8. CASE Deadlock(s)
  <2>1. PICK z \in SellerCalls : stage[z] = "commit" /\ request[z].product = p
    BY <1>8 DEF Deadlock, RowLocked, DeletesAt
  <2>2. z \in AllCalls \ {s}
    BY <1>8, <2>1, KindsAreApart DEF Deadlock
  <2>3. <<"rival">> \in Facts(s)
    BY <1>1, <2>1, <2>2 DEF SellerSetting, SellerFacts, DeleteStages
  <2>4. QED  BY <1>1, <1>5, <1>8, <2>3 DEF SellerSetting, Deadlock
<1>9. CASE CommitDelete(s)
  <2>1. CASE ForeignKeyHolds(s)
    <3>1. Answer(s, 204) /\ product' = [product EXCEPT ![p] = "gone"]
      BY <1>9, <2>1 DEF CommitDelete
    <3>2. product'[p] = "gone"
      BY <1>1, <3>1 DEF SellerSetting, TypeOK, FavoritesTypeOK, Errands
    <3>3. <<"gone">> \in Facts(s)'
      BY <1>1, <3>2, SellersFactsNext DEF SellerFacts, Exists
    <3>4. QED  BY <1>1, <1>4, <3>1, <3>3 DEF SellerSetting
  <2>2. CASE ~ForeignKeyHolds(s)
    <3>1. Answer(s, 500) /\ stage[s] = "commit"
      BY <1>9, <2>2 DEF CommitDelete
    <3>2. <<"rival">> \in during[s] \/ Edited(s)
      BY <2>2, <3>1 DEF ForeignKeyHolds, TenancyInv, RivalsSeen
    <3>3. Edited(s) => Edited(s)'
      BY EditedStays DEF SellerSetting
    <3>4. QED  BY <1>1, <1>5, <3>1, <3>2, <3>3 DEF SellerSetting
  <2>3. QED  BY <2>1, <2>2
<1>10. CASE Crash(s)
  BY <1>3, <1>10 DEF Crash, SellerSetting, Shape
<1>11. QED  BY <1>6, <1>7, <1>9, <1>10, <1>8 DEF DeleteStep

LEMMA SellerStepInv ==
  ASSUME TenancyInv, Watch, NEW s \in SellerCalls, Admit(s) \/ WriteCatalog(s)
  PROVE  SellerInv(s)'
<1>0. SellerSetting(s)
  BY SellerSets
<1>1. CASE Admit(s)
  BY <1>0, <1>1, ComeInv, FindStoreInv, RequireMembershipInv, ListMembersInv, ListCustomersInv, PassGateInv,
     TellStandingInv DEF Admit
<1>2. CASE WriteCatalog(s)
  BY <1>0, <1>2, LoadProductInv, SaveProductInv, DeleteStepInv DEF WriteCatalog
<1>3. QED  BY <1>1, <1>2

-----------------------------------------------------------------------------
(* The invariant *)

LEMMA CallsStep ==
  ASSUME TenancyInv, Step, Watch
  PROVE  CallsInv'
<1>0. /\ Shape /\ TypeOK /\ CallsInv /\ AllRead
      /\ \A c \in AllCalls : during[c] \subseteq during'[c]
  BY WatchGrows, ReadsHold DEF TenancyInv
<1>r. request' = request
  BY <1>0, RequestRests
<1>1. ASSUME NEW c \in Calls PROVE CustomerInv(c)'
  <2>1. c \in AllCalls /\ c \notin SellerCalls /\ CustomerInv(c)
    BY <1>0, KindsAreApart DEF CallsInv, CustomerInv
  <2>2. QED  BY <1>0, <1>r, <2>1, CallsGoOn, CustomerRests, CustomerStepInv
<1>2. ASSUME NEW s \in SellerCalls PROVE SellerInv(s)'
  <2>1. s \in AllCalls /\ s \notin Calls /\ SellerInv(s)
    BY <1>0, KindsAreApart DEF CallsInv, SellerInv
  <2>2. QED  BY <1>0, <1>r, <2>1, CallsGoOn, SellerRests, SellerStepInv
<1>3. QED  BY <1>1, <1>2 DEF CallsInv, CustomerInv, SellerInv

LEMMA InvInit == Init => TenancyInv
<1> SUFFICES ASSUME Init PROVE TenancyInv
  OBVIOUS
<1> USE DEF Init, FavoritesInit
<1>1. Shape
  BY FS_EmptySet DEF Shape, AllStages
<1>2. TypeOK
  <2>1. FavoritesTypeOK
    BY KindsAreApart DEF FavoritesTypeOK
  <2>2. edits \in 0 .. MaxActors
    BY TenancyAssumption DEF TenancyAssumption
  <2>3. slug \in [Stores -> Slugs] /\ \A k, z \in Stores : slug[k] = slug[z] => k = z
    BY TenancyAssumption DEF TenancyAssumption
  <2>4. membership \in [Users \X Stores -> Roles \cup {None}]
    BY TenancyAssumption DEF TenancyAssumption
  <2>5. QED  BY <2>1, <2>2, <2>3, <2>4, KindsAreApart DEF TypeOK, CatalogStages, DeleteStages
<1>3. Watched
  BY DEF Watched, Open
<1>4. FavoritesAreSound
  BY DEF FavoritesAreSound, OneFavoriteEach, FavoritesReferenceProducts
<1>5. RivalsSeen /\ StraysSeen /\ FreshIds
  BY KindsAreApart DEF RivalsSeen, StraysSeen, FreshIds
<1>6. ASSUME NEW c \in Calls PROVE CustomerReads(c) /\ CustomerAnswers(c)
  BY KindsAreApart, NoneIsNoCode DEF CustomerReads, CustomerAnswers, Replied
<1>7. ASSUME NEW s \in SellerCalls PROVE SellerReads(s) /\ SellerAnswers(s)
  <2>1. SellerReads(s)
    BY KindsAreApart DEF SellerReads, StoreKinds, CatalogStages, DeleteStages
  <2>2. SellerAnswers(s)
    BY KindsAreApart, NoneIsNoCode DEF SellerAnswers, Refusals, Lists, Gates, Deletes, Replied
  <2>3. QED  BY <2>1, <2>2
<1>8. CallsInv
  BY <1>6, <1>7 DEF CallsInv
<1>9. QED  BY <1>1, <1>2, <1>3, <1>4, <1>5, <1>8 DEF TenancyInv

LEMMA InvStays == TenancyInv /\ UNCHANGED vars => TenancyInv'
<1> SUFFICES ASSUME TenancyInv, UNCHANGED vars PROVE TenancyInv'
  OBVIOUS
<1>1. /\ product' = product /\ favorite' = favorite /\ doomed' = doomed /\ stage' = stage
      /\ request' = request /\ answer' = answer /\ told' = told /\ slug' = slug
      /\ membership' = membership /\ place' = place /\ edits' = edits /\ during' = during
      /\ late' = late /\ astray' = astray
  BY DEF vars, favoritesVars, tables
<1>2. Shape' /\ TypeOK' /\ FavoritesAreSound' /\ RivalsSeen' /\ StraysSeen' /\ FreshIds'
  BY <1>1 DEF TenancyInv, Shape, TypeOK, FavoritesTypeOK, FavoritesAreSound, OneFavoriteEach,
              FavoritesReferenceProducts, Exists, RivalsSeen, RowsOf, StraysSeen, FreshIds, Edited
<1>3. Watched'
  <2>1. \A c \in AllCalls : Facts(c)' = Facts(c)
    BY <1>1 DEF Facts, Mine, OnSale, Exists, StoreNamed, MembersOf, OrdersAt, FavoritesAt, OrdersOf, FavoritesOf
  <2>2. QED  BY <1>1, <2>1 DEF TenancyInv, Watched, Open
<1>4. CallsInv'
  <2>1. \A c \in AllCalls : Rests(c)
    BY <1>1 DEF Rests
  <2>2. \A c \in Calls : CustomerInv(c)'
    BY <1>1, <2>1, KindsAreApart, CustomerRests DEF TenancyInv, CallsInv, CustomerInv
  <2>3. \A s \in SellerCalls : SellerInv(s)'
    BY <1>1, <2>1, KindsAreApart, SellerRests DEF TenancyInv, CallsInv, SellerInv
  <2>4. QED  BY <2>2, <2>3 DEF CallsInv, CustomerInv, SellerInv
<1>5. QED  BY <1>2, <1>3, <1>4 DEF TenancyInv

LEMMA InvNext == TenancyInv /\ [Next]_vars => TenancyInv'
<1> SUFFICES ASSUME TenancyInv, [Next]_vars PROVE TenancyInv'
  OBVIOUS
<1>1. CASE Step /\ Watch
  <2>1. Shape /\ TypeOK /\ CallsInv /\ Watched /\ FavoritesAreSound /\ RivalsSeen /\ StraysSeen /\ FreshIds
    BY DEF TenancyInv
  <2>2. QED  BY <1>1, <2>1, TypeStep, WatchedStep, SoundStep, RivalsStep, StraysStep, FreshStep, CallsStep
             DEF TenancyInv
<1>2. CASE UNCHANGED vars
  BY <1>2, InvStays
<1>3. QED  BY <1>1, <1>2 DEF Next, Quiet

LEMMA TenancyInvariant == Spec => []TenancyInv
  BY InvInit, InvNext, PTL DEF Spec

LEMMA DoomedWrites ==
  ASSUME TenancyInv, Step, NEW s \in SellerCalls
  PROVE  doomed'[s] = doomed[s] \/ doomed'[s] = {} \/ doomed'[s] = RowsOf(request[s].product)
<1>0. doomed \in [SellerCalls -> SUBSET favorite] /\ Shape /\ TypeOK /\ \A z \in SellerCalls : SellerReads(z)
  BY DEF TenancyInv, TypeOK, FavoritesTypeOK, CallsInv
<1>1. ASSUME NEW c \in Calls, CustomerStep(c) PROVE doomed' = doomed
  BY <1>1 DEF CustomerStep, Add, Wish, FindProduct, GetFavorite, InsertFavorite, GetAgain, ReloadProduct,
              RenderProduct, PlaceLine, RemoveFavorite, MyFavorites, tables
<1>2. ASSUME NEW z \in SellerCalls, Admit(z) PROVE doomed' = doomed
  BY <1>0, <1>2, AdmitMoves DEF tables
<1>3. ASSUME NEW z \in SellerCalls, WriteCatalog(z)
      PROVE  \/ doomed' = doomed
             \/ doomed' = [doomed EXCEPT ![z] = {}]
             \/ doomed' = [doomed EXCEPT ![z] = RowsOf(request[z].product)]
  BY <1>3 DEF WriteCatalog, DeleteStep, LoadProduct, SaveProduct, RenderProduct, ClearFavorites, DetachLines,
              RemoveRow, Deadlock, CommitDelete, Crash, End, tables
<1>4. CASE EditAdmin
  BY <1>4, EditRests
<1>5. QED  BY <1>0, <1>1, <1>2, <1>3, <1>4 DEF Step

LEMMA DoomedInvariant == Spec => []DoomedAreOfTheProduct
<1>1. Init => DoomedAreOfTheProduct
  BY DEF Init, FavoritesInit, DoomedAreOfTheProduct
<1>2. TenancyInv /\ DoomedAreOfTheProduct /\ [Next]_vars => DoomedAreOfTheProduct'
  <2> SUFFICES ASSUME TenancyInv, DoomedAreOfTheProduct, [Next]_vars PROVE DoomedAreOfTheProduct'
    OBVIOUS
  <2>1. CASE Step
    <3>1. request' = request
      BY <2>1, RequestRests, ReadsHold DEF TenancyInv
    <3>2. QED  BY <2>1, <3>1, DoomedWrites DEF DoomedAreOfTheProduct, RowsOf
  <2>2. CASE UNCHANGED vars
    BY <2>2 DEF vars, favoritesVars, tables, DoomedAreOfTheProduct
  <2>3. QED  BY <2>1, <2>2 DEF Next, Quiet
<1>3. QED  BY <1>1, <1>2, TenancyInvariant, PTL DEF Spec

\* What a step takes out of favorite it was asked to.
RequestedLoss ==
  \A r \in favorite \ favorite' :
    \/ product'[r.product] = "gone"
    \/ \E c \in Calls : /\ stage[c] = "remove" /\ stage'[c] = "done"
                        /\ request[c].customer = r.customer /\ request[c].product = r.product

LEMMA LossIsRequested ==
  ASSUME TenancyInv, DoomedAreOfTheProduct, Step
  PROVE  RequestedLoss
<1>0. Shape /\ TypeOK /\ (\A s \in SellerCalls : SellerReads(s)) /\ FavoritesReferenceProducts
  BY DEF TenancyInv, CallsInv, FavoritesAreSound
<1>1. ASSUME NEW c \in Calls, CustomerStep(c) PROVE RequestedLoss
  <2>1. CASE RemoveFavorite(c)
    <3>1. stage[c] = "remove" /\ stage'[c] = "done" /\ favorite' = favorite \ Mine(c)
      BY <1>0, <2>1, KindsAreApart DEF RemoveFavorite, Answer, Shape
    <3>2. QED  BY <3>1 DEF RequestedLoss, Mine
  <2>2. CASE ~RemoveFavorite(c)
    <3>1. favorite \subseteq favorite'
      BY <1>1, <2>2 DEF CustomerStep, Add, Wish, FindProduct, GetFavorite, InsertFavorite, GetAgain,
                        ReloadProduct, RenderProduct, PlaceLine, MyFavorites, tables
    <3>2. QED  BY <3>1 DEF RequestedLoss
  <2>3. QED  BY <2>1, <2>2
<1>2. ASSUME NEW s \in SellerCalls, Admit(s) PROVE RequestedLoss
  BY <1>0, <1>2, AdmitMoves DEF tables, RequestedLoss
<1>3. ASSUME NEW s \in SellerCalls, WriteCatalog(s) PROVE RequestedLoss
  <2>1. CASE RemoveRow(s) /\ favorite' # favorite
    <3>1. ~Exists(request[s].product) /\ favorite' = favorite \ doomed[s] /\ product' = product
      BY <2>1 DEF RemoveRow, tables
    <3>2. QED  BY <3>1 DEF RequestedLoss, DoomedAreOfTheProduct, Exists
  <2>2. CASE CommitDelete(s) /\ favorite' # favorite
    <3>1. /\ favorite' = favorite \ doomed[s]
          /\ product' = [product EXCEPT ![request[s].product] = "gone"]
      BY <2>2 DEF CommitDelete
    <3>2. \A r \in favorite : r.product \in Products
      BY <1>0 DEF TypeOK, FavoritesTypeOK, Rows
    <3>3. \A r \in favorite \ favorite' : product'[r.product] = "gone"
      BY <1>0, <3>1, <3>2 DEF DoomedAreOfTheProduct, TypeOK, FavoritesTypeOK
    <3>4. QED  BY <3>3 DEF RequestedLoss
  <2>3. CASE favorite' = favorite
    BY <2>3 DEF RequestedLoss
  <2>4. QED  BY <1>3, <2>1, <2>2, <2>3
             DEF WriteCatalog, DeleteStep, LoadProduct, SaveProduct, RenderProduct, ClearFavorites, DetachLines,
                 Deadlock, Crash, tables
<1>4. CASE EditAdmin
  BY <1>4, EditRests DEF RequestedLoss
<1>5. QED  BY <1>1, <1>2, <1>3, <1>4 DEF Step

\* A product that a step writes is one that its call was let in to write.
MembersWrite ==
  \A p \in Products : product'[p] # product[p] =>
    \E s \in SellerCalls :
      /\ stage[s] \in {"save", "commit"} /\ stage'[s] \in {"render", "done"}
      /\ request[s].product = p /\ StoreOf[p] \in Held(s, Roles)

LEMMA WritesAreMembers ==
  ASSUME TenancyInv, Step
  PROVE  MembersWrite
<1>0. Shape /\ TypeOK /\ CallsInv
  BY DEF TenancyInv
<1>1. ASSUME NEW s \in SellerCalls, SaveProduct(s) \/ CommitDelete(s) PROVE MembersWrite
  <2>1. stage[s] \in {"save", "commit"} /\ stage'[s] \in {"render", "done"}
    BY <1>0, <1>1, KindsAreApart DEF SaveProduct, CommitDelete, Goto, Answer, Shape
  <2>2. StoreOf[request[s].product] \in Held(s, Roles)
    BY <1>0, <2>1 DEF CallsInv, SellerReads, CatalogStages, DeleteStages
  <2>3. \A p \in Products \ {request[s].product} : product'[p] = product[p]
    BY <1>0, <1>1 DEF SaveProduct, CommitDelete, TypeOK, FavoritesTypeOK
  <2>4. QED  BY <2>1, <2>2, <2>3 DEF MembersWrite
<1>2. CASE UNCHANGED product
  BY <1>2 DEF MembersWrite
<1>3. QED  BY <1>0, <1>1, <1>2, ProductWrites

-----------------------------------------------------------------------------
(* Theorems *)

\* Rows, calls and answers keep their shape, whatever calls and edits there are: slugs stay
\* unique, an open delete dooms committed favorites only and shares none of them with another
\* delete, and nobody gets to the catalog or to a list but through a store.
THEOREM TypeCorrect == Spec => []TypeOK
  BY TenancyInvariant, PTL DEF TenancyInv

\* services.py:14 of favorites: favoriting twice is one row, and no favorite outlives its
\* product, however the adds, removes and deletes of any number of calls overlap.
THEOREM FavoritesSound == Spec => []FavoritesAreSound
  BY TenancyInvariant, PTL DEF TenancyInv

\* Adds and deletes that run at once are each told what became of their own write.
THEOREM CallsToldTruly == Spec => []CallsAnswerTruly
<1>1. TenancyInv => CallsAnswerTruly
  BY DEF TenancyInv, CallsInv, CustomerAnswers, SellerAnswers, Deletes, CallsAnswerTruly, AddsAnswerTruly,
         DeletesAnswerTruly
<1>2. QED  BY <1>1, TenancyInvariant, PTL

\* permissions.py and the gates of /admin/me and /users/me: every refusal, every list and
\* every pass was justified by the tables at some time during the call, although memberships
\* and slugs are edited between its statements.
THEOREM RepliesJustified == Spec => []RepliesAreJustified
<1>1. ASSUME TenancyInv PROVE RepliesAreJustified
  <2>1. RefusalsAreDeserved
    BY <1>1 DEF TenancyInv, CallsInv, SellerAnswers, Refusals, RefusalsAreDeserved
  <2>2. ListsStayInTheStore
    <3>1. \A c \in Calls : Replied(c, 200) =>
            \A p \in Products : <<IF p \in told[c] THEN "liked" ELSE "not", p>> \in during[c]
      BY <1>1 DEF TenancyInv, CallsInv, CustomerAnswers
    <3>2. \A s \in SellerCalls : Lists(s)
      BY <1>1 DEF TenancyInv, CallsInv, SellerAnswers
    <3>3. QED  BY <3>1, <3>2 DEF Lists, ListsStayInTheStore
  <2>3. GateMeansSeller
    BY <1>1 DEF TenancyInv, CallsInv, SellerAnswers, Gates, GateMeansSeller
  <2>4. QED  BY <2>1, <2>2, <2>3 DEF RepliesAreJustified
<1>2. QED  BY <1>1, TenancyInvariant, PTL

\* require_membership: a step changes a product only for a call whose user was a member of
\* the product's own store at some time in that call.
THEOREM OnlyMembersWrite == Spec => WritesOnlyByMembers
<1>1. TenancyInv /\ [Next]_vars => [MembersWrite]_vars
  BY WritesAreMembers DEF Next, Quiet
<1>2. QED  BY <1>1, TenancyInvariant, PTL DEF Spec, WritesOnlyByMembers, MembersWrite

\* A favorite goes only with its product or by a remove of its own customer.
THEOREM FavoritesGoOnRequest == Spec => FavoritesGoOnlyOnRequest
<1>1. TenancyInv /\ DoomedAreOfTheProduct /\ [Next]_vars => [RequestedLoss]_favoritesVars
  <2> SUFFICES ASSUME TenancyInv, DoomedAreOfTheProduct, [Next]_vars PROVE [RequestedLoss]_favoritesVars
    OBVIOUS
  <2>1. CASE Step
    BY <2>1, LossIsRequested
  <2>2. CASE UNCHANGED vars
    BY <2>2 DEF vars
  <2>3. QED  BY <2>1, <2>2 DEF Next, Quiet
<1>2. QED  BY <1>1, TenancyInvariant, DoomedInvariant, PTL DEF Spec, FavoritesGoOnlyOnRequest, RequestedLoss

=============================================================================
