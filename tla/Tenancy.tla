------------------------------ MODULE Tenancy ------------------------------
(***************************************************************************)
(* apps/boutiques: who may do what at which store, with what a seller's    *)
(* call does there once it is let in (Favorites), while memberships, the   *)
(* slugs of stores, images and categories are edited in the Django admin.  *)
(*                                                                         *)
(* A seller's call looks its store up by slug, then its membership, and    *)
(* asks for neither again.  The gates of /admin/me and /users/me read the  *)
(* memberships of the user at all stores.                                  *)
(***************************************************************************)
EXTENDS Favorites

CONSTANTS
  Slugs,
  FirstSlugs, FirstRoles,  \* slugs and memberships at first
  Orders,                  \* the orders that there are: what the customer lists count
  MaxActors                \* bound on the calls and the edits of a behaviour

Roles == {"owner", "staff"}
StoreKinds == {"me", "members", "customers", "update", "delete"}
GateKinds == {"gate", "whoami"}
Errands == [kind: StoreKinds \cup GateKinds, user: Users, slug: Slugs, product: Products, visible: BOOLEAN]

ASSUME TenancyAssumption ==
  /\ \A f \in Requests, s \in SellerCalls : f[s] \in Errands \cup {None}
  /\ FirstSlugs \in [Stores -> Slugs] /\ \A k, z \in Stores : FirstSlugs[k] = FirstSlugs[z] => k = z
  /\ None \notin Errands \cup Roles \cup Stores \cup Slugs \cup Orders \cup Rows
  /\ None \notin {"manage_members", "edit_store_settings"}
  /\ FirstRoles \in [Users \X Stores -> Roles \cup {None}]
  /\ IsFiniteSet(Orders) /\ \A o \in Orders : o.customer \in Users /\ o.store \in Stores
  /\ MaxActors \in Nat

VARIABLES
  slug,        \* the slug of a store
  membership,  \* the role of a user at a store
  place,       \* the store that a seller's call was let into
  edits,       \* how many edits there were in the Django admin
  during       \* history: what was true at some time while a call was open

tenancyVars == <<slug, membership, place, edits>>
vars == <<favoritesVars, slug, membership, place, edits, during>>

-----------------------------------------------------------------------------
Capability ==
  [me |-> None, members |-> "manage_members", customers |-> "work_orders",
   update |-> "manage_catalog", delete |-> "manage_catalog"]

Governance == {"manage_members", "edit_store_settings"}

HasPermission(role, capability) == capability \in Governance => role = "owner"

\* the role of u at store k, if there is one
RolesAt(u, k) == {membership[<<u, k>>]} \ {None}

StoreNamed(x) == {k \in Stores : slug[k] = x}

MembersOf(k) == {u \in Users : membership[<<u, k>>] # None}

\* the stores and roles of the user's memberships
StandingOf(u) == {<<slug[k], membership[<<u, k>>]>> : k \in {z \in Stores : membership[<<u, z>>] # None}}

OrdersOf(u) == {o \in Orders : o.customer = u}
FavoritesOf(u) == {r \in favorite : r.customer = u}

\* the joined rows of a user, his orders by his favorites, None where he has none of them
Joined(u, k) ==
  LET outer(S) == IF S = {} THEN {None} ELSE S
      At(x) == x # None /\ x.store = k
  IN {j \in outer(OrdersOf(u)) \X outer(FavoritesOf(u)) : At(j[1]) \/ At(j[2])}

\* mutant: the joined rows are counted, not what they join
CountAt_Rows(J, i, k) == Cardinality({j \in J : j[i] # None /\ j[i].store = k})

\* Count(..., filter=..., distinct=True)
CountAt(J, i, k) == Cardinality({j[i] : j \in {z \in J : z[i] # None /\ z[i].store = k}})

StoreCustomers(k) ==
  {[customer |-> u, orders |-> CountAt(Joined(u, k), 1, k), favorites |-> CountAt(Joined(u, k), 2, k)] :
     u \in {z \in Users : Joined(z, k) # {}}}

-----------------------------------------------------------------------------
Come(s) ==
  /\ stage[s] = "idle" /\ request[s] # None
  /\ Goto(s, IF request[s].kind \in StoreKinds THEN "store" ELSE request[s].kind)
  /\ UNCHANGED <<tables, tenancyVars>>

\* require_membership: the boutique of the slug ...
FindStore(s) ==
  /\ stage[s] = "store"
  /\ LET k == StoreNamed(request[s].slug) IN
     IF k = {} THEN Answer(s, 404) /\ UNCHANGED place
     ELSE Goto(s, "member") /\ place' = [place EXCEPT ![s] = CHOOSE z \in k : TRUE]
  /\ UNCHANGED <<tables, slug, membership, edits>>

\* ... and the caller's membership there, with the boutique as it is by then
RequireMembership(s) ==
  /\ stage[s] = "member"
  /\ LET roles == RolesAt(request[s].user, place[s])
         kind == request[s].kind IN
     IF \A x \in roles : ~HasPermission(x, Capability[kind]) THEN Answer(s, 403)
     ELSE \/ kind = "me" /\ Tell(s, {slug[place[s]]} \X roles)
          \/ kind \in {"update", "delete"} /\ Goto(s, "load")
          \/ kind \in {"members", "customers"} /\ Goto(s, kind)
  /\ UNCHANGED <<tables, tenancyVars>>

ListMembers(s) ==
  stage[s] = "members" /\ Tell(s, MembersOf(place[s])) /\ UNCHANGED <<tables, tenancyVars>>

ListCustomers(s) ==
  stage[s] = "customers" /\ Tell(s, StoreCustomers(place[s])) /\ UNCHANGED <<tables, tenancyVars>>

\* IsSeller of /admin/me; the answer is the one that /users/me gives
PassGate(s) ==
  /\ stage[s] = "gate"
  /\ IF StandingOf(request[s].user) = {} THEN Answer(s, 403) ELSE Goto(s, "whoami")
  /\ UNCHANGED <<tables, tenancyVars>>

TellStanding(s) ==
  stage[s] = "whoami" /\ Tell(s, StandingOf(request[s].user)) /\ UNCHANGED <<tables, tenancyVars>>

Admit(s) ==
  \/ Come(s) \/ FindStore(s) \/ RequireMembership(s)
  \/ ListMembers(s) \/ ListCustomers(s) \/ PassGate(s) \/ TellStanding(s)

\* what was granted goes on
WriteCatalog(s) ==
  /\ LoadProduct(s, place[s]) \/ SaveProduct(s) \/ RenderProduct(s) \/ DeleteStep(s)
  /\ UNCHANGED tenancyVars

-----------------------------------------------------------------------------
(* The Django admin *)

Edit ==
  /\ edits + Cardinality({c \in AllCalls : request[c] # None}) < MaxActors
  /\ edits' = edits + 1
  /\ UNCHANGED <<product, favorite, doomed, stage, request, answer, told, place>>

\* a membership is granted, changed or revoked
EditMembership(u, k) ==
  /\ Edit
  /\ \E x \in (Roles \cup {None}) \ {membership[<<u, k>>]} : membership' = [membership EXCEPT ![<<u, k>>] = x]
  /\ UNCHANGED <<slug, late, astray>>

\* slugs are unique
RenameStore(k) ==
  /\ Edit
  /\ \E x \in {z \in Slugs : StoreNamed(z) = {}} : slug' = [slug EXCEPT ![k] = x]
  /\ UNCHANGED <<membership, late, astray>>

\* An image or a variant comes to p: its COMMIT waits as that of a favorite does.  A delete past
\* its first statement, which cleared those that there were, has not seen it; without one there
\* is nothing to tell.
AddImage(p) ==
  /\ Edit
  /\ Exists(p) /\ ~RowLocked(p) /\ DeletesAt(p, {"null", "row"}) # {}
  /\ late' = late \cup DeletesAt(p, {"null", "row"})
  /\ UNCHANGED <<slug, membership, astray>>

\* the calls that go on with p as they loaded it
Holding(p) == {c \in AllCalls : stage[c] \in {"get", "insert", "save", "render"} /\ request[c].product = p}

\* The category that p was in, until an update (Catalog) moved p to another, is erased: who
\* loaded p before that has it in the old one.
EraseCategory(p) ==
  /\ Edit
  /\ Holding(p) # {}
  /\ astray' = astray \cup Holding(p)
  /\ UNCHANGED <<slug, membership, late>>

EditAdmin ==
  \/ \E u \in Users, k \in Stores : EditMembership(u, k)
  \/ \E k \in Stores : RenameStore(k)
  \/ \E p \in Products : AddImage(p) \/ EraseCategory(p)

-----------------------------------------------------------------------------
OrdersAt(u, k) == Cardinality({o \in OrdersOf(u) : o.store = k})
FavoritesAt(u, k) == Cardinality({r \in FavoritesOf(u) : r.store = k})

\* what a call's answer may depend on
Facts(c) ==
  LET r == request[c] IN
  IF c \in Calls /\ r.kind = "list"
  THEN {<<IF /\ product[p] = "shown" /\ StoreOf[p] = r.store
             /\ \E z \in favorite : z.customer = r.customer /\ z.product = p
          THEN "liked" ELSE "not", p>> : p \in Products}
  ELSE IF c \in Calls /\ r.kind # "add" THEN {}
  ELSE IF c \in Calls
  THEN {<<"edits", edits>>} \cup {<<"kept", z.id>> : z \in Mine(c)}
       \cup (IF Mine(c) = {} THEN {<<"unkept">>} ELSE {})
       \cup (IF OnSale(r.product, r.store) THEN {} ELSE {<<"offsale">>})
       \cup (IF Exists(r.product) THEN {} ELSE {<<"gone">>})
  ELSE {<<"named", k>> : k \in StoreNamed(r.slug)}
       \cup {<<"holds", k, membership[<<r.user, k>>]>> : k \in Stores}
       \cup (IF StoreNamed(r.slug) = {} THEN {<<"nowhere">>} ELSE {})
       \cup (IF Exists(r.product) THEN {} ELSE {<<"gone">>})
       \cup (IF r.kind = "delete" THEN {<<"edits", edits>>} ELSE {})
       \cup (IF r.kind = "delete" /\ \E z \in AllCalls \ {c} :
                    stage[z] \in {"insert", "line"} \cup DeleteStages /\ request[z].product = r.product
             THEN {<<"rival">>} ELSE {})
       \cup (IF r.kind = "members" THEN UNION {{<<"member", k, u>> : u \in MembersOf(k)} : k \in Stores} ELSE {})
       \cup (IF r.kind = "customers"
             THEN {<<"active", u, OrdersAt(u, k), FavoritesAt(u, k), k>> : u \in Users, k \in Stores}
             ELSE {})

Open(c) == stage[c] \notin {"idle", "done"}

Watch == during' = [c \in AllCalls |-> during[c] \cup (IF Open(c) \/ Open(c)' THEN Facts(c)' ELSE {})]

Init ==
  /\ FavoritesInit
  /\ slug = FirstSlugs
  /\ membership = FirstRoles
  /\ place = [s \in SellerCalls |-> None]
  /\ edits = 0
  /\ during = [c \in AllCalls |-> {}]

Step ==
  \/ \E c \in Calls : CustomerStep(c) /\ UNCHANGED tenancyVars
  \/ \E s \in SellerCalls : Admit(s) \/ WriteCatalog(s)
  \/ EditAdmin

Quiet == (\A c \in AllCalls : stage[c] = "done" \/ request[c] = None) /\ UNCHANGED vars

Next == (Step /\ Watch) \/ Quiet

Spec == Init /\ [][Next]_vars

-----------------------------------------------------------------------------
(* Properties *)

\* Rows, calls and answers keep their shape; in particular slugs stay unique, and nobody
\* reaches the catalog, or is told of members, without a store that he was let into.
TypeOK ==
  /\ FavoritesTypeOK
  /\ slug \in [Stores -> Slugs] /\ \A k, z \in Stores : slug[k] = slug[z] => k = z
  /\ membership \in [Users \X Stores -> Roles \cup {None}]
  /\ \A s \in SellerCalls :
       /\ stage[s] \in {"idle", "done", "store", "member"} \cup StoreKinds \cup GateKinds \cup CatalogStages
       /\ place[s] \in Stores \cup {None}
       /\ stage[s] \in CatalogStages \cup {"member", "members", "customers"} => place[s] # None
  /\ edits \in 0..MaxActors

Replied(c, n) == answer[c] = n

\* the Django admin edited something while c was open
Edited(c) == \E m, n \in 0..MaxActors : m # n /\ {<<"edits", m>>, <<"edits", n>>} \subseteq during[c]

\* An add is told the truth: 201 only when the customer's own favorite was there during the
\* call, 404 only when the product was not on sale at the store.  A 500 needs the product to
\* be deleted, a favorite to be added by another call and removed, or an edit in the Django
\* admin, meanwhile.
AddsAnswerTruly ==
  \A c \in Calls : request[c] # None /\ request[c].kind = "add" =>
    /\ Replied(c, 201) => \E d \in Calls : <<"kept", d>> \in during[c]
    /\ Replied(c, 404) => <<"offsale">> \in during[c]
    /\ Replied(c, 500) =>
         \/ <<"gone">> \in during[c] \/ Edited(c)
         \/ <<"unkept">> \in during[c] /\ \E d \in Calls \ {c} : <<"kept", d>> \in during[c]

\* A delete that succeeds has deleted.  It fails only when the product was being favorited,
\* ordered or deleted by another call, or the Django admin edited something, meanwhile, so
\* trying again helps.
DeletesAnswerTruly ==
  \A s \in SellerCalls : request[s] # None /\ request[s].kind = "delete" =>
    /\ Replied(s, 204) => <<"gone">> \in during[s]
    /\ Replied(s, 500) => <<"rival">> \in during[s] \/ Edited(s)

\* Customers and sellers who write at once are each told what became of their own write.
CallsAnswerTruly == AddsAnswerTruly /\ DeletesAnswerTruly

\* the store that the call named, where its user held one of the roles, at some time
Held(s, roles) ==
  {k \in Stores : <<"named", k>> \in during[s] /\ \E x \in roles : <<"holds", k, x>> \in during[s]}

\* A product changes only by a call whose user was a member of the product's own store, which
\* its slug named, at some time in that very call: neither a slug that moves to another
\* store nor a revoked membership opens more than what was checked.
WritesOnlyByMembers ==
  [][\A p \in Products : product'[p] # product[p] =>
       \E s \in SellerCalls :
         /\ stage[s] \in {"save", "commit"} /\ stage'[s] \in {"render", "done"}
         /\ request[s].product = p /\ StoreOf[p] \in Held(s, Roles)]_vars

\* "404 no boutique by that slug, 403 not a member, or lacks the capability": each refusal
\* was deserved at some time during the call.
RefusalsAreDeserved ==
  \A s \in SellerCalls :
    /\ Replied(s, 404) =>
         \/ <<"nowhere">> \in during[s] \/ <<"gone">> \in during[s]
         \/ \E k \in Held(s, Roles) : StoreOf[request[s].product] # k
    /\ Replied(s, 403) /\ request[s].kind = "gate" => \A k \in Stores : <<"holds", k, None>> \in during[s]
    /\ Replied(s, 403) /\ request[s].kind \in StoreKinds =>
         Held(s, IF request[s].kind = "members" THEN {None, "staff"} ELSE {None}) # {}

\* "An admin never reads the global user table": members are told to an owner of their
\* store, customers to a member of it, and only with what they did at that store, counted
\* once although the query joins every order with every favorite.  A customer is told of
\* what is on sale and was favorited by none but him.
ListsStayInTheStore ==
  /\ \A c \in Calls : Replied(c, 200) =>
       \A p \in Products : <<IF p \in told[c] THEN "liked" ELSE "not", p>> \in during[c]
  /\ \A s \in SellerCalls : Replied(s, 200) =>
      /\ request[s].kind = "members" =>
           \E k \in Held(s, {"owner"}) : \A u \in told[s] : <<"member", k, u>> \in during[s]
      /\ request[s].kind = "customers" =>
           \E k \in Held(s, Roles) :
             /\ \A x \in told[s] : x.orders + x.favorites > 0
                                /\ <<"active", x.customer, x.orders, x.favorites, k>> \in during[s]
             /\ \A u \in Users : u \in {x.customer : x \in told[s]} \/ <<"active", u, 0, 0, k>> \in during[s]

\* "A 200 means this session belongs to a seller": the user held a membership during the
\* call, and what the answer tells was one, although it may tell of none any more.
GateMeansSeller ==
  \A s \in SellerCalls : Replied(s, 200) =>
    /\ request[s].kind = "gate" => \E k \in Stores, x \in Roles : <<"holds", k, x>> \in during[s]
    /\ request[s].kind \in GateKinds => \A x \in told[s] : \E k \in Stores : <<"holds", k, x[2]>> \in during[s]
    /\ request[s].kind = "me" => \E x \in told[s] : Held(s, {x[2]}) # {}

\* Nobody is refused, let in or told of anything but what the tables justified at some time
\* during his own call, although memberships and slugs change between the statements.
RepliesAreJustified == RefusalsAreDeserved /\ ListsStayInTheStore /\ GateMeansSeller
=============================================================================
