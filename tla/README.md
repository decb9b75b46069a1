# Boutique backend: a TLA+ model of its concurrency

The backend is a multi-tenant shop API: Django and django-ninja over PostgreSQL. Gunicorn runs two
workers with four threads each (`src/entrypoint.sh:26-32`), so eight requests run at a time, and the
only thing they share is the database. The connection is in autocommit, `ATOMIC_REQUESTS` is off,
isolation is READ COMMITTED, and Django creates its foreign keys `DEFERRABLE INITIALLY DEFERRED`.
The code's correctness therefore rests on how single SQL statements interleave, on unique and
foreign-key constraints, and on what the handlers do when a constraint fires. Tests run the handlers
one at a time; these modules run them against each other.

All paths below are relative to the repository root; application code is under `src/src/apps/`.

## 1. Inventory

| Component | State | Operations | Shares state with |
|---|---|---|---|
| orders: placement (`orders/services.py:17-84`) | `orders`, `order_items` | `place_order` | reads products and options; competes for the idempotency key |
| orders: status (`orders/services.py:87-93`) | `orders.status` | `set_status` | calls push in the request |
| orders: inbox (`orders/selectors.py:25-47`) | none; the cursor is the client's | `inbox` | sees orders as they commit |
| products: seller writes (`products/services.py`) | `categories`, `products`, images, variant groups and options | `create_category`, `create_product`, `update_product`, `delete_product`, `store_product_image` | order lines and favorites reference products |
| products: storefront (`products/selectors.py`, `storefront_controller.py`) | none | grid, facets, categories, detail | reads the catalog in several statements |
| push (`push/services.py`) | `push_subscriptions` | `subscribe`, `unsubscribe`, `_send` with pruning, `broadcast_new_arrival` | called by `set_status` and `announce` |
| users (`users/services.py`, `users/tasks.py`) | `users`, `addresses` | `create_user`, `send_password_reset`, `confirm_password_reset`, addresses | mail server; the dormant queue runs its task in the request |
| users: sessions | token tables of django-ninja-jwt | issue, rotate, blacklist | library code, configured in `settings.py:209-219` |
| favorites (`favorites/`) | `favorites` | add, remove, list | references products; cleared by `delete_product`, which order lines, images and variants can fail as well |
| boutiques (`boutiques/`) | `boutiques`, `memberships` | membership and capability checks, members and customers of a store; written in the Django admin only | every seller route; customers are found through orders and favorites |
| Django admin | all tables | an operator deletes orders and categories, edits memberships, renames stores | races with requests |
| glue (`api/`, `settings.py`, `media.py`, `celery.py`, `scripts/`) | none | routing, configuration, build | – |

What is hard, and what makes each component correct:

* **Placement** retries on a lost race for the idempotency key, prices lines from rows other
  requests change, and commits against deferred foreign keys. It is correct when a key has one
  order, an order charges what its own lines say, nothing is left of a refused order, committed
  orders never change, and a client that repeats a call is told of one order. Worker death between
  COMMIT and response is the case the key exists for.
* **Catalog writes** probe for a free slug and insert it in different statements, retry a bounded
  number of times, and save whole rows that they loaded earlier; categories vanish under products
  being created. Correct when slugs are unique, creates are all or nothing, products keep a
  category, and every create ends.
* **Status changes and pushes** perform a commit and then several remote calls, over a list of rows
  that is stale at once. Correct when a push tells a status that was saved, only to browsers the
  customer registered, and when only dead or unsubscribed browsers lose their row.
* **Inbox**: timestamps are taken at INSERT, rows appear at COMMIT, so orders appear behind cursors.
  Correct when a client misses nothing that it could have been given.
* **Accounts**: an advisory check before a constraint that compares differently; a link that signs a
  password that changes. Correct when identities are unique, answers are true, and a password is set
  only through a current link mailed to the account.
* **Storefront**: no read runs in a transaction, so the statements of one answer see the catalog at
  different moments, and a walk through pages is many requests. Correct when nothing is told that
  was not on display during the visit, the filter rail agrees with the grid, and what a stale read
  can lose is bounded by what was written meanwhile.
* **Favorites** are found or created in several statements while `delete_product` clears them in
  several others, and whatever else references the product comes in between too. Correct when a customer
  keeps a product once, no favorite outlives its product, and all sides are told what became of their
  write.
* **Tenancy** is a check in the first two statements of a call that nothing repeats. Correct when
  each write, refusal and answer is one that the memberships justified during that call.

`PROJECT.json` lists the hazards line by line, each with the properties that would catch it.

## 2. Modules

| Module | What it models |
|---|---|
| `Orders` | `place_order` statement by statement; `delete_product` and `update_product` as far as orders see them; orders deleted in the Django admin; crashes. Imports `OrderLedger` through a refinement mapping |
| `OrderLedger` | The abstract promise of placement: no statements, transactions or locks |
| `OrdersProofs` | Theorems about `Orders` (and `OrderLedger`), checked by TLAPS |
| `Catalog` | `create_category`, `create_product`, `update_product`, `delete_product`, and categories deleted in the Django admin |
| `Fulfilment` | `set_status`, `announce`, the sends and their pruning, `subscribe`, `unsubscribe` |
| `PushRegistry` | The abstract promise of subscribes, unsubscribes and pruning; `Fulfilment` imports it through a refinement mapping |
| `Inbox` | The polling cursor over orders that are stamped, then committed |
| `Accounts` | Registration, reset request with its mail task, reset confirmation |
| `Storefront` | Facets, the pages of the grid, the category index and the product page, between the commits of catalog writes |
| `Favorites` | Add, remove and list; the line of an order as far as a delete meets it; `update_product` and `delete_product` as far as favorites see them |
| `Tenancy` | Extends `Favorites`: memberships, slugs, images and categories under the Django admin, the checks in front of a seller's call, its reads (`/me`, members, customers), the seller gate of `/admin/me` and `/users/me` |
| `CatalogProofs`, `FulfilmentProofs`, `InboxProofs`, `AccountsProofs`, `StorefrontProofs`, `TenancyProofs` | Theorems about these modules; `TenancyProofs` is about `Favorites` too |
| `WalkProofs` | Extends `StorefrontProofs`: the theorem about walks through the pages of the grid |
| `MC*` | Instances of the above for TLC: payload sets and small functions |

### How state and actions correspond to the code

A call is an element of a set (`Requests`, `Creators`, `Sellers`, ...). `stage` is where its thread
is, `answer` its response (0 when the worker died). A row carries the id of the call that made it;
UUIDs never collide and nothing depends on their value, except where the code compares them (the
inbox cursor and `first()` in `Accounts`, whose ids are numbers). One action is one SQL statement, or
one COMMIT, or one remote call, together with the Python around it, because that is what other
threads can interleave with. A table is a function or a set holding what other transactions can see;
writes inside `transaction.atomic()` live in the call's private variables (`lines`, `price`, `draft`)
until its commit action. What PostgreSQL adds is in the guards:

* an INSERT whose unique key is held by an open transaction waits (`InsertOrder` in `Orders`,
  `Held` in `Catalog`); with a committed row it fails and the call goes on with its handler;
* deferred foreign keys are checked by `CommitOrder` and `CommitProduct`; a COMMIT waits for a
  DELETE of the referenced row that has not ended (`RowLocked`);
* `update_or_create` locks the row it found (`Locked` in `Fulfilment`).

`Orders`: `Submit`, `FastPath` (the lookup before the insert, `services.py:52-67`), `InsertOrder`
(`69-79`), `PriceLine` and `InsertLine` (`_add_line` for one item: product lookup, then options and
insert), `SaveTotal`, `CommitOrder`, `ReplyCreated`, and `Reread` (the `except IntegrityError`
branch). `DeleteLoad`, `DetachLines`, `RemoveRow`, `CommitDelete` are the statements of Django's
deletion collector for a product, whose `SET_NULL` on order lines runs before the DELETE.
`EditLoad` and `EditSave` are `update_product`: `save()` inserts when its UPDATE finds no row.
`EraseOrder` is the operator.

`Catalog`: `PostProduct`, `FindCategory`, `Probe` (one EXISTS of `_unique_slug`), `InsertProduct`,
`InsertAxes`, `CommitProduct`, `Recheck` (the `except IntegrityError` branch), and the same `Probe`
for `PostCategory` and `InsertCategory`; `LoadProduct`, `SaveProduct`; `DeleteProduct`;
`CloseCategory` and `EraseCategory` are the admin's PROTECT check and its DELETE.

`Fulfilment`: `OpenOrder`, `SaveStatus`, then for both senders `ListRows`, `Send` (accepted, dead,
logged failure, or any other exception, which ends the call with a 500), `Prune`, `Reply`;
`FindRow`, `InsertRow`, `LookAgain`, `UpdateRow` are `update_or_create`; `Unsubscribe`, `Expire`
(a browser drops its subscription for good), `EraseOrder`, `ToggleProduct`, `Crash`. A row's keys
(`p256dh`, `auth`) are left out: nothing but the row's identity decides what happens to it. Its `book` in
`PushRegistry` is what the rows say, without their ids; a worker that dies between COMMIT and response
(`Confirm`) has made an entry that it tells nobody of.

`Inbox`: `Tick`, `Stamp` (INSERT), `Commit`, `Rollback`, `SetStatus`, `Poll`, `Reload`. The client is
not in the repository. It is modelled as passing the timestamp, and the id when it breaks ties, of
the first row of the last page that was not empty; rows that share a timestamp come in any order,
since `Meta.ordering` is by `created_at` alone. The timestamp it passes is the one that it was told,
which the JSON encoder of the response has cut to milliseconds (`Millis`). The clock is monotone, and has moved on between the
stamp of an order and its COMMIT, which takes several statements.

`Accounts`: `Register`, `CheckTaken` (`_taken`, then `validate_password`), `InsertUser`,
`ReplyRegistered`; `FindAccount`, `SignLink`, `Mail`; `LoadAccount` (with `check_token` and the
password check, all on the loaded row), `RefuseLink`, `SavePassword`. A password hash is named by
the call that stored it, since a salted hash never repeats. `Fold` maps a spelling of an address to
what `iexact` compares.

`Storefront`: a visit is one request, or a walk through the pages as long as `count`, `offset` and
`limit` promise another one. `FindIds`, `Span`, `CountCategories`, `CountColours`, `CountSizes` are
the statements of `product_facets`; `CountPage` and `SlicePage` those of the grid; `Tally` and
`PickCover` those of the index, one cover query per category; `FindRow` and `Prefetch` those of the
product page, one prefetch per sub-table. `Matches`, `Precedes`, `Carries`, `Outranks` are the filters
and orderings as pure operators. `Create`, `Update`, `Delete` are whole commits, whose statements
`Catalog` models; `Restore` is the save of a product that has been deleted, which inserts it with a new
`created_at` (`Stamped`). A product's row says whether it is `new`, `whole`, `bare` (restored without
images and options) or `gone`; its `words` are what `q` finds in its name and description; what no update
changes is in the constant `Sheet`. Sort keys, words and swatches are small numbers and model values.
A filter holds the values as they were chosen; `Multi` is what the request makes of them (`_multi`).

`Favorites`: `Wish`, `FindProduct`, `GetFavorite`, `InsertFavorite`, `GetAgain` (`get_or_create`, with
its second look after an IntegrityError), `ReloadProduct` (`favorite.product` of a row that was found is
another query), `RenderProduct` (the answer shows the product's category, a query after the commit),
`RemoveFavorite`, `MyFavorites`; `PlaceLine` is the COMMIT of an order line. A customer's call starts at the
store that its slug names: nothing but the lookup of that store comes before. `LoadProduct`, `SaveProduct` are
`update_product`; `ClearFavorites`, `DetachLines`, `RemoveRow`, `CommitDelete` are the statements of the
deletion collector. `doomed` are the rows that an open delete has deleted: nobody sees them gone before
its COMMIT, and who wants to delete them or insert them again waits. `late` are the open deletes whose
product is referenced by a line, image or variant that came after the statement which cleared those: their
COMMIT fails, as it does for a favorite that came too late (`ForeignKeyHolds`). The rows themselves are not
kept, since nothing else reads them here. `astray` are the calls that hold a product as it was when it had a
category that is erased by now. Two deletes that wait for each other are a `Deadlock`, which PostgreSQL
breaks by aborting one; which statement of which delete waits for what is in its comment.

`Tenancy`: `FindStore` and `RequireMembership` are the two statements of `require_membership`; `Capability`
and `HasPermission` the role table of `permissions.py`. `PassGate` and `TellStanding` are `IsSeller` and the
answer of `/admin/me`, two queries. `CountAt` counts distinct ids over the join of orders and favorites
(`boutiques/selectors.py:17-26`). `WriteCatalog` continues an admitted call in `Favorites`.
`EditMembership`, `RenameStore`, `AddImage` and `EraseCategory` are what the Django admin does meanwhile. A category
with products in it is protected, so `EraseCategory(p)` stands for two things in a row: a PATCH moves `p` to
another category, and the old one is erased.

History variables are for properties only and guard nothing: `accepted`, `created`; `pushed`,
`saved`, `registered`, `removed`; `got`, `hidden`; `outdated` and the `late` of `Accounts`;
`change` (what the writes did since the visit began); `during` (what the tables said about a call while
it was open, which is what its answer may depend on).

## 3. Runs

| Run | Question | Instance |
|---|---|---|
| `MCOrders_race` | Does one key make one order, are repeated calls told the same, are answers true, does placement implement the ledger, is every call answered? | two calls from five payloads over two keys (sound, empty and foreign bags), one delete, admin deletions, crashes, fairness |
| `MCOrders_bags` | Do orders stay whole and frozen while their products change and vanish? | two calls with two-line, stray-option and overflowing bags, two prices, two deletes, one stale edit |
| `MCOrders_winner` (violated) | Does every IntegrityError of placement have a winner? | two calls, one delete |
| `MCCatalog_tables` | Do the tables stay consistent? | two product creates, one category create, one editor, deletes, admin deletions of categories, refused payloads |
| `MCCatalog_rivals` | Is a 409 earned, does every create end? | three creates with overlapping slugs, two tries, fairness |
| `MCCatalog_deleted` (violated) | Does a deleted product stay deleted? | one create, one editor, a delete |
| `MCFulfilment_push` | Who is told what, who is pruned, and do subscribes implement the registry? | one status change, one announcement, two subscribes of one phone for two customers and two stores |
| `MCInbox_polls` | What can a poller miss or get twice? | three orders, two stores, two statuses, two pollers, clock 0..3 with two ticks to the millisecond, fairness |
| `MCAccounts_reset` | Are identities unique, answers true, links bound to their account and password? | two registrations from five payloads, two reset requests, two confirmations |
| `MCAccounts_mailbox` (violated) | Is the unique constraint the real gate? | the same |
| `MCStorefront_visits` | What can a visitor be told, and miss, while the catalog changes? | four products of two stores from three catalogs, eighteen requests over seven filters and five orderings, one colour with a comma, two writes during a visit |
| `MCTenancy_errands` | Are favorites sound, and is every write, refusal and answer justified? | up to three customers' calls (adds, removes, a list, an order) next to up to two seller calls, two products of two stores, at most four calls and edits together |

`MCTenancy_errands` does not take every combination of calls. `MCRequests` lists those that can
disturb each other: an add next to an add, a remove or an order, with an update and a delete, or two
deletes; without one of those calls, so that an edit fits in, an add or an order next to one delete or two;
two adds and a remove; a list with an update; each kind of seller call next to an add; an update of a
product of another store.

**Why the bounds are enough.** Almost every race in this code is between two calls for one row, and a
winner that is erased leaves its key or slug to the next; a third call (`rivals`) covers one that
loses twice, and the safety and action properties that section 4 proves hold for any number, of every
module. Two writes are enough to change a catalog and change it back between two statements of
a visit, or to make one product leave the grid and another join it. `MaxPage = 2` stands for 60: walks
have up to three pages. `MaxActors = 4` bounds calls and admin edits together: two customers and two
sellers meet no edit, a customer and two deletes meet one, a customer and one seller meet two.
Two lines are the least that a change can fall between. `MaxInt` stands for 2^31-1: prices and
quantities around it hit the overflow that any width has. `Tries = 2` stands for 5: the first try
loses, the second is the last; more tries add only more of the same round. `MaxSuffix` bounds the
search for a slug above the number of slugs that the instance's calls can take. Requests (and
creates, and subscribes) are symmetric where only invariants, action properties and a refinement that is
symmetric too are checked; no liveness run uses symmetry. Deadlock is checked in the `Orders`, `Catalog` and `Tenancy` runs, where `Quiet` lets a
finished system stutter: a state in which calls wait on each other would be reported. The other
modules have no waits between calls beyond a row lock whose holder can always go on; their configurations
set `CHECK_DEADLOCK FALSE` where the system may really stop, once every call or visit is over.

**Fairness.** `Orders` and `Catalog` assume weak fairness of each call's next statement once it has
been submitted: a thread that has sent a statement gets its result, since the database has no
infinite wait that the model does not have. Submissions, deletes, edits, operators and crashes have
none; a crash ends a call, so it counts as an end. `Inbox` assumes that clients keep polling.
`Fulfilment` claims no liveness: `webpush` is called without a timeout, so nothing says that a send
returns. `Storefront` and `Tenancy` claim none either: their calls have a fixed number of statements, and
what could keep a call of `Tenancy` from ending is a wait, which deadlock checking covers.

### What the violated runs show

* `MCOrders_winner`. A product is deleted after `_add_line` priced it. COMMIT fails on the deferred
  foreign key with an IntegrityError, which `place_order` takes for a lost idempotency race; there is
  no winner to read, `Order.objects.get` raises, and the call is a 500 where the docstring
  (`orders/services.py:58`) promises the winner's order "rather than 500".
* `MCCatalog_deleted`. A PATCH loads a product, a DELETE commits, the PATCH saves: `save()` finds no
  row to update and inserts one. The product is back without images and variants, although
  the endpoint deletes "a product and everything hanging off it" (`catalog_admin_controller.py:50`).
* `MCAccounts_mailbox`. Two registrations with two spellings of one mailbox pass the
  case-insensitive check together, and the case-sensitive constraint lets both in, although
  `users/services.py:29-31` calls the constraint "the real gate". From then on a reset request for
  either spelling finds the account with the smaller key.

### Behaviour that is modelled and has no run of its own

* An accepted quantity, or a total of accepted quantities, that overflows its column is a DataError
  and a 500 (`SaveTotal`, `InsertLine`), although the comment at `orders/schemas.py:16-17` says that
  oversized input is refused at the boundary.
* `create_product`'s handler asks whether the slug is taken after its rollback. When the winner has
  been deleted by then, the race is raised as a 500 (`Recheck`).
* `create_category` does not catch the slug race: the loser is a 500 (`InsertCategory`), where
  `USER_JOURNEYS.md:259` asks for a friendly conflict.
* Two PATCH calls for different fields of one product: the later save writes back the field that the
  earlier one changed (`SaveProduct` writes the loaded row).
* Two status changes of one order save and push in any order, so the last push a customer sees may
  not be the status in the table. No document promises otherwise.
* Two overlapping confirmations with one link may both succeed; the later save wins. A confirmation
  that loads the account after a save is refused (`OutdatedLinksAreRefused`).
* Adding a favorite is a 500 when its product is deleted after the lookup (`GetAgain`, `ReloadProduct`),
  when the row that it lost to is removed before it looks again (`GetAgain`), or when the category that the
  product was loaded in is erased before the answer is serialized (`RenderProduct`), in which case the
  favorite stays. Deleting a product is a 500 when a favorite, an order line, an image or a variant is
  committed between the delete's statements (`CommitDelete`), or when two deletes of it deadlock
  (`Deadlock`). `CallsAnswerTruly` says that each of these needs another call, or an edit in the Django admin,
  to come in between, so repeating the call helps.
* The column keeps microseconds, a response tells milliseconds. A cursor that was read from a response is
  thus older than the row it came from, and `created_at__gt=since` gives that row again on every poll until a
  newer one is there: "a client asks only for orders after the last it saw" (`orders/selectors.py:34-35`) is
  not so. `RepeatsAreOfOneMilli` says how far the repetition goes.
* Two orders share a timestamp of a whole millisecond, the one with the larger id commits and is polled, the
  other commits later with a smaller id: no poll with that cursor gives it, although
  `orders/selectors.py:35-37` says that a tie "is not silently skipped". The test of that docstring has both
  orders committed before the poll. What is missed this way was uncommitted, or had another status, when the
  cursor passed it (`PassedOnlyIfHidden`).
* A 200 of `/admin/me` may list no membership: the gate and the answer are two queries (`GateMeansSeller`
  says what it does mean).
* A membership revoked, or a slug moved to another store, after `require_membership` stops nothing: the
  call goes on at the store that it was let into (`WritesOnlyByMembers` says what still holds).
* An option's value is stored as it was given (`products/schemas.py:120-123`), while a chosen value is
  taken apart at its commas and stripped (`storefront_controller.py:19-21`): a colour "red, blue" is one
  facet with a count, and whoever chooses it is shown red and blue. The promise of the filter rail
  (`FacetsKeepTheirPromise`) is therefore made for `Plain` values only.
* A product that was deleted and is saved again comes back with a new `created_at`, so it moves to the
  front of the newest (`Restore`); a walk may then be given it twice (`WalksStrayOnlyAfterChange`).
* Facets of several moments: counts, categories and price range need not agree when the catalog
  changes between them (`StaleFacetsAreBounded` says by how much).

## 4. Proofs

Each `*Proofs` module is about the module that its name starts with, `WalkProofs` about `Storefront`. Every
safety invariant and action property of the passing runs is proved. A theorem holds for every value
of the constants that satisfies that module's named assumption: any number of calls, rows, stores and
payloads, any column width, any page size. The assumptions say no more than the code and its database
give: kinds of calls do not overlap, the sets that a cardinality is taken of are finite, payloads are of
their types, slugs and ids of what is there at the start are unique, and `None` is nothing else.

| Module | Theorem | Property |
|---|---|---|
| `OrdersProofs` | `TypeCorrect` | `TypeOK` |
| | `KeySafety` | `OneOrderPerKey` |
| | `WholeOrders` | `OrderIsWhole` |
| | `TenantLines` | `StoreKeepsItsProducts` |
| | `LiveReferences` | `LinesReferenceLiveProducts` |
| | `TruthfulAnswers` | `AnswersTellTheTruth` |
| | `OneReplyPerKey` | `RepliesAgree` |
| | `FrozenOrders` | `OrdersAreFrozen` |
| | `PlacementImplementsLedger` | `ImplementsLedger` |
| `CatalogProofs` | `TypeCorrect` | `TypeOK` |
| | `CreatesWhole` | `CreatesAreWhole` |
| | `ProductsShelved` | `ProductsAreShelved` |
| | `ConflictsMeanRivals` | `ConflictMeansRivals`, when `Steady` |
| `FulfilmentProofs` | `TypeCorrect` | `TypeOK` |
| | `PushesRight` | `PushesAreRight` |
| | `SubscribesFailOnRemoval` | `SubscribeFailsOnlyOnRemoval` |
| | `PushImplementsRegistry` | `ImplementsRegistry` |
| | `LiveBrowsersStay` | `LiveBrowsersStayRegistered` |
| `InboxProofs` | `TypeCorrect` | `TypeOK` |
| | `CursorsHonest` | `CursorsAreHonest` |
| `AccountsProofs` | `TypeCorrect` | `TypeOK` |
| | `AnswersCorrect` | `AnswersAreTrue` |
| | `LinksBound` | `LinksAreBound` |
| | `PasswordsOwned` | `PasswordsNeedOwnLink` |
| `StorefrontProofs` | `TypeCorrect` | `TypeOK` |
| | `ToldIsDisplayed` | `OnlyDisplayedIsTold` |
| | `FacetsMatch` | `FacetsMatchTheGrid` |
| | `StaleFacetsBounded` | `StaleFacetsAreBounded` |
| | `CardsRepresent` | `CardsAreRepresentative` |
| | `DetailTears` | `DetailTearsOnce` |
| `WalkProofs` | `WalksStray` | `WalksStrayOnlyAfterChange` |
| `TenancyProofs` | `TypeCorrect` | `TypeOK` |
| | `FavoritesSound` | `FavoritesAreSound` |
| | `CallsToldTruly` | `CallsAnswerTruly` |
| | `RepliesJustified` | `RepliesAreJustified` |
| | `OnlyMembersWrite` | `WritesOnlyByMembers` |
| | `FavoritesGoOnRequest` | `FavoritesGoOnlyOnRequest` |

In every module the argument has the same shape: an inductive invariant says what each stage of a call
has established, a lemma per part (or per action) shows that a step keeps it, and the properties follow
from it; an action property follows from one step that starts in it. Almost none of the properties is
inductive alone, and what each invariant adds is where the reason lies.

**Placement.** `OneOrderPerKey` says nothing of an order that is still private, so a commit could break
it; `OrderIsWhole` needs to know how far an open call has come in its bag. `PlacementInv` adds:

* `TypeInv`: `TypeOK`, a call has a payload from its submission and an answer from its end (`Asked`),
  it has an item left exactly while it adds lines (`ItemLeft`), and a total that was written fits
  (`ColumnFits`). Proved first, by itself.
* `KeyExclusive`: an open transaction shares its key with no other open one and with no committed
  order. This is what the waiting INSERT gives, and what makes `CommitOrder` safe.
* `OrdersAreAccepted`: an order is committed by its own call from its own payload, and only calls
  that have reached `created`, were answered 201 or died own one.
* `LinesFollowBag` and `LineInStore`: an open call's lines are those of its bag so far, all of the
  call's own store.
* and the invariants to be proved, `LinesReferenceLiveProducts` among them: the commit check and
  the DELETE's own check see every line between them.

`PlacementImplementsLedger` maps each action to a ledger action or a stutter: `Submit` to
`Ask`, `CommitOrder` to `Accept`, the answers to `Tell`, `Refuse` or `Lose`, `EraseOrder` to
`Strike`, everything else to a stutter; `PlacementInv` supplies `Accept`'s guard (the key is free) and
`Tell`'s (the order told has the call's key).

**Catalog.** `CatalogInv` is `TypeOK`, `CallsInv`, `SlugsStay` and `ProductsAreShelved`. The unique
constraint alone does not keep slugs unique in the proof: a slug is also held by a transaction that is
not committed (`HoldsAlone`), and an update writes back a slug that it read long ago, which may have
been freed by a delete meanwhile (`SlugsStay`: a product keeps the slug of its own draft, in the table
and in the row that an editor holds). `ConflictsMeanRivals` counts: `Beaten` says that each try a create
has lost is owed to one more product that was created since. It assumes `Steady`, that no products are
deleted or none is updated, and so does the run that checks it. Without that the property is false, and
TLC shows why: an update that brings a deleted product back (`MCCatalog_deleted`) makes one rival beat a
create twice.

**Fulfilment.** A sender works on rows that it listed long ago, and prunes by primary key. What stays
true of a listed row is `StillThere`: the row with its id, if there is one, is still of the same store
and browser, whoever it is registered for by now. With that `LiveBrowsersStayRegistered` follows from
the stage `prune`, which is only reached for a browser that has dropped its subscription. A subscriber
that looks again has either the row or its removal (`SubscriberInv`); hence a 500 only after a removal.
`PushImplementsRegistry` maps the insert and the update to `Register` (`RegisterShows`), a removal that finds
its row to `Remove`, and all else to a stutter. That a removal takes one entry along needs that no two
rows are of one browser at one store (`BookLoses`), and that an update changes no other entry needs that
the row which it locked is still there and still the caller's browser's (`FoundRow`).

**Inbox.** `CursorsAreHonest` speaks of the orders that match a client now; an order becomes one by a
COMMIT or a change of status, whatever the cursor has passed meanwhile. `PassedWereSeen` therefore
speaks of every stamped order of the store, and `SeenIsPast` says why a new stamp comes after each
cursor: what others see was stamped before the clock, and so was every cursor. `GivenAreNoNewer` says that
nothing given is of a later millisecond than the cursor; what comes again is then of that millisecond.

**Accounts.** Beside the properties, `AccountsInv` says that an account is made once, by its own call
from its own payload (`MadeOnce`), that the hash which a confirmation will store is nobody's and signed
by no outdated link (`HashesAreNew`), that an outdated link is of an account with another password
(`OutdatedAreStale`), that a confirmer which loaded an outdated link has been refused (`LateAreRefused`),
and that a save follows a mail (`SavesFollowMail`).

**Storefront.** `StorefrontInv` has a part for each kind of visit, and each part says what an answer
still has to do with the catalog after the writes so far. `ToldInv`: what is told is of the store and, if
nobody wrote it, on display. `FacetsInv`: while nothing has been written, each answer is what its
statement would return now; `FacetsPromise` then compares these counts with the filters of the grid.
`StaleInv`: after any writes, each count lies between that of the products left alone and that of all
ids, since writes only make the former fewer. `ShelvesInv`: a product found counts on one shelf only, so the
counts of the categories add up; a category's count is taken as a set of marks, one per product counted,
and `PartsAddUp` maps the marks of all categories one to one into the ids. `CardsInv`: the same for the cards, and no product left
alone outranks a cover left alone. `DetailInv`: the parts read so far are all there are, unless the
product was deleted, and a product that was deleted is never whole again.

**Walks.** Each page is counted and sorted anew, so a position says nothing about the next page. What can be
followed is a rank: without a tie, a product's place in a listing is one more than the number of products
`Ahead` of it. While nothing joins the listing that number only falls, while nothing leaves it only grows,
and the offset of a walk only grows. A product's stamp changes only when it is inserted, so what is
listed keeps its ties, and what was given is listed or has left (`GivenStay`). `RepeatInv` says that what
was given, and is still listed, stays before the offset as long as nothing joined or was inserted again;
`MissInv` that what was not given stays behind it as long as nothing left.
Between the count and the slice of a page the same is said of the count that was taken: it is what ends
the walk, so a product that came late may lie beyond it. Neither part is an induction over a sequence: the
one fact needed about a sorted listing is the rank of a place in it.

**Tenancy and favorites.** The history `during` of a call holds every fact of every state in which the
call was open (`Watched`), so what a statement reads is in it. `CustomerReads` and `SellerReads` say
what a call has read by each stage, `SellerAnswers` and `CustomerAnswers` what its answer was given for.
`FavoritesAreSound` needs what an open delete has doomed and locked (`DoomedAreOfTheProduct`).
`CallsAnswerTruly` is about the reasons of a 500. A favorite that came too late to be cleared, and whatever made
a delete `late`, is of a call that the delete had as its rival, or of an edit (`RivalsSeen`); a call that is
`astray` has seen an edit (`StraysSeen`). An edit is seen as two numbers of edits in `during`, and that the
number goes up makes them different (`EditIsSeen`). That an add which lost finds its row removed only if
another call had added it needs that an open insert has no row of its own yet (`FreshIds`).

### What is only model-checked

* Liveness (`EveryCallIsAnswered`, `EveryCreateEnds`, `OrderReachesInbox`): fairness and ENABLED are
  outside the prover's reach.
* What recursive definitions and folds over data compute, since induction theorems take an operator as a
  parameter. `Total` is used in the proofs of placement only as a function of the lines.
* The three violated properties, which the code does not have.

## 5. Not modelled

* Sessions: tokens are issued, rotated and blacklisted by django-ninja-jwt.
* Saved addresses: one INSERT and one DELETE scoped to their owner, with nothing to race against.
* `store_product_image` and media storage: object storage, no database state.
* The inbox, status and announce routes pass the same membership check as the calls of `Tenancy`, and
  are not repeated there; `Orders`, `Catalog` and `Fulfilment` start after the check.
* Deleting a boutique in the Django admin, which cascades to everything in it.
* The prefetch of a grid page's images.
* User deletion: nothing under `src/` deletes a user.
* In `Favorites`, an order is the lookup of a product and the COMMIT of its line; all else of `place_order` is in
  `Orders`. The collector's SELECTs of images and variants count as one statement with its first DELETE. A PATCH
  that moves a product between categories is in `Catalog`; here it is a part of `EraseCategory`.
* The other queries that serialize an answer after its commit. Those for the images of a product, its groups
  and options, or the lines of an order, find nothing where there is nothing left, and do not raise. The answer to
  a PATCH also reads the image of each option one by one, and is a 500 when that image has just gone: no
  property here speaks of the 500 of an update. `Catalog` and `Orders` end a call at its commit, so a failure of
  these queries is not among their answers.
* The Django admin's own forms for products, favorites and users. To a call of `Favorites` they would be one
  more edit, and `CallsAnswerTruly` allows for any edit that comes in between.
* Routing, schemas' text checks, settings, the dormant queue, build scripts.

## 6. Plan

Done: `Orders` with `OrderLedger`, `Catalog`, `Fulfilment` with `PushRegistry`, `Inbox`, `Accounts`, `Storefront`,
`Favorites`, `Tenancy`, and proofs of the safety and action properties of all of them. Next:

1. An abstract mailbox for `Inbox` (an order is delivered or was hidden), shown to be implemented.
2. A product that is brought back by a stale save, followed through `Orders`, `Favorites` and
   `Catalog` together: each of them models the save as far as it sees it.
