----------------------------- MODULE Fulfilment -----------------------------
(***************************************************************************)
(* What follows an order: sellers set its status (apps/orders) and tell    *)
(* the customer's browsers (apps/push), which register, change hands, die  *)
(* and are pruned while the pushes are under way.                          *)
(*                                                                         *)
(* One action is one SQL statement or one webpush call.  Both run in the   *)
(* request, in autocommit, so nothing is undone when a later one fails.    *)
(* Only update_or_create is a transaction: it locks the row it found.      *)
(***************************************************************************)
EXTENDS FiniteSets

CONSTANTS
  Sellers,       \* PATCH .../admin/orders/{id} calls
  Announcers,    \* POST .../admin/push/announce/{product_id} calls
  Subscribers,   \* POST .../push/subscribe calls; a row carries the id of the call that made it
  Orders, Statuses, Stores, Users, Endpoints,
  StoreOf, CustomerOf,   \* of each order
  Registrations,         \* the (store, endpoint, user) triples that browsers register
  None

Senders == Sellers \cup Announcers
Calls == Senders \cup Subscribers

Registered == [store: Stores, endpoint: Endpoints, user: Users]
Rows == [id: Subscribers, store: Stores, endpoint: Endpoints, user: Users]
\* a status push has an order, a customer and a status, a new-arrival push has none
Jobs == [store: Stores, order: Orders, status: Statuses] \cup [store: Stores]
Pushes == [store: Stores, endpoint: Endpoints, job: Jobs]

ASSUME FulfilmentAssumption ==
  /\ Sellers \cap Announcers = {} /\ Senders \cap Subscribers = {}
  /\ StoreOf \in [Orders -> Stores] /\ CustomerOf \in [Orders -> Users]
  /\ Registrations \subseteq Registered
  /\ None \notin Statuses \cup Rows \cup Jobs \cup Registered \cup {200, 201, 202, 404, 500}

VARIABLES
  stage, answer,        \* of each call
  job, todo, hit,       \* of each sender: what it sends, to which rows, and the row it prunes
  wish, held,           \* of each subscriber: what it registers, and the row it has locked
  status, visible,      \* each order's status, and whether each store's new product is visible
  subs,                 \* the push_subscriptions table
  alive,                \* the browsers that have not dropped their subscription
  pushed,               \* history: every push that reached a browser
  saved, registered, removed   \* history: of status, of subs, and of what left subs

vars == <<stage, answer, job, todo, hit, wish, held, status, visible, subs, alive,
          pushed, saved, registered, removed>>
senderVars == <<job, todo, hit>>
subscriberVars == <<wish, held>>
storeVars == <<status, visible, saved>>
tableVars == <<subs, registered, removed>>

-----------------------------------------------------------------------------
Of(s, e) == {r \in subs : r.store = s /\ r.endpoint = e}

\* a subscribe call that is about to update the row holds its lock
Locked(r) == \E u \in Subscribers : stage[u] = "update" /\ held[u] = r.id

IsStatus(j) == "order" \in DOMAIN j

\* mutant: the rows of the whole store
Audience_Everyone(j) == {r \in subs : r.store = j.store}

\* the rows that notify_order_status and broadcast_new_arrival list
Audience(j) == {r \in subs : r.store = j.store /\ (IsStatus(j) => r.user = CustomerOf[j.order])}

Init ==
  /\ stage = [c \in Calls |-> "idle"]
  /\ answer = [c \in Calls |-> None]
  /\ job = [c \in Senders |-> None]
  /\ todo = [c \in Senders |-> {}]
  /\ hit = [c \in Senders |-> None]
  /\ wish = [u \in Subscribers |-> None]
  /\ held = [u \in Subscribers |-> None]
  /\ status = [o \in Orders |-> "new"]
  /\ visible = [s \in Stores |-> TRUE]
  /\ subs = {}
  /\ alive = Endpoints
  /\ pushed = {} /\ saved = {} /\ registered = {} /\ removed = {}

Goto(c, s) == stage' = [stage EXCEPT ![c] = s] /\ UNCHANGED answer

Answer(c, code) ==
  /\ stage' = [stage EXCEPT ![c] = "done"]
  /\ answer' = [answer EXCEPT ![c] = code]

-----------------------------------------------------------------------------
(* PATCH .../admin/orders/{id}: set_status *)

\* get_object_or_404(Order, store=store, id=order_id)
OpenOrder(c) ==
  /\ stage[c] = "idle" /\ c \in Sellers
  /\ \E s \in Stores, o \in Orders, st \in Statuses :
       /\ job' = [job EXCEPT ![c] = [store |-> s, order |-> o, status |-> st]]
       /\ IF status[o] # None /\ StoreOf[o] = s THEN Goto(c, "save") ELSE Answer(c, 404)
  /\ UNCHANGED <<todo, hit, subscriberVars, storeVars, tableVars, alive, pushed>>

\* save(update_fields=[...]): an UPDATE that finds no row is an error
SaveStatus(c) ==
  /\ stage[c] = "save"
  /\ LET j == job[c] IN
     IF status[j.order] = None
     THEN Answer(c, 500) /\ UNCHANGED <<status, saved>>
     ELSE /\ status' = [status EXCEPT ![j.order] = j.status]
          /\ saved' = saved \cup {<<j.order, j.status>>}
          /\ Goto(c, "list")
  /\ UNCHANGED <<visible, senderVars, subscriberVars, tableVars, alive, pushed>>

-----------------------------------------------------------------------------
(* POST .../admin/push/announce/{product_id} *)

Announce(c) ==
  /\ stage[c] = "idle" /\ c \in Announcers
  /\ \E s \in Stores :
       /\ job' = [job EXCEPT ![c] = [store |-> s]]
       /\ IF visible[s] THEN Goto(c, "list") ELSE Answer(c, 404)
  /\ UNCHANGED <<todo, hit, subscriberVars, storeVars, tableVars, alive, pushed>>

-----------------------------------------------------------------------------
(* The sends of both: list(PushSubscription.objects.filter(...)), then _send each *)

ListRows(c) ==
  /\ stage[c] = "list"
  /\ todo' = [todo EXCEPT ![c] = Audience(job[c])]
  /\ Goto(c, "send")
  /\ UNCHANGED <<job, hit, subscriberVars, storeVars, tableVars, alive, pushed>>

Deliver(c, r) ==
  pushed' = pushed \cup {[store |-> r.store, endpoint |-> r.endpoint, job |-> job[c]]}

\* mutant: any failure prunes
Send_PruneOnFailure(c) ==
  /\ stage[c] = "send"
  /\ \E r \in todo[c] :
       /\ todo' = [todo EXCEPT ![c] = @ \ {r}]
       /\ \/ r.endpoint \in alive /\ Deliver(c, r) /\ UNCHANGED <<stage, answer, hit>>
          \/ Goto(c, "prune") /\ hit' = [hit EXCEPT ![c] = r] /\ UNCHANGED pushed
  /\ UNCHANGED <<job, subscriberVars, storeVars, tableVars, alive>>

\* webpush: accepted; 404 or 410 of a dead subscription; another WebPushException, which
\* is logged; or any other exception, which ends the call, the browser reached or not.
Send(c) ==
  /\ stage[c] = "send"
  /\ \E r \in todo[c] :
       /\ todo' = [todo EXCEPT ![c] = @ \ {r}]
       /\ \/ r.endpoint \in alive /\ Deliver(c, r) /\ UNCHANGED <<stage, answer, hit>>
          \/ /\ r.endpoint \notin alive /\ Goto(c, "prune")
             /\ hit' = [hit EXCEPT ![c] = r] /\ UNCHANGED pushed
          \/ UNCHANGED <<stage, answer, hit, pushed>>
          \/ r.endpoint \in alive /\ Deliver(c, r) /\ Answer(c, 500) /\ UNCHANGED hit
          \/ Answer(c, 500) /\ UNCHANGED <<hit, pushed>>
  /\ UNCHANGED <<job, subscriberVars, storeVars, tableVars, alive>>

\* subscription.delete(), by primary key, whatever the row has become
Prune(c) ==
  /\ stage[c] = "prune"
  /\ ~Locked(hit[c])
  /\ LET gone == {r \in subs : r.id = hit[c].id} IN
       /\ subs' = subs \ gone
       /\ removed' = removed \cup {<<r.store, r.endpoint>> : r \in gone}
  /\ hit' = [hit EXCEPT ![c] = None]
  /\ Goto(c, "send")
  /\ UNCHANGED <<job, todo, subscriberVars, storeVars, registered, alive, pushed>>

Reply(c) ==
  /\ stage[c] = "send" /\ todo[c] = {}
  /\ Answer(c, IF IsStatus(job[c]) THEN 200 ELSE 202)
  /\ UNCHANGED <<senderVars, subscriberVars, storeVars, tableVars, alive, pushed>>

-----------------------------------------------------------------------------
(* POST .../push/subscribe: update_or_create *)

FindRow(u) ==
  /\ stage[u] = "idle" /\ u \in Subscribers
  /\ \E w \in Registrations :
       /\ w.endpoint \in alive
       /\ wish' = [wish EXCEPT ![u] = w]
       /\ \/ \E r \in Of(w.store, w.endpoint) :
               ~Locked(r) /\ held' = [held EXCEPT ![u] = r.id] /\ Goto(u, "update")
          \/ Of(w.store, w.endpoint) = {} /\ Goto(u, "insert") /\ UNCHANGED held
  /\ UNCHANGED <<senderVars, storeVars, tableVars, alive, pushed>>

\* 201, unless the worker dies between the COMMIT and the response
Confirm(u) == Answer(u, 201) \/ Answer(u, 0)

Insert(u) ==
  /\ subs' = subs \cup {[id |-> u, store |-> wish[u].store, endpoint |-> wish[u].endpoint,
                         user |-> wish[u].user]}
  /\ registered' = registered \cup {wish[u]}
  /\ Confirm(u)

\* mutant: uniq_push_subscription is missing
InsertRow_NoConstraint(u) ==
  /\ stage[u] = "insert"
  /\ Insert(u)
  /\ UNCHANGED <<senderVars, subscriberVars, storeVars, removed, alive, pushed>>

\* mutant: the IntegrityError of the lost race is not caught
InsertRow_NoSecondLook(u) ==
  /\ stage[u] = "insert"
  /\ IF Of(wish[u].store, wish[u].endpoint) = {}
     THEN Insert(u)
     ELSE Answer(u, 500) /\ UNCHANGED <<subs, registered>>
  /\ UNCHANGED <<senderVars, subscriberVars, storeVars, removed, alive, pushed>>

InsertRow(u) ==
  /\ stage[u] = "insert"
  /\ IF Of(wish[u].store, wish[u].endpoint) = {}
     THEN Insert(u)
     ELSE Goto(u, "recheck") /\ UNCHANGED <<subs, registered>>
  /\ UNCHANGED <<senderVars, subscriberVars, storeVars, removed, alive, pushed>>

\* get_or_create after its IntegrityError: the row that won, or the error again
LookAgain(u) ==
  /\ stage[u] = "recheck"
  /\ LET found == Of(wish[u].store, wish[u].endpoint) IN
     \/ \E r \in found : ~Locked(r) /\ held' = [held EXCEPT ![u] = r.id] /\ Goto(u, "update")
     \/ found = {} /\ Answer(u, 500) /\ UNCHANGED held
  /\ UNCHANGED <<wish, senderVars, storeVars, tableVars, alive, pushed>>

\* mutant: only the keys are refreshed, the user is not among the defaults
UpdateRow_KeysOnly(u) ==
  /\ stage[u] = "update"
  /\ Confirm(u)
  /\ UNCHANGED <<senderVars, subscriberVars, storeVars, tableVars, alive, pushed>>

HandedTo(r, user) == [id |-> r.id, store |-> r.store, endpoint |-> r.endpoint, user |-> user]

\* the found row, under its lock, gets the caller as its user
UpdateRow(u) ==
  /\ stage[u] = "update"
  /\ LET found == {r \in subs : r.id = held[u]} IN
       subs' = (subs \ found) \cup {HandedTo(r, wish[u].user) : r \in found}
  /\ registered' = registered \cup {wish[u]}
  /\ Confirm(u)
  /\ UNCHANGED <<senderVars, subscriberVars, storeVars, removed, alive, pushed>>

-----------------------------------------------------------------------------
(* The world around: POST .../push/unsubscribe, the browsers, the operator, the catalog *)

Unsubscribe(s, e, user) ==
  LET mine == {r \in Of(s, e) : r.user = user} IN
  /\ mine # {} /\ \A r \in mine : ~Locked(r)
  /\ subs' = subs \ mine
  /\ removed' = removed \cup {<<s, e>>}
  /\ UNCHANGED <<stage, answer, senderVars, subscriberVars, storeVars, registered, alive, pushed>>

\* a push endpoint that the browser has dropped never comes back
Expire(e) ==
  /\ e \in alive
  /\ alive' = alive \ {e}
  /\ UNCHANGED <<stage, answer, senderVars, subscriberVars, storeVars, tableVars, pushed>>

EraseOrder(o) ==
  /\ status[o] # None
  /\ status' = [status EXCEPT ![o] = None]
  /\ UNCHANGED <<stage, answer, senderVars, subscriberVars, visible, saved, tableVars, alive, pushed>>

ToggleProduct(s) ==
  /\ visible' = [visible EXCEPT ![s] = ~@]
  /\ UNCHANGED <<stage, answer, senderVars, subscriberVars, status, saved, tableVars, alive, pushed>>

\* the worker dies: what has been saved and sent stays
Crash(c) ==
  /\ stage[c] \notin {"idle", "done"}
  /\ Answer(c, 0)
  /\ UNCHANGED <<senderVars, subscriberVars, storeVars, tableVars, alive, pushed>>

-----------------------------------------------------------------------------
Next ==
  \/ \E c \in Sellers : OpenOrder(c) \/ SaveStatus(c)
  \/ \E c \in Announcers : Announce(c)
  \/ \E c \in Senders : ListRows(c) \/ Send(c) \/ Prune(c) \/ Reply(c)
  \/ \E u \in Subscribers : FindRow(u) \/ InsertRow(u) \/ LookAgain(u) \/ UpdateRow(u)
  \/ \E c \in Calls : Crash(c)
  \/ \E s \in Stores, e \in Endpoints, user \in Users : Unsubscribe(s, e, user)
  \/ \E e \in Endpoints : Expire(e)
  \/ \E o \in Orders : EraseOrder(o)
  \/ \E s \in Stores : ToggleProduct(s)

Spec == Init /\ [][Next]_vars

-----------------------------------------------------------------------------
\* One row per browser and store, although a browser registers from two calls at once, for
\* two users, while other calls prune and unsubscribe it (uniq_push_subscription).
OneRegistrationPerBrowser ==
  \A q, r \in subs : q.store = r.store /\ q.endpoint = r.endpoint => q = r

\* Every variable keeps its shape; a call that prunes knows which row, and a browser keeps to
\* one row at each store.
TypeOK ==
  /\ stage \in [Calls -> {"idle", "save", "list", "send", "prune", "insert", "recheck",
                         "update", "done"}]
  /\ answer \in [Calls -> {None, 0, 200, 201, 202, 404, 500}]
  /\ job \in [Senders -> Jobs \cup {None}]
  /\ todo \in [Senders -> SUBSET Rows] /\ hit \in [Senders -> Rows \cup {None}]
  /\ \A c \in Senders : stage[c] = "prune" => hit[c] \in Rows
  /\ wish \in [Subscribers -> Registered \cup {None}]
  /\ held \in [Subscribers -> Subscribers \cup {None}]
  /\ status \in [Orders -> Statuses \cup {None, "new"}] /\ visible \in [Stores -> BOOLEAN]
  /\ subs \subseteq Rows /\ alive \subseteq Endpoints /\ pushed \subseteq Pushes
  /\ saved \subseteq Orders \X Statuses /\ registered \subseteq Registered
  /\ removed \subseteq Stores \X Endpoints
  /\ OneRegistrationPerBrowser

\* A customer is told only of statuses that their order has really had, whatever
\* interleaving of sellers, failures and crashes (set_status saves, then notifies).
PushesWereSaved == \A p \in pushed : IsStatus(p.job) => <<p.job.order, p.job.status>> \in saved

\* A status push reaches only a browser that the order's customer registered at the
\* order's store, even when the rows were listed before the browser changed hands.
PushesReachRegistrants ==
  \A p \in pushed : IsStatus(p.job) =>
    /\ p.store = StoreOf[p.job.order]
    /\ [store |-> p.store, endpoint |-> p.endpoint, user |-> CustomerOf[p.job.order]] \in registered

\* What a customer is told by a push is so, and is told to nobody else (notify_order_status),
\* whatever was saved, listed, pruned and registered between the statements.
PushesAreRight == PushesWereSaved /\ PushesReachRegistrants

\* Subscribes, unsubscribes and pruning keep the promise of PushRegistry: a subscribe that is
\* told 201 took effect in that step, whatever it lost, waited for and looked up before, and
\* no statement touches the entry of more than one browser at one store.
Registration(r) == [store |-> r.store, endpoint |-> r.endpoint, user |-> r.user]
registryBook == {Registration(r) : r \in subs}
registryTold == [u \in Subscribers |-> IF answer[u] = 201 THEN wish[u] ELSE None]
Registry == INSTANCE PushRegistry WITH
  Callers <- Subscribers, Entries <- Registered, book <- registryBook, told <- registryTold
ImplementsRegistry == Registry!RegistrySpec

\* A browser that has not dropped its subscription loses its row only by an unsubscribe of
\* the row's user: neither a failing push nor a stale list of rows prunes it (_send).
LiveBrowsersStayRegistered ==
  [][\A r \in subs : r.endpoint \in alive /\ Of(r.store, r.endpoint)' = {} =>
       Unsubscribe(r.store, r.endpoint, r.user)]_vars

\* Two subscribes of one browser do not fail on each other: a subscribe is a 500 only when
\* the row that it lost to has been removed before it looked again.
SubscribeFailsOnlyOnRemoval ==
  \A u \in Subscribers : answer[u] = 500 => <<wish[u].store, wish[u].endpoint>> \in removed
=============================================================================
