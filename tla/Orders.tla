------------------------------- MODULE Orders -------------------------------
(***************************************************************************)
(* Order placement, apps/orders, racing with the catalog writes it reads.  *)
(*                                                                         *)
(* Every request runs in a thread of its own and PostgreSQL runs each SQL  *)
(* statement atomically at READ COMMITTED: one action is one statement (or *)
(* one COMMIT) together with the Python code around it.  What a request    *)
(* writes inside transaction.atomic() is private (lines, price) until      *)
(* CommitOrder.  Foreign keys are DEFERRABLE INITIALLY DEFERRED, so they   *)
(* are checked by COMMIT; a unique conflict with a transaction that is     *)
(* still open waits for that transaction to end.                           *)
(***************************************************************************)
EXTENDS Naturals, Sequences, FiniteSets, Functions

CONSTANTS
  Requests,    \* POST /stores/{slug}/orders calls; the order a call creates carries its id
  Deleters,    \* sellers' DELETE /admin/products/{id} calls
  Editors,     \* sellers' PATCH /admin/products/{id} calls
  AdminErases, \* whether an operator deletes orders in the Django admin
  Stores, Customers, Keys, Products, Options,
  StoreOf,     \* the store a product belongs to
  OptionsOf,   \* the variant options a product is created with
  Payloads,    \* what a client may post
  Prices,      \* prices a seller may set
  MaxInt,      \* the largest value of a PositiveIntegerField column
  None

Intents == [store: Stores, customer: Customers, key: Keys]
Items == [product: Products, options: SUBSET Options, quantity: Nat \ {0}]

\* rows of products, order_items and orders, and the responses of a call
ProductRows == [price: Prices, visible: BOOLEAN]
Lines == [product: Products \cup {None}, quantity: 1..MaxInt, unitPrice: 0..MaxInt]
OrderRows == [intent: Intents, total: 0..MaxInt, lines: Seq(Lines)]
Codes == {0, 200, 201, 400, 404, 500}
Answers == [code: Codes, order: Requests \cup {None}]

\* what the abstract ledger says to a call
Replies == [kind: {"order", "refused", "lost"}, order: Requests \cup {None}]

Stages == {"idle", "lookup", "insert", "price", "line", "total", "commit", "created", "reread", "done"}
Removals == [stage: {"idle", "detach", "remove", "commit"},
             product: Products \cup {None}, detached: SUBSET Requests]

ASSUME ConstantsAssumption ==
  /\ MaxInt \in Nat
  /\ AdminErases \in BOOLEAN
  /\ Prices \subseteq 0..MaxInt
  /\ StoreOf \in [Products -> Stores]
  /\ OptionsOf \in [Products -> SUBSET Options]
  /\ Payloads \subseteq [intent: Intents, items: Seq(Items)]
  /\ None \notin Requests \cup Products \cup Payloads \cup Intents \cup 0..MaxInt
  /\ None \notin ProductRows \cup OrderRows \cup Answers \cup Replies

VARIABLES
  stage, payload, price, lines, answer,   \* of each request
  orders, product, options,               \* the committed tables
  accepted,                               \* history: every order ever committed
  removal, editing                        \* of each deleter and editor

vars == <<stage, payload, price, lines, answer, orders, product, options, accepted,
          removal, editing>>

catalogVars == <<product, options, removal, editing>>
tableVars == <<orders, accepted, product, options>>

-----------------------------------------------------------------------------
(* Queries *)

\* sum(_add_line(...)): quantity times the unit price of every line
Total(ls) == SumFunction([i \in DOMAIN ls |-> ls[i].quantity * ls[i].unitPrice])

\* _existing_order: the committed order that carries the request's intent
Existing(i) == {o \in Requests : orders[o] # None /\ orders[o].intent = i}

\* the committed orders with a line that still references product p
Referencing(p) ==
  {o \in Requests : orders[o] # None /\ \E i \in DOMAIN orders[o].lines : orders[o].lines[i].product = p}

\* mutant: the store filter is forgotten
OnSale_AnyStore(p, s) == product[p] # None /\ product[p].visible

\* get_object_or_404(Product, store=store, id=..., is_visible=True) finds p
OnSale(p, s) == StoreOf[p] = s /\ product[p] # None /\ product[p].visible

InTransaction(r) == stage[r] \in {"price", "line", "total", "commit"}

\* a delete that has removed the row of p and not yet committed holds its lock
RowLocked(p) == \E d \in Deleters : removal[d].stage = "commit" /\ removal[d].product = p

\* mutant: OrderItem.product with db_constraint=False
ForeignKeysHold_Unchecked(r) == TRUE

\* the deferred foreign keys of the request's lines, as COMMIT checks them
ForeignKeysHold(r) == \A i \in DOMAIN lines[r] : product[lines[r][i].product] # None

\* mutant: prices are read again from the catalog when the order is totalled
Charged_LivePrices(r) ==
  SumFunction([i \in DOMAIN lines[r] |->
    LET l == lines[r][i] IN l.quantity * (IF product[l.product] = None THEN 0 ELSE product[l.product].price)])

\* order.total, summed from the prices that the lines were given
Charged(r) == Total(lines[r])

NextItem(r) == payload[r].items[Len(lines[r]) + 1]

-----------------------------------------------------------------------------
Init ==
  /\ stage = [r \in Requests |-> "idle"]
  /\ payload = [r \in Requests |-> None]
  /\ price = [r \in Requests |-> 0]
  /\ lines = [r \in Requests |-> <<>>]
  /\ answer = [r \in Requests |-> None]
  /\ orders = [r \in Requests |-> None]
  /\ product \in [Products -> ProductRows]
  /\ options = OptionsOf
  /\ accepted = {}
  /\ removal = [d \in Deleters |-> [stage |-> "idle", product |-> None, detached |-> {}]]
  /\ editing = [e \in Editors |-> None]

Goto(r, s) == stage' = [stage EXCEPT ![r] = s] /\ UNCHANGED answer

\* the response, or the exception that becomes one; an open transaction rolls back
Answer(r, code, o) ==
  /\ stage' = [stage EXCEPT ![r] = "done"]
  /\ answer' = [answer EXCEPT ![r] = [code |-> code, order |-> o]]

-----------------------------------------------------------------------------
(* POST /stores/{slug}/orders: OrdersController.place and place_order *)

Submit(r) ==
  /\ stage[r] = "idle"
  /\ \E p \in Payloads : payload' = [payload EXCEPT ![r] = p]
  /\ Goto(r, "lookup")
  /\ UNCHANGED <<price, lines, tableVars, removal, editing>>

FastPath(r) ==
  /\ stage[r] = "lookup"
  /\ LET found == Existing(payload[r].intent) IN
     \/ \E o \in found : Answer(r, 200, o)
     \/ found = {} /\ payload[r].items = <<>> /\ Answer(r, 400, None)
     \/ found = {} /\ payload[r].items # <<>> /\ Goto(r, "insert")
  /\ UNCHANGED <<payload, price, lines, tableVars, removal, editing>>

\* mutant: the fast-path check is the only gate, uniq_order_idempotency is missing
InsertOrder_NoConstraint(r) ==
  /\ stage[r] = "insert"
  /\ Goto(r, "price")
  /\ UNCHANGED <<payload, price, lines, tableVars, removal, editing>>

\* mutant: without transaction.atomic() the INSERT commits at once
InsertOrder_Autocommit(r) ==
  /\ stage[r] = "insert"
  /\ IF Existing(payload[r].intent) = {}
     THEN /\ orders' = [orders EXCEPT ![r] = [intent |-> payload[r].intent, total |-> 0, lines |-> <<>>]]
          /\ accepted' = accepted \cup {r}
          /\ Goto(r, "price")
     ELSE Goto(r, "reread") /\ UNCHANGED <<orders, accepted>>
  /\ UNCHANGED <<payload, price, lines, catalogVars>>

\* Order.objects.create: the unique constraint waits for an open duplicate
InsertOrder(r) ==
  /\ stage[r] = "insert"
  /\ \A q \in Requests \ {r} : InTransaction(q) => payload[q].intent # payload[r].intent
  /\ Goto(r, IF Existing(payload[r].intent) = {} THEN "price" ELSE "reread")
  /\ UNCHANGED <<payload, price, lines, tableVars, removal, editing>>

\* _add_line, first statement: the visible product of this store, or 404
PriceLine(r) ==
  /\ stage[r] = "price"
  /\ LET p == NextItem(r).product
         sold == OnSale(p, payload[r].intent.store)
     IN \/ sold /\ price' = [price EXCEPT ![r] = product[p].price] /\ Goto(r, "line")
        \/ ~sold /\ Answer(r, 404, None) /\ UNCHANGED price
  /\ UNCHANGED <<payload, lines, tableVars, removal, editing>>

\* _resolve_options, then OrderItem.objects.create with the snapshots
InsertLine(r) ==
  /\ stage[r] = "line"
  /\ LET item == NextItem(r)
         ours == item.options \subseteq options[item.product]
         line == [product |-> item.product, quantity |-> item.quantity, unitPrice |-> price[r]]
     IN \/ ~ours /\ Answer(r, 400, None) /\ UNCHANGED lines
        \/ ours /\ item.quantity > MaxInt /\ Answer(r, 500, None) /\ UNCHANGED lines
        \/ /\ ours /\ item.quantity <= MaxInt
           /\ lines' = [lines EXCEPT ![r] = Append(@, line)]
           /\ Goto(r, IF Len(lines[r]) + 1 = Len(payload[r].items) THEN "total" ELSE "price")
  /\ UNCHANGED <<payload, price, tableVars, removal, editing>>

\* mutant: the column takes any total
SaveTotal_Unbounded(r) ==
  /\ stage[r] = "total"
  /\ Goto(r, "commit")
  /\ UNCHANGED <<payload, price, lines, tableVars, removal, editing>>

\* order.save(update_fields=["total"]): a total wider than its column is a DataError
SaveTotal(r) ==
  /\ stage[r] = "total"
  /\ IF Charged(r) \in 0..MaxInt THEN Goto(r, "commit") ELSE Answer(r, 500, None)
  /\ UNCHANGED <<payload, price, lines, tableVars, removal, editing>>

\* the end of transaction.atomic(): the deferred foreign keys decide
CommitOrder(r) ==
  /\ stage[r] = "commit"
  /\ \A i \in DOMAIN lines[r] : ~RowLocked(lines[r][i].product)
  /\ IF ForeignKeysHold(r)
     THEN /\ orders' = [orders EXCEPT ![r] = [intent |-> payload[r].intent,
                                              total |-> Charged(r), lines |-> lines[r]]]
          /\ accepted' = accepted \cup {r}
          /\ Goto(r, "created")
     ELSE Goto(r, "reread") /\ UNCHANGED <<orders, accepted>>
  /\ UNCHANGED <<payload, price, lines, catalogVars>>

ReplyCreated(r) ==
  /\ stage[r] = "created"
  /\ Answer(r, 201, r)
  /\ UNCHANGED <<payload, price, lines, tableVars, removal, editing>>

\* mutant: the loser answers with the order object it failed to commit
Reread_OwnOrder(r) ==
  /\ stage[r] = "reread"
  /\ Answer(r, 200, r)
  /\ UNCHANGED <<payload, price, lines, tableVars, removal, editing>>

\* mutant: the loser looks for the winner until one shows up
Reread_UntilFound(r) ==
  /\ stage[r] = "reread"
  /\ \E o \in Existing(payload[r].intent) : Answer(r, 200, o)
  /\ UNCHANGED <<payload, price, lines, tableVars, removal, editing>>

\* except IntegrityError: Order.objects.get, whose DoesNotExist is a 500
Reread(r) ==
  /\ stage[r] = "reread"
  /\ LET found == Existing(payload[r].intent) IN
     \/ \E o \in found : Answer(r, 200, o)
     \/ found = {} /\ Answer(r, 500, None)
  /\ UNCHANGED <<payload, price, lines, tableVars, removal, editing>>

\* the worker or its connection dies: the transaction rolls back, no answer arrives
Crash(r) ==
  /\ stage[r] \notin {"idle", "done"}
  /\ Answer(r, 0, None)
  /\ UNCHANGED <<payload, price, lines, tableVars, removal, editing>>

-----------------------------------------------------------------------------
(* The catalog writes and the order deletion that placement races with *)

Proceed(d, s, p, hit) ==
  removal' = [removal EXCEPT ![d] = [stage |-> s, product |-> p, detached |-> hit]]

DeleteLoad(d) ==
  /\ removal[d].stage = "idle"
  /\ \E p \in Products : product[p] # None /\ Proceed(d, "detach", p, {})
  /\ UNCHANGED <<stage, payload, price, lines, answer, tableVars, editing>>

\* UPDATE order_items SET product_id = NULL, waiting for another delete's row locks
DetachLines(d) ==
  /\ removal[d].stage = "detach"
  /\ LET hit == Referencing(removal[d].product) IN
       /\ \A e \in Deleters \ {d} : removal[e].product = removal[d].product
                                      => removal[e].detached \cap hit = {}
       /\ Proceed(d, "remove", removal[d].product, hit)
  /\ UNCHANGED <<stage, payload, price, lines, answer, tableVars, editing>>

\* DELETE FROM products: nothing to do when another delete was faster
RemoveRow(d) ==
  /\ removal[d].stage = "remove"
  /\ ~RowLocked(removal[d].product)
  /\ IF product[removal[d].product] = None
     THEN Proceed(d, "idle", None, {})
     ELSE Proceed(d, "commit", removal[d].product, removal[d].detached)
  /\ UNCHANGED <<stage, payload, price, lines, answer, tableVars, editing>>

\* mutant: OrderItem.product with on_delete=CASCADE
Detached_Cascade(row, p) == [row EXCEPT !.lines = SelectSeq(row.lines, LAMBDA l : l.product # p)]

Detach(line, p) == IF line.product = p THEN [line EXCEPT !.product = None] ELSE line
Detached(row, p) == [row EXCEPT !.lines = [i \in DOMAIN row.lines |-> Detach(row.lines[i], p)]]

\* COMMIT: a line committed after DetachLines still references the row, and fails it
CommitDelete(d) ==
  /\ removal[d].stage = "commit"
  /\ LET p == removal[d].product IN
     IF Referencing(p) \subseteq removal[d].detached
     THEN /\ orders' = [o \in Requests |-> IF orders[o] = None THEN None ELSE Detached(orders[o], p)]
          /\ product' = [product EXCEPT ![p] = None]
          /\ options' = [options EXCEPT ![p] = {}]
     ELSE UNCHANGED <<orders, product, options>>
  /\ Proceed(d, "idle", None, {})
  /\ UNCHANGED <<stage, payload, price, lines, answer, accepted, editing>>

EditLoad(e) ==
  /\ editing[e] = None
  /\ \E p \in Products : product[p] # None /\ editing' = [editing EXCEPT ![e] = p]
  /\ UNCHANGED <<stage, payload, price, lines, answer, tableVars, removal>>

\* product.save(): the whole row, inserted again when it was deleted meanwhile
EditSave(e) ==
  /\ editing[e] # None
  /\ ~RowLocked(editing[e])
  /\ \E row \in ProductRows : product' = [product EXCEPT ![editing[e]] = row]
  /\ editing' = [editing EXCEPT ![e] = None]
  /\ UNCHANGED <<stage, payload, price, lines, answer, orders, accepted, options, removal>>

\* the Django admin deletes an order and, by cascade, its lines
EraseOrder(o) ==
  /\ AdminErases
  /\ orders[o] # None
  /\ \A d \in Deleters : o \notin removal[d].detached
  /\ orders' = [orders EXCEPT ![o] = None]
  /\ UNCHANGED <<stage, payload, price, lines, answer, accepted, catalogVars>>

-----------------------------------------------------------------------------
Place(r) ==
  \/ FastPath(r) \/ InsertOrder(r) \/ PriceLine(r) \/ InsertLine(r) \/ SaveTotal(r)
  \/ CommitOrder(r) \/ ReplyCreated(r) \/ Reread(r)

Remove(d) == DetachLines(d) \/ RemoveRow(d) \/ CommitDelete(d)

\* every call has its answer and no delete is under way
Quiet ==
  /\ \A r \in Requests : stage[r] = "done"
  /\ \A d \in Deleters : removal[d].stage = "idle"
  /\ UNCHANGED vars

Next ==
  \/ \E r \in Requests : Submit(r) \/ Place(r) \/ Crash(r) \/ EraseOrder(r)
  \/ \E d \in Deleters : DeleteLoad(d) \/ Remove(d)
  \/ \E e \in Editors : EditLoad(e) \/ EditSave(e)
  \/ Quiet

Spec == Init /\ [][Next]_vars

\* a thread that has started a statement gets its result; nobody has to submit,
\* delete, edit or crash
FairSpec ==
  /\ Spec
  /\ \A r \in Requests : WF_vars(Place(r))
  /\ \A d \in Deleters : WF_vars(Remove(d))

-----------------------------------------------------------------------------
(* Properties *)

Committed == {o \in Requests : orders[o] # None}

\* Every row, transaction and answer keeps its shape: in particular a committed total and
\* a unit price fit their columns, whatever was posted.
TypeOK ==
  /\ stage \in [Requests -> Stages]
  /\ payload \in [Requests -> Payloads \cup {None}]
  /\ price \in [Requests -> 0..MaxInt]
  /\ lines \in [Requests -> Seq(Lines)]
  /\ answer \in [Requests -> Answers \cup {None}]
  /\ orders \in [Requests -> OrderRows \cup {None}]
  /\ product \in [Products -> ProductRows \cup {None}]
  /\ options \in [Products -> SUBSET Options]
  /\ accepted \subseteq Requests
  /\ removal \in [Deleters -> Removals]
  /\ editing \in [Editors -> Products \cup {None}]

\* A double-submit never becomes two orders: one order per store, customer and key,
\* however the requests, their retries and the catalog writes interleave.
OneOrderPerKey ==
  \A o, q \in Committed : orders[o].intent = orders[q].intent => o = q

\* A committed order is whole: a line for every item of the bag that was posted, in
\* its order and quantity, and a total that is the sum of its own lines.
OrderIsWhole ==
  \A o \in Committed :
    /\ orders[o].total = Total(orders[o].lines)
    /\ Len(orders[o].lines) = Len(payload[o].items)
    /\ \A i \in DOMAIN orders[o].lines :
         /\ orders[o].lines[i].quantity = payload[o].items[i].quantity
         /\ orders[o].lines[i].product \in {payload[o].items[i].product, None}

\* A seller's orders only ever sell that seller's products.
StoreKeepsItsProducts ==
  \A o \in Committed : \A i \in DOMAIN orders[o].lines :
    orders[o].lines[i].product # None => StoreOf[orders[o].lines[i].product] = orders[o].intent.store

\* Deleting a product never leaves an order line that points at no product: either the
\* line was detached, or the delete or the order failed.
LinesReferenceLiveProducts ==
  \A p \in Products : Referencing(p) # {} => product[p] # None

\* A call refused with an error has recorded nothing, and a call answered with an order
\* names one that was committed for the same store, customer and key.
AnswersTellTheTruth ==
  \A r \in Requests : answer[r] # None =>
    /\ answer[r].code \in {400, 404, 500} => r \notin accepted
    /\ answer[r].code \in {200, 201} =>
         /\ answer[r].order \in accepted
         /\ payload[answer[r].order].intent = payload[r].intent

\* What a buyer ordered is frozen: after the commit neither an edit, nor a delete of the
\* product, nor a replay changes a price, a quantity or the total; a line may only lose
\* its product reference, and the order may only be erased whole.
Frozen(o) ==
  orders[o] # None /\ orders'[o] # None =>
    /\ orders'[o].total = orders[o].total
    /\ orders'[o].intent = orders[o].intent
    /\ DOMAIN orders'[o].lines = DOMAIN orders[o].lines
    /\ \A i \in DOMAIN orders[o].lines :
         /\ orders'[o].lines[i].unitPrice = orders[o].lines[i].unitPrice
         /\ orders'[o].lines[i].quantity = orders[o].lines[i].quantity
         /\ orders'[o].lines[i].product \in {orders[o].lines[i].product, None}
OrdersAreFrozen == [][\A o \in Requests : Frozen(o)]_vars

\* Without a crash every call gets an answer: the waits on the unique key and on product
\* rows never form a cycle.
EveryCallIsAnswered ==
  \A r \in Requests : stage[r] = "lookup" ~> stage[r] = "done"

\* Placement keeps the promise of OrderLedger: every statement, commit, rollback, crash
\* and concurrent catalog write is a step of the ledger or changes nothing it shows.
ledgerIntent == [r \in Requests |-> IF payload[r] = None THEN None ELSE payload[r].intent]
ledgerTotal == [r \in Requests |-> IF orders[r] = None THEN None ELSE orders[r].total]
replyKind(code) == IF code = 0 THEN "lost" ELSE IF code \in {200, 201} THEN "order" ELSE "refused"
ledgerReply == [r \in Requests |->
  IF answer[r] = None THEN None ELSE [kind |-> replyKind(answer[r].code), order |-> answer[r].order]]
Ledger == INSTANCE OrderLedger WITH
  Totals <- 0..MaxInt, intent <- ledgerIntent, ledger <- ledgerTotal, reply <- ledgerReply
ImplementsLedger == Ledger!LedgerSpec

\* Two calls with one key are never told of two orders that both exist, so a client that
\* repeats its call until it is answered learns of one order.
RepliesAgree == Ledger!RepliesAgree

\* services.py, place_order's docstring: the IntegrityError of an INSERT that lost the
\* race is answered with the winner's order "rather than 500".
ConflictHasAWinner ==
  \A r \in Requests : stage[r] = "reread" => Existing(payload[r].intent) # {}
=============================================================================
