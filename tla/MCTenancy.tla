----------------------------- MODULE MCTenancy -----------------------------
(* Two stores with a product each; rose may own one and work at the other, amina is a customer. *)
EXTENDS Tenancy

CONSTANTS rose, amina, zita, gloria, dress, bag, x, y, c1, c2, c3, s1

MCStoreOf == [p \in Products |-> IF p = dress THEN zita ELSE gloria]

MCFirstSlugs == [k \in Stores |-> IF k = zita THEN x ELSE y]
MCFirstRoles == [m \in Users \X Stores |->
  IF m[1] = amina THEN None ELSE IF m[2] = zita THEN "owner" ELSE "staff"]

\* amina ordered twice at zita and once at gloria
MCOrders == {[id |-> 1, customer |-> amina, store |-> zita], [id |-> 2, customer |-> amina, store |-> zita],
             [id |-> 3, customer |-> amina, store |-> gloria]}

Want(kind, u, p) == [kind |-> kind, customer |-> u, store |-> zita, product |-> p]
Errand(kind, p, v) == [kind |-> kind, user |-> rose, slug |-> x, product |-> p, visible |-> v]
Plan(w1, w2, e1, e2) ==
  [c \in AllCalls |-> CASE c = c1 -> w1 [] c = c2 -> w2 [] c = c3 -> None [] c = s1 -> e1 [] OTHER -> e2]

Adding == Want("add", amina, dress)
Ordering == Want("order", amina, dress)
Others == {Adding, Ordering, Want("remove", amina, dress), Want("remove", rose, dress), Want("add", rose, dress)}
Hiding == Errand("update", dress, FALSE)
Deleting == Errand("delete", dress, FALSE)

\* Two writes among two calls of customers, without an edit; with edits, a customer next to a
\* delete or two, a customer who adds twice and removes, a read next to an add, or a call of
\* each kind next to an add.
MCRequests ==
  {Plan(Adding, w, e, Deleting) : w \in Others, e \in {Hiding, Deleting}}
  \cup {Plan(w, None, e, Deleting) : w \in {Adding, Ordering}, e \in {None, Deleting}}
  \cup {[Plan(Adding, Adding, None, None) EXCEPT ![c3] = Want("remove", amina, dress)]}
  \cup {Plan(Adding, Want("list", amina, dress), Hiding, None)}
  \cup {Plan(Adding, None, Errand(k, dress, TRUE), None) : k \in StoreKinds \cup GateKinds}
  \cup {Plan(Want("add", amina, bag), None, Errand("update", p, FALSE), None) : p \in {dress, bag}}
=============================================================================
