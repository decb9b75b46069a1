------------------------------ MODULE MCOrders ------------------------------
(* Instances of Orders for TLC: a dress of store s1 and a product of store s2. *)
EXTENDS Orders, TLC

CONSTANTS s1, s2, c1, k1, k2, dress, foreign, red, blue

MCStoreOf == [p \in Products |-> IF p = foreign THEN s2 ELSE s1]
MCOptionsOf == [p \in Products |-> IF p = dress THEN {red} ELSE {}]

First == [store |-> s1, customer |-> c1, key |-> k1]
Second == [store |-> s1, customer |-> c1, key |-> k2]

Item(p, opts, n) == [product |-> p, options |-> opts, quantity |-> n]
Post(intent, items) == [intent |-> intent, items |-> items]

\* One key posted with two different bags and an empty one, and a second key of the same
\* customer, with a sound bag and one with a product of another store.
Contested == {Post(First, <<Item(dress, {}, 1)>>), Post(First, <<Item(dress, {red}, 2)>>), Post(First, <<>>),
              Post(Second, <<Item(dress, {red}, 1)>>),
              Post(First, <<Item(dress, {}, 1), Item(foreign, {}, 1)>>)}

\* Two lines of one product, which an edit may reprice between them, and what the columns
\* or the options refuse: a total or a quantity that is too large, a stray option.
Bags == {Post(First, <<Item(dress, {}, 1), Item(dress, {}, 2)>>),
         Post(Second, <<Item(dress, {}, 1), Item(dress, {}, MaxInt - 1)>>),
         Post(Second, <<Item(dress, {}, MaxInt + 1)>>), Post(First, <<Item(dress, {blue}, 1)>>)}

\* One order whose product is deleted.
OneLine == {Post(First, <<Item(dress, {}, 1)>>)}

RequestSymmetry == Permutations(Requests)
=============================================================================
