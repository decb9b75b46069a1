----------------------------- MODULE MCCatalog -----------------------------
(* Instances of Catalog for TLC: slugs are a base and a suffix. *)
EXTENDS Catalog, TLC

CONSTANTS red, redTwo, shelf, annex

\* The name redTwo is "red 2": it slugifies to what red gets as its second candidate.
MCNames == {red, redTwo}
MCSlugs == (MCNames \cup Shelves) \X (1..MaxSuffix)
MCCandidates ==
  [x \in MCNames |-> [n \in 1..MaxSuffix |-> IF x = redTwo /\ n = 1 THEN <<red, 2>> ELSE <<x, n>>]]
\* The first category is called red as well: categories have slugs of their own.
MCShelfSlug == [s \in Shelves |-> IF s = shelf THEN <<red, 1>> ELSE <<s, 1>>]

Post(x, s, n, axes) == [name |-> x, shelf |-> MCShelfSlug[s], price |-> n, axes |-> axes]

\* Sound payloads whose slugs collide.
Rivals == {Post(red, shelf, 1, "distinct"), Post(redTwo, shelf, 1, "distinct")}

\* Payloads that the tables refuse, next to a sound one.
Flawed == {Post(red, shelf, 1, "distinct"), Post(red, shelf, 1, "duplicate"),
           Post(red, shelf, MaxInt + 1, "distinct"), Post(red, shelf, 0 - 1, "distinct")}

OnePost == {Post(red, shelf, 1, "distinct")}

\* One field each, a move to the annex, and a price that the column refuses.
Price(n) == [f \in {"price"} |-> n]
Move(k) == [f \in {"category"} |-> k]
Changes == {Price(0 - 1), Move(annex)}
NoPatches == {}

CreatorSymmetry == Permutations(Creators)
=============================================================================
