---------------------------- MODULE PushRegistry ----------------------------
(***************************************************************************)
(* What subscribe, unsubscribe and pruning promise to the browsers of a    *)
(* store, without their statements, locks and retries: a book with one     *)
(* entry per browser and store.  A call that is told of its registration   *)
(* was entered in one step, which took the place of what the same browser  *)
(* had at that store and of nothing else; the answer may get lost, but     *)
(* none is given without an entry.  One entry leaves the book at a time.   *)
(***************************************************************************)
CONSTANTS Callers, Entries, None

VARIABLES
  book,   \* the entries: a store, an endpoint and the user that it is registered for
  told    \* the entry that each call was told of

registryVars == <<book, told>>

SameBrowser(v, w) == v.store = w.store /\ v.endpoint = w.endpoint

RegistryInit == book = {} /\ told = [c \in Callers |-> None]

\* Whoever registers is told so, unless the answer gets lost.
Register(c, w) ==
  /\ told[c] = None
  /\ told' = [told EXCEPT ![c] = w] \/ UNCHANGED told
  /\ book' = {v \in book : ~SameBrowser(v, w)} \cup {w}

Remove(w) ==
  /\ w \in book
  /\ book' = book \ {w}
  /\ UNCHANGED told

RegistryNext ==
  \/ \E c \in Callers, w \in Entries : Register(c, w)
  \/ \E w \in Entries : Remove(w)

RegistrySpec == RegistryInit /\ [][RegistryNext]_registryVars
=============================================================================
