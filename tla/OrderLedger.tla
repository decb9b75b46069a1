---------------------------- MODULE OrderLedger ----------------------------
(***************************************************************************)
(* What order placement promises, without its statements, transactions or  *)
(* locks: a ledger that accepts at most one live order per intent, never   *)
(* reprices it, and answers every call with the order its intent stands    *)
(* for.  A call that is refused has left no order behind; a call whose     *)
(* answer is lost may or may not have.                                     *)
(***************************************************************************)
CONSTANTS Requests, Intents, Totals, None

VARIABLES
  intent,    \* what each call asks for: its store, customer and key
  ledger,    \* the total of each live order; an order has the id of its call
  accepted,  \* every order ever taken into the ledger
  reply      \* what each call was told

ledgerVars == <<intent, ledger, accepted, reply>>

LedgerInit ==
  /\ intent = [r \in Requests |-> None]
  /\ ledger = [r \in Requests |-> None]
  /\ accepted = {}
  /\ reply = [r \in Requests |-> None]

Ask(r) ==
  /\ intent[r] = None
  /\ \E i \in Intents : intent' = [intent EXCEPT ![r] = i]
  /\ UNCHANGED <<ledger, accepted, reply>>

Waiting(r) == intent[r] # None /\ reply[r] = None

\* Take the order of call r: its intent has no live order, and r never had one.
Accept(r) ==
  /\ Waiting(r)
  /\ r \notin accepted
  /\ \A o \in Requests : ledger[o] # None => intent[o] # intent[r]
  /\ \E t \in Totals : ledger' = [ledger EXCEPT ![r] = t]
  /\ accepted' = accepted \cup {r}
  /\ UNCHANGED <<intent, reply>>

\* Answer with an order of the same intent; a call that made one is told of that one.
Tell(r) ==
  /\ Waiting(r)
  /\ \E o \in accepted :
       /\ intent[o] = intent[r]
       /\ r \in accepted => o = r
       /\ reply' = [reply EXCEPT ![r] = [kind |-> "order", order |-> o]]
  /\ UNCHANGED <<intent, ledger, accepted>>

Refuse(r) ==
  /\ Waiting(r)
  /\ r \notin accepted
  /\ reply' = [reply EXCEPT ![r] = [kind |-> "refused", order |-> None]]
  /\ UNCHANGED <<intent, ledger, accepted>>

Lose(r) ==
  /\ Waiting(r)
  /\ reply' = [reply EXCEPT ![r] = [kind |-> "lost", order |-> None]]
  /\ UNCHANGED <<intent, ledger, accepted>>

\* The operator strikes an order out.
Strike(o) ==
  /\ ledger[o] # None
  /\ ledger' = [ledger EXCEPT ![o] = None]
  /\ UNCHANGED <<intent, accepted, reply>>

LedgerNext ==
  \E r \in Requests : Ask(r) \/ Accept(r) \/ Tell(r) \/ Refuse(r) \/ Lose(r) \/ Strike(r)

LedgerSpec == LedgerInit /\ [][LedgerNext]_ledgerVars

-----------------------------------------------------------------------------
\* Two calls of one intent are never told of two orders that are both live: a client
\* that repeats its call until it is answered learns of one order.
RepliesAgree ==
  \A r, q \in Requests :
    /\ reply[r] # None /\ reply[q] # None
    /\ intent[r] = intent[q]
    /\ reply[r].kind = "order" /\ reply[q].kind = "order"
    /\ reply[r].order # reply[q].order
    => ledger[reply[r].order] = None \/ ledger[reply[q].order] = None
=============================================================================
