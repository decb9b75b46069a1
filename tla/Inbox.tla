------------------------------- MODULE Inbox -------------------------------
(***************************************************************************)
(* The sellers' Orders inbox (apps/orders/selectors.py, inbox): a client   *)
(* polls for the orders after the last one it saw.  An order's created_at  *)
(* is taken by the web process before the INSERT, but the order can be     *)
(* seen only from its COMMIT, so orders appear behind cursors.             *)
(*                                                                         *)
(* The cursor is kept by the client, which is outside the repository: it   *)
(* passes the created_at, and the id if it breaks ties, of the first row   *)
(* of the newest page it was given.  The column keeps microseconds, but    *)
(* what a response tells of a created_at is cut to milliseconds by the     *)
(* JSON encoder, so a cursor is mostly older than the row it came from.    *)
(***************************************************************************)
EXTENDS Naturals

CONSTANTS
  Orders,       \* the ids, which the cursor compares
  Stores, Statuses,
  Pollers,      \* the clients that poll
  StoreOf,      \* of each order
  StoreAt,      \* of each poller
  Filter,       \* the status each poller asks for, or None
  BreaksTies,   \* the pollers that pass since_id
  PerMilli,     \* clock ticks in a millisecond: 1000 in the database
  MaxTime,      \* bound on the clock
  None

ASSUME InboxAssumption ==
  /\ Orders \subseteq Nat /\ MaxTime \in Nat /\ PerMilli \in Nat \ {0}
  /\ StoreOf \in [Orders -> Stores] /\ StoreAt \in [Pollers -> Stores]
  /\ Filter \in [Pollers -> Statuses \cup {None}] /\ BreaksTies \subseteq Pollers
  /\ "new" \in Statuses /\ None \notin Statuses /\ None \notin 0 .. MaxTime
  /\ None \notin [since : 0 .. MaxTime, id : Orders]

Stamps == 0 .. MaxTime

\* what a response tells of a created_at
Millis(t) == t - (t % PerMilli)

Cursors == [since : Stamps, id : Orders]

VARIABLES
  now,          \* the clock of the web processes
  stamp,        \* each order's created_at, or None before its INSERT
  committed,    \* the orders that other transactions see
  status,       \* of each order
  cursor,       \* of each poller, None before its first order
  got,          \* history: the orders each poller has been given since it was loaded
  hidden        \* history: those a poller's cursor passed while it could not be given them

vars == <<now, stamp, committed, status, cursor, got, hidden>>
rowVars == <<stamp, committed, status>>
clientVars == <<cursor, got, hidden>>

Init ==
  /\ now = 0
  /\ stamp = [o \in Orders |-> None]
  /\ committed = {}
  /\ status = [o \in Orders |-> "new"]
  /\ cursor = [p \in Pollers |-> None]
  /\ got = [p \in Pollers |-> {}]
  /\ hidden = [p \in Pollers |-> {}]

-----------------------------------------------------------------------------
(* The rows *)

Tick == now < MaxTime /\ now' = now + 1 /\ UNCHANGED <<rowVars, clientVars>>

\* the INSERT of place_order
Stamp(o) ==
  /\ stamp[o] = None
  /\ stamp' = [stamp EXCEPT ![o] = now]
  /\ UNCHANGED <<now, committed, status, clientVars>>

\* the lines and the total take time: the clock has moved on by the COMMIT
Commit(o) ==
  /\ stamp[o] # None /\ o \notin committed /\ stamp[o] < now
  /\ committed' = committed \cup {o}
  /\ UNCHANGED <<now, stamp, status, clientVars>>

\* mutant: an order that others see is taken back
Rollback_AnyTime(o) ==
  /\ stamp[o] # None
  /\ stamp' = [stamp EXCEPT ![o] = None]
  /\ UNCHANGED <<now, committed, status, clientVars>>

Rollback(o) ==
  /\ stamp[o] # None /\ o \notin committed
  /\ stamp' = [stamp EXCEPT ![o] = None]
  /\ hidden' = [p \in Pollers |-> hidden[p] \ {o}]
  /\ UNCHANGED <<now, committed, status, cursor, got>>

\* set_status: any status may follow any other, and created_at stays
SetStatus(o, st) ==
  /\ o \in committed
  /\ status' = [status EXCEPT ![o] = st]
  /\ UNCHANGED <<now, stamp, committed, clientVars>>

-----------------------------------------------------------------------------
(* GET .../admin/orders *)

\* mutant: the id is compared whatever the stamps are
After_IdAlways(p, o) ==
  cursor[p] = None \/ /\ stamp[o] >= cursor[p].since
                      /\ p \in BreaksTies => o > cursor[p].id

\* no cursor, or created_at__gt, or the same created_at and id__gt
After(p, o) ==
  \/ cursor[p] = None
  \/ stamp[o] > cursor[p].since
  \/ p \in BreaksTies /\ stamp[o] = cursor[p].since /\ o > cursor[p].id

Matches(p, o) ==
  /\ StoreOf[o] = StoreAt[p]
  /\ Filter[p] \in {None, status[o]}

Page(p) == {o \in committed : Matches(p, o) /\ After(p, o)}

\* mutant: oldest first
First_Oldest(page) == {o \in page : \A q \in page : stamp[o] <= stamp[q]}

\* Meta.ordering is by created_at alone: orders that share it come in any order
First(page) == {o \in page : \A q \in page : stamp[o] >= stamp[q]}

\* the orders of the store that the cursor asks for and the poll does not give: they are not
\* committed yet, or have another status
Withheld(p) ==
  {o \in Orders : /\ stamp[o] # None /\ StoreOf[o] = StoreAt[p] /\ After(p, o)
                  /\ o \notin committed \/ ~Matches(p, o)}

Poll(p) ==
  /\ Page(p) # {}
  /\ \E o \in First(Page(p)) :
       cursor' = [cursor EXCEPT ![p] = [since |-> Millis(stamp[o]), id |-> o]]
  /\ got' = [got EXCEPT ![p] = @ \cup Page(p)]
  /\ UNCHANGED <<now, rowVars>>
  /\ hidden' = [hidden EXCEPT ![p] = @ \cup {o \in Withheld(p) : ~After(p, o)'}]

\* the client is loaded anew and asks without a cursor
Reload(p) ==
  /\ cursor' = [cursor EXCEPT ![p] = None]
  /\ got' = [got EXCEPT ![p] = {}]
  /\ hidden' = [hidden EXCEPT ![p] = {}]
  /\ UNCHANGED <<now, rowVars>>

Next ==
  \/ Tick
  \/ \E o \in Orders : Stamp(o) \/ Commit(o) \/ Rollback(o) \/ \E st \in Statuses : SetStatus(o, st)
  \/ \E p \in Pollers : Poll(p) \/ Reload(p)

Spec == Init /\ [][Next]_vars

\* clients keep polling
FairSpec == Spec /\ \A p \in Pollers : WF_vars(Poll(p))

-----------------------------------------------------------------------------
\* Every variable keeps its shape, and no order is seen before it has been stamped.
TypeOK ==
  /\ now \in Stamps
  /\ stamp \in [Orders -> Stamps \cup {None}]
  /\ committed \subseteq {o \in Orders : stamp[o] # None}
  /\ status \in [Orders -> Statuses]
  /\ cursor \in [Pollers -> Cursors \cup {None}]
  /\ got \in [Pollers -> SUBSET Orders] /\ hidden \in [Pollers -> SUBSET Orders]

\* An order that a poller's cursor has passed is one that the poller was given, or one that
\* was uncommitted, or had another status, at the very poll that passed it.  An order with the
\* cursor's own timestamp may be among the latter: "not silently skipped" (selectors.py:36-37)
\* is so only of what was there to be given.
PassedOnlyIfHidden ==
  \A p \in Pollers, o \in committed :
    Matches(p, o) /\ ~After(p, o) => o \in got[p] \cup hidden[p]

\* "A client asks only for orders after the last it saw" (selectors.py:34-35), as far as it is
\* so: what a client is given again, its own last order first of all, is of one millisecond,
\* the one that its cursor names, and nothing older comes back, however often it polls.
RepeatsAreOfOneMilli ==
  \A p \in Pollers : cursor[p] # None =>
    \A o \in got[p] : After(p, o) => Millis(stamp[o]) = cursor[p].since

\* Polling loses an order only to what the client could not see, and repeats only what the
\* cursor is too coarse to tell apart, whatever is committed, rolled back or moved along
\* between the polls.
CursorsAreHonest == PassedOnlyIfHidden /\ RepeatsAreOfOneMilli

\* An order that a poller asks for is given to it, unless it was hidden when the cursor
\* passed it or stops matching first.
OrderReachesInbox ==
  \A p \in Pollers, o \in Orders :
    o \in committed /\ Matches(p, o) ~> o \in got[p] \cup hidden[p] \/ ~Matches(p, o)
=============================================================================
