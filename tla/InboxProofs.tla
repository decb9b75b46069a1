---------------------------- MODULE InboxProofs ----------------------------
(***************************************************************************)
(* Theorems about Inbox, for every set of orders, stores and clients, with *)
(* or without a status filter and a tie break.                             *)
(*                                                                         *)
(* CursorsAreHonest speaks of the orders that match a client now; an order *)
(* becomes one by a COMMIT or a change of status, whatever the cursor has  *)
(* passed meanwhile.  The inductive invariant therefore speaks of every    *)
(* order that was stamped, and says why a new stamp is after each cursor.  *)
(***************************************************************************)
EXTENDS Inbox, TLAPS

\* A stamped order of the store that a cursor has passed was given or hidden.
PassedWereSeen ==
  \A p \in Pollers, o \in Orders :
    stamp[o] # None /\ StoreOf[o] = StoreAt[p] /\ ~After(p, o) => o \in got[p] \cup hidden[p]

\* What others see was stamped in the past, and so is every cursor; only what others see is
\* given, and only with a cursor.
SeenIsPast ==
  /\ \A o \in committed : stamp[o] < now
  /\ \A p \in Pollers : cursor[p] # None => cursor[p].since < now
  /\ \A p \in Pollers : got[p] \subseteq committed
  /\ \A p \in Pollers : cursor[p] = None => got[p] = {}

\* A cursor is a whole millisecond, and nothing that was given is of a later one.
GivenAreNoNewer ==
  \A p \in Pollers : cursor[p] # None =>
    /\ \E t \in Stamps : cursor[p].since = Millis(t)
    /\ \A o \in got[p] : Millis(stamp[o]) <= cursor[p].since

InboxInv == TypeOK /\ PassedWereSeen /\ SeenIsPast /\ GivenAreNoNewer

-----------------------------------------------------------------------------
LEMMA NoneIsNoStamp == None \notin Stamps /\ MaxTime \in Nat /\ Stamps \subseteq Nat /\ Orders \subseteq Nat
  BY InboxAssumption DEF InboxAssumption, Stamps

LEMMA TimesGrows ==
  ASSUME NEW n \in Nat, NEW a \in Nat, NEW b \in Nat, a <= b
  PROVE  n * a <= n * b
<1>1. b - a \in Nat /\ b = a + (b - a)
  OBVIOUS
<1>2. n * (a + (b - a)) = n * a + n * (b - a)
  BY <1>1
<1>3. n * a \in Nat /\ n * (b - a) \in Nat
  BY <1>1
<1>4. n * b = n * a + n * (b - a)
  BY <1>1, <1>2
<1>5. QED  BY <1>3, <1>4

\* Millis(t) is the largest whole number of milliseconds that is not after t.
LEMMA MillisIsFloor ==
  ASSUME NEW t \in Nat
  PROVE  /\ Millis(t) \in Nat /\ Millis(t) <= t
         /\ \A s \in Nat : Millis(s) <= t => Millis(s) <= Millis(t)
<1> DEFINE P == PerMilli
           k(s) == s \div P
<1>0. P \in Nat \ {0}
  BY InboxAssumption DEF InboxAssumption
<1>1. ASSUME NEW s \in Nat
      PROVE  k(s) \in Nat /\ P * k(s) \in Nat /\ Millis(s) = P * k(s) /\ Millis(s) <= s /\ s < P * k(s) + P
  <2>1. s = P * (s \div P) + (s % P) /\ s % P \in 0 .. (P - 1) /\ s \div P \in Nat
    BY <1>0
  <2>2. Millis(s) = P * k(s)
    BY <1>0, <2>1 DEF Millis
  <2> HIDE DEF P
  <2>3. P * (s \div P) \in Nat
    BY <1>0, <2>1
  <2>4. QED  BY <1>0, <2>1, <2>2, <2>3
<1> HIDE DEF P, k
<1>k. \A s \in Nat : k(s) \in Nat
  BY <1>1
<1>2. ASSUME NEW s \in Nat, Millis(s) <= t PROVE Millis(s) <= Millis(t)
  <2>1. k(s) <= k(t)
    <3> SUFFICES ASSUME k(s) >= k(t) + 1 PROVE FALSE
      BY <1>1
    <3>0. P \in Nat /\ k(t) + 1 \in Nat /\ k(s) \in Nat /\ k(t) + 1 <= k(s)
      BY <1>0, <1>k
    <3>1. P * (k(t) + 1) <= P * k(s)
      BY ONLY <3>0, TimesGrows, Zenon
    <3>2. P * (k(t) + 1) = P * k(t) + P
      BY <1>0, <1>1
    <3>3. QED  BY <1>0, <1>1, <1>2, <3>1, <3>2
  <2>2. P * k(s) <= P * k(t)
    BY <1>0, <1>1, <2>1, TimesGrows
  <2>3. QED  BY <1>1, <2>2
<1>3. QED  BY <1>1, <1>2

LEMMA MillisOfStamps == \A t \in Stamps : Millis(t) \in Stamps /\ Millis(t) <= t
  BY NoneIsNoStamp, MillisIsFloor DEF Stamps

LEMMA CommittedAreStamped ==
  ASSUME TypeOK
  PROVE  \A o \in committed : o \in Orders /\ stamp[o] \in Stamps /\ stamp[o] # None
  BY DEF TypeOK

LEMMA InitInv == Init => InboxInv
  BY InboxAssumption DEF InboxAssumption, Init, InboxInv, TypeOK, PassedWereSeen, SeenIsPast, GivenAreNoNewer, Stamps

LEMMA TypeStep == TypeOK /\ [Next]_vars => TypeOK'
<1> SUFFICES ASSUME TypeOK, [Next]_vars PROVE TypeOK'
  OBVIOUS
<1> USE DEF TypeOK, rowVars, clientVars
<1>1. CASE Tick
  BY <1>1, NoneIsNoStamp DEF Tick, Stamps
<1>2. ASSUME NEW o \in Orders, Stamp(o) PROVE TypeOK'
  BY <1>2, NoneIsNoStamp DEF Stamp
<1>3. ASSUME NEW o \in Orders, Commit(o) PROVE TypeOK'
  BY <1>3 DEF Commit
<1>4. ASSUME NEW o \in Orders, Rollback(o) PROVE TypeOK'
  BY <1>4 DEF Rollback
<1>5. ASSUME NEW o \in Orders, NEW st \in Statuses, SetStatus(o, st) PROVE TypeOK'
  BY <1>5 DEF SetStatus
<1>6. ASSUME NEW p \in Pollers, Poll(p) PROVE TypeOK'
  <2>1. PICK o \in First(Page(p)) : cursor' = [cursor EXCEPT ![p] = [since |-> Millis(stamp[o]), id |-> o]]
    BY <1>6 DEF Poll
  <2>2. [since |-> Millis(stamp[o]), id |-> o] \in Cursors
    BY CommittedAreStamped, MillisOfStamps DEF First, Page, Cursors
  <2>3. Page(p) \subseteq Orders /\ Withheld(p) \subseteq Orders
    BY DEF Page, Withheld
  <2>4. got' \in [Pollers -> SUBSET Orders] /\ hidden' \in [Pollers -> SUBSET Orders]
    BY <1>6, <2>3 DEF Poll
  <2>5. QED  BY <1>6, <2>1, <2>2, <2>4 DEF Poll
<1>7. ASSUME NEW p \in Pollers, Reload(p) PROVE TypeOK'
  BY <1>7 DEF Reload
<1>8. CASE UNCHANGED vars
  BY <1>8 DEF vars
<1>9. QED  BY <1>1, <1>2, <1>3, <1>4, <1>5, <1>6, <1>7, <1>8 DEF Next

\* A poll moves the cursor to an order of its page that no order of the page is newer than.
LEMMA PollMoves ==
  ASSUME TypeOK, SeenIsPast, NEW p \in Pollers, Poll(p)
  PROVE  \E o \in Page(p) :
           /\ \A q \in Page(p) : stamp[q] <= stamp[o]
           /\ cursor'[p] # None /\ cursor'[p].since = Millis(stamp[o])
           /\ stamp[o] \in Stamps /\ stamp[o] < now
           /\ cursor[p] # None => cursor[p].since <= stamp[o]
<1>1. PICK o \in First(Page(p)) : cursor' = [cursor EXCEPT ![p] = [since |-> Millis(stamp[o]), id |-> o]]
  BY DEF Poll
<1>2. o \in Page(p) /\ o \in committed /\ \A q \in Page(p) : stamp[o] >= stamp[q]
  BY DEF First, Page
<1>3. \A q \in Page(p) : stamp[q] \in Stamps
  BY CommittedAreStamped DEF Page
<1>4. \A q \in Page(p) : stamp[q] <= stamp[o]
  BY <1>2, <1>3, NoneIsNoStamp
<1>5. cursor'[p] # None /\ cursor'[p].since = Millis(stamp[o]) /\ stamp[o] < now
  <2>1. [since |-> Millis(stamp[o]), id |-> o] # None
    BY <1>2, <1>3, MillisOfStamps, InboxAssumption DEF InboxAssumption, Stamps, TypeOK
  <2>2. QED  BY <1>1, <1>2, <2>1 DEF TypeOK, SeenIsPast
<1>6. ASSUME cursor[p] # None PROVE cursor[p].since <= stamp[o]
  <2>1. cursor[p].since \in Nat /\ stamp[o] \in Nat
    BY <1>2, <1>3, <1>6, NoneIsNoStamp DEF TypeOK, Cursors
  <2>2. QED  BY <1>2, <1>6, <2>1 DEF Page, After
<1>7. QED  BY <1>2, <1>3, <1>4, <1>5, <1>6

LEMMA PassedStep == TypeOK /\ SeenIsPast /\ PassedWereSeen /\ [Next]_vars => PassedWereSeen'
<1> SUFFICES ASSUME TypeOK, SeenIsPast, PassedWereSeen, [Next]_vars PROVE PassedWereSeen'
  OBVIOUS
<1> SUFFICES ASSUME NEW p \in Pollers, NEW o \in Orders, stamp'[o] # None, StoreOf[o] = StoreAt[p], ~After(p, o)'
             PROVE  o \in got'[p] \cup hidden'[p]
  BY DEF PassedWereSeen
<1> USE DEF rowVars, clientVars
<1>1. ASSUME UNCHANGED <<cursor, got, hidden>>, stamp'[o] = stamp[o] PROVE o \in got'[p] \cup hidden'[p]
  BY <1>1 DEF PassedWereSeen, After
<1>2. CASE Tick
  BY <1>1, <1>2 DEF Tick
<1>3. ASSUME NEW q \in Orders, Stamp(q) PROVE o \in got'[p] \cup hidden'[p]
  <2>1. CASE q # o
    BY <1>1, <1>3, <2>1 DEF Stamp, TypeOK
  <2>2. CASE q = o
    <3>1. stamp'[o] = now /\ cursor' = cursor
      BY <1>3, <2>2 DEF Stamp, TypeOK
    <3>2. cursor[p] # None /\ ~(now > cursor[p].since)
      BY <3>1 DEF After
    <3>3. cursor[p].since \in Nat /\ now \in Nat
      BY <3>2, NoneIsNoStamp DEF TypeOK, Cursors
    <3>4. QED  BY <3>2, <3>3 DEF SeenIsPast
  <2>3. QED  BY <2>1, <2>2
<1>4. ASSUME NEW q \in Orders, Rollback(q) PROVE o \in got'[p] \cup hidden'[p]
  <2>1. q # o /\ stamp'[o] = stamp[o] /\ cursor' = cursor
    BY <1>4 DEF Rollback, TypeOK
  <2>2. o \in got[p] \cup hidden[p]
    BY <2>1 DEF PassedWereSeen, After
  <2>3. QED  BY <1>4, <2>1, <2>2 DEF Rollback
<1>5. ASSUME NEW q \in Orders, Commit(q) \/ \E st \in Statuses : SetStatus(q, st)
      PROVE  o \in got'[p] \cup hidden'[p]
  BY <1>1, <1>5 DEF Commit, SetStatus
<1>6. ASSUME NEW r \in Pollers, Poll(r) PROVE o \in got'[p] \cup hidden'[p]
  <2>1. CASE r # p
    BY <1>6, <2>1 DEF Poll, TypeOK, PassedWereSeen, After
  <2>2. CASE r = p
    <3>1. got'[p] = got[p] \cup Page(p) /\ hidden'[p] = hidden[p] \cup {q \in Withheld(p) : ~After(p, q)'}
      BY <1>6, <2>2 DEF Poll, TypeOK
    <3>2. stamp[o] # None
      BY <1>6 DEF Poll
    <3>3. CASE o \in Page(p)
      BY <3>1, <3>3
    <3>4. CASE ~After(p, o)
      BY <3>1, <3>2, <3>4 DEF PassedWereSeen
    <3>5. CASE After(p, o) /\ o \notin Page(p)
      BY <3>1, <3>2, <3>5 DEF Withheld, Page
    <3>6. QED  BY <3>3, <3>4, <3>5
  <2>3. QED  BY <2>1, <2>2
<1>7. ASSUME NEW r \in Pollers, Reload(r) PROVE o \in got'[p] \cup hidden'[p]
  <2>1. r # p
    BY <1>7 DEF Reload, TypeOK, After
  <2>2. QED  BY <1>7, <2>1 DEF Reload, TypeOK, PassedWereSeen, After
<1>8. CASE UNCHANGED vars
  BY <1>1, <1>8 DEF vars
<1>9. QED  BY <1>2, <1>3, <1>4, <1>5, <1>6, <1>7, <1>8 DEF Next

LEMMA PastStep == TypeOK /\ SeenIsPast /\ [Next]_vars => SeenIsPast'
<1> SUFFICES ASSUME TypeOK, SeenIsPast, [Next]_vars PROVE SeenIsPast'
  OBVIOUS
<1> USE DEF SeenIsPast, rowVars, clientVars
<1>1. CASE Tick
  <2>1. \A o \in committed : stamp[o] \in Nat
    BY CommittedAreStamped, NoneIsNoStamp
  <2>2. \A p \in Pollers : cursor[p] # None => cursor[p].since \in Nat
    BY NoneIsNoStamp DEF TypeOK, Cursors
  <2>3. QED  BY <1>1, <2>1, <2>2, NoneIsNoStamp DEF Tick, TypeOK
<1>2. ASSUME NEW o \in Orders, Stamp(o) PROVE SeenIsPast'
  BY <1>2, CommittedAreStamped DEF Stamp, TypeOK
<1>3. ASSUME NEW o \in Orders, Commit(o) PROVE SeenIsPast'
  BY <1>3 DEF Commit
<1>4. ASSUME NEW o \in Orders, Rollback(o) PROVE SeenIsPast'
  BY <1>4 DEF Rollback, TypeOK
<1>5. ASSUME NEW o \in Orders, NEW st \in Statuses, SetStatus(o, st) PROVE SeenIsPast'
  BY <1>5 DEF SetStatus
<1>6. ASSUME NEW p \in Pollers, Poll(p) PROVE SeenIsPast'
  <2>1. cursor'[p].since < now /\ cursor'[p] # None
    <3>1. PICK t \in Stamps : cursor'[p] # None /\ cursor'[p].since = Millis(t) /\ t < now
      BY <1>6, PollMoves
    <3>2. Millis(t) <= t /\ Millis(t) \in Nat /\ t \in Nat /\ now \in Nat
      BY MillisOfStamps, NoneIsNoStamp DEF TypeOK
    <3>3. QED  BY <3>1, <3>2
  <2>2. Page(p) \subseteq committed
    BY DEF Page
  <2>3. \A q \in Pollers : cursor'[q] # None => cursor'[q].since < now
    BY <1>6, <2>1 DEF Poll, TypeOK
  <2>4. \A q \in Pollers : got'[q] \subseteq committed
    BY <1>6, <2>2 DEF Poll, TypeOK
  <2>5. \A q \in Pollers : cursor'[q] = None => got'[q] = {}
    BY <1>6, <2>1 DEF Poll, TypeOK
  <2>6. QED  BY <1>6, <2>3, <2>4, <2>5 DEF Poll
<1>7. ASSUME NEW p \in Pollers, Reload(p) PROVE SeenIsPast'
  BY <1>7 DEF Reload, TypeOK
<1>8. CASE UNCHANGED vars
  BY <1>8 DEF vars
<1>9. QED  BY <1>1, <1>2, <1>3, <1>4, <1>5, <1>6, <1>7, <1>8 DEF Next

LEMMA GivenStep == TypeOK /\ SeenIsPast /\ GivenAreNoNewer /\ [Next]_vars => GivenAreNoNewer'
<1> SUFFICES ASSUME TypeOK, SeenIsPast, GivenAreNoNewer, [Next]_vars PROVE GivenAreNoNewer'
  OBVIOUS
<1> USE DEF GivenAreNoNewer, rowVars, clientVars
<1>1. CASE Tick
  BY <1>1 DEF Tick
<1>2. ASSUME NEW o \in Orders, Stamp(o) \/ Rollback(o) PROVE GivenAreNoNewer'
  <2>1. \A q \in committed : stamp'[q] = stamp[q]
    BY <1>2, CommittedAreStamped DEF Stamp, Rollback, TypeOK
  <2>2. cursor' = cursor /\ got' = got
    BY <1>2 DEF Stamp, Rollback
  <2>3. QED  BY <2>1, <2>2 DEF SeenIsPast
<1>3. ASSUME NEW o \in Orders, Commit(o) \/ \E st \in Statuses : SetStatus(o, st)
      PROVE  GivenAreNoNewer'
  BY <1>3 DEF Commit, SetStatus
<1>4. ASSUME NEW p \in Pollers, Poll(p) PROVE GivenAreNoNewer'
  <2>1. PICK o \in Page(p) :
         /\ \A q \in Page(p) : stamp[q] <= stamp[o]
         /\ cursor'[p].since = Millis(stamp[o]) /\ stamp[o] \in Stamps
         /\ cursor[p] # None => cursor[p].since <= stamp[o]
    BY <1>4, PollMoves
  <2>2. \A q \in committed : stamp[q] \in Stamps
    BY CommittedAreStamped
  <2>3. ASSUME NEW q \in got'[p] PROVE Millis(stamp[q]) <= Millis(stamp[o])
    <3>0. stamp[o] \in Nat /\ \A s \in Nat : Millis(s) <= stamp[o] => Millis(s) <= Millis(stamp[o])
      BY <2>1, MillisIsFloor, NoneIsNoStamp
    <3>1. CASE q \in Page(p)
      <4>1. stamp[q] \in Nat /\ stamp[q] <= stamp[o] /\ Millis(stamp[q]) \in Nat /\ Millis(stamp[q]) <= stamp[q]
        BY <2>1, <2>2, <3>1, MillisOfStamps, NoneIsNoStamp DEF Page
      <4>2. QED  BY <3>0, <4>1
    <3>2. CASE q \in got[p]
      <4>1. cursor[p] # None
        BY <3>2 DEF SeenIsPast
      <4>2. Millis(stamp[q]) <= cursor[p].since /\ cursor[p].since <= stamp[o]
        BY <2>1, <3>2, <4>1
      <4>3. stamp[q] \in Nat /\ Millis(stamp[q]) \in Nat /\ cursor[p].since \in Nat
        <5>1. q \in committed
          BY <3>2 DEF SeenIsPast
        <5>2. QED  BY <2>2, <4>1, <5>1, MillisOfStamps, NoneIsNoStamp DEF TypeOK, Cursors
      <4>4. Millis(stamp[q]) <= stamp[o]
        BY <3>0, <4>2, <4>3
      <4>5. QED  BY <3>0, <4>3, <4>4
    <3>3. QED  BY <1>4, <2>3, <3>1, <3>2 DEF Poll, TypeOK
  <2>4. QED  BY <1>4, <2>1, <2>3 DEF Poll, TypeOK
<1>5. ASSUME NEW p \in Pollers, Reload(p) PROVE GivenAreNoNewer'
  BY <1>5 DEF Reload, TypeOK
<1>6. CASE UNCHANGED vars
  BY <1>6 DEF vars
<1>7. QED  BY <1>1, <1>2, <1>3, <1>4, <1>5, <1>6 DEF Next

-----------------------------------------------------------------------------
(* The theorems *)

LEMMA InvStep == InboxInv /\ [Next]_vars => InboxInv'
  BY TypeStep, PassedStep, PastStep, GivenStep DEF InboxInv

LEMMA InboxInvariant == Spec => []InboxInv
  BY InitInv, InvStep, PTL DEF Spec

\* Every variable keeps its shape, and no order is seen before it has been stamped.
THEOREM TypeCorrect == Spec => []TypeOK
  BY InboxInvariant, PTL DEF InboxInv

\* A cursor passes only what its client was given, or could not be given by the poll that
\* moved it; and what is given again is of the cursor's own millisecond: for any number of
\* orders in flight, clients, filters and changes of status, and any precision of the clock.
THEOREM CursorsHonest == Spec => []CursorsAreHonest
<1>1. ASSUME InboxInv PROVE CursorsAreHonest
  <2>1. ASSUME NEW p \in Pollers, NEW o \in committed, Matches(p, o), ~After(p, o)
        PROVE  o \in got[p] \cup hidden[p]
    BY <1>1, <2>1 DEF InboxInv, TypeOK, PassedWereSeen, Matches
  <2>2. ASSUME NEW p \in Pollers, cursor[p] # None, NEW o \in got[p], After(p, o)
        PROVE  Millis(stamp[o]) = cursor[p].since
    <3>1. stamp[o] \in Stamps /\ cursor[p].since \in Nat
      BY <1>1, <2>2, CommittedAreStamped, NoneIsNoStamp DEF InboxInv, SeenIsPast, TypeOK, Cursors
    <3>2. PICK t \in Stamps : cursor[p].since = Millis(t)
      BY <1>1, <2>2 DEF InboxInv, GivenAreNoNewer
    <3>3. Millis(stamp[o]) <= cursor[p].since
      BY <1>1, <2>2 DEF InboxInv, GivenAreNoNewer
    <3>4. cursor[p].since <= stamp[o] /\ stamp[o] \in Nat /\ t \in Nat
      <4>1. stamp[o] > cursor[p].since \/ stamp[o] = cursor[p].since
        BY <2>2 DEF After
      <4>2. stamp[o] \in Nat /\ t \in Nat
        BY <3>1, <3>2, NoneIsNoStamp
      <4>3. QED  BY <3>1, <4>1, <4>2
    <3>5. cursor[p].since <= Millis(stamp[o]) /\ Millis(stamp[o]) \in Nat
      BY <3>2, <3>4, MillisIsFloor
    <3>6. QED  BY <3>1, <3>3, <3>5
  <2>3. PassedOnlyIfHidden
    BY <2>1 DEF PassedOnlyIfHidden
  <2>4. RepeatsAreOfOneMilli
    BY <2>2 DEF RepeatsAreOfOneMilli
  <2>5. QED  BY <2>3, <2>4 DEF CursorsAreHonest
<1>2. QED  BY <1>1, InboxInvariant, PTL
=============================================================================
