-------------------------- MODULE FulfilmentProofs --------------------------
(***************************************************************************)
(* Theorems about Fulfilment, for any number of status changes,            *)
(* announcements, subscribes, orders and browsers.                         *)
(*                                                                         *)
(* A sender works on rows that it listed long ago.  What stays true of     *)
(* them is their key: a row that is still there with the id of a listed    *)
(* one is of the same store and browser (StillThere), whoever it is of by  *)
(* now, and its id is used once (RowsInv).                               *)
(***************************************************************************)
EXTENDS Fulfilment, TLAPS

\* A row that was listed: what has its id now is the same browser's row.
StillThere(q) ==
  /\ stage[q.id] = "done"
  /\ \A r \in subs : r.id = q.id => r.store = q.store /\ r.endpoint = q.endpoint

SenderInv(c) ==
  /\ stage[c] \in {"idle", "save", "list", "send", "prune", "done"}
  /\ stage[c] \in {"save", "list", "send", "prune"} =>
       job[c] \in Jobs /\ (IsStatus(job[c]) => StoreOf[job[c].order] = job[c].store)
  /\ stage[c] = "save" => IsStatus(job[c])
  /\ stage[c] \in {"list", "send", "prune"} /\ IsStatus(job[c]) => <<job[c].order, job[c].status>> \in saved
  /\ \A q \in todo[c] : StillThere(q)
  /\ stage[c] \in {"send", "prune"} =>
       \A q \in todo[c] : /\ q.store = job[c].store /\ Registration(q) \in registered
                          /\ IsStatus(job[c]) => q.user = CustomerOf[job[c].order]
  /\ stage[c] = "prune" => StillThere(hit[c]) /\ hit[c].endpoint \notin alive

SubscriberInv(u) ==
  /\ stage[u] \in {"idle", "insert", "recheck", "update", "done"}
  /\ stage[u] # "idle" => wish[u] \in Registered
  /\ stage[u] # "done" => answer[u] = None
  /\ stage[u] = "recheck" =>
       Of(wish[u].store, wish[u].endpoint) # {} \/ <<wish[u].store, wish[u].endpoint>> \in removed
  /\ stage[u] = "update" =>
       \E r \in subs : r.id = held[u] /\ r.store = wish[u].store /\ r.endpoint = wish[u].endpoint
  /\ answer[u] = 500 => <<wish[u].store, wish[u].endpoint>> \in removed

\* A row is inserted once, by its own call, and says what somebody registered.
RowsInv ==
  /\ \A r \in subs : stage[r.id] = "done" /\ Registration(r) \in registered
  /\ \A q, r \in subs : q.id = r.id => q = r

FulfilmentInv ==
  /\ TypeOK /\ RowsInv /\ PushesAreRight
  /\ \A c \in Senders : SenderInv(c)
  /\ \A u \in Subscribers : SubscriberInv(u)

-----------------------------------------------------------------------------
(* The constants *)

LEMMA Apart ==
  /\ Sellers \cap Announcers = {} /\ Senders \cap Subscribers = {}
  /\ Senders = Sellers \cup Announcers /\ Calls = Senders \cup Subscribers
  BY FulfilmentAssumption DEF FulfilmentAssumption, Senders, Calls

LEMMA NoneIsApart ==
  /\ None \notin Statuses /\ None \notin Rows /\ None \notin Jobs /\ None \notin Registered
  /\ None \notin {200, 201, 202, 404, 500}
  BY FulfilmentAssumption DEF FulfilmentAssumption

LEMMA StatusJob ==
  ASSUME NEW s \in Stores, NEW o \in Orders, NEW st \in Statuses, NEW j,
         j = [store |-> s, order |-> o, status |-> st]
  PROVE  j \in Jobs /\ IsStatus(j) /\ j.store = s /\ j.order = o /\ j.status = st
  BY DEF Jobs, IsStatus

LEMMA ArrivalJob ==
  ASSUME NEW s \in Stores, NEW j, j = [store |-> s]
  PROVE  j \in Jobs /\ ~IsStatus(j) /\ j.store = s
  BY DEF Jobs, IsStatus

LEMMA JobFields ==
  ASSUME NEW j \in Jobs
  PROVE  j.store \in Stores /\ (IsStatus(j) => j.order \in Orders /\ j.status \in Statuses)
<1>1. CASE j \in [store: Stores, order: Orders, status: Statuses]
  BY <1>1
<1>2. CASE j \in [store: Stores]
  BY <1>2 DEF IsStatus
<1>3. QED  BY <1>1, <1>2 DEF Jobs

-----------------------------------------------------------------------------
(* What everyone else may do while a call rests *)

Rests(c) ==
  /\ stage'[c] = stage[c] /\ answer'[c] = answer[c]
  /\ c \in Senders => job'[c] = job[c] /\ todo'[c] = todo[c] /\ hit'[c] = hit[c]
  /\ c \in Subscribers => wish'[c] = wish[c] /\ held'[c] = held[c]

SameKey(q, r) == q.id = r.id /\ q.store = r.store /\ q.endpoint = r.endpoint

\* A step forgets no history, inserts rows of its own call only and removes none that is locked.
Around ==
  /\ saved \subseteq saved' /\ registered \subseteq registered' /\ removed \subseteq removed' /\ alive' \subseteq alive
  /\ \A u \in Subscribers : stage[u] = "done" => stage'[u] = "done"
  /\ \A r \in subs' : stage[r.id] = "done" => \E q \in subs : SameKey(q, r)
  /\ \A r \in subs : \/ \E q \in subs' : SameKey(q, r)
                     \/ ~Locked(r) /\ <<r.store, r.endpoint>> \in removed'

LEMMA QuietAround ==
  ASSUME UNCHANGED tableVars, saved \subseteq saved', alive' \subseteq alive,
         \A u \in Subscribers : stage[u] = "done" => stage'[u] = "done"
  PROVE  Around
  BY DEF Around, SameKey, tableVars

LEMMA StillThereStays ==
  ASSUME Around, NEW q \in Rows, StillThere(q)
  PROVE  StillThere(q)'
  BY DEF Around, StillThere, SameKey, Rows

LEMMA SenderRests ==
  ASSUME TypeOK, Around, NEW c \in Senders, SenderInv(c), Rests(c)
  PROVE  SenderInv(c)'
<1>1. todo[c] \subseteq Rows
  BY DEF TypeOK
<1>2. \A q \in todo'[c] : StillThere(q)'
  BY <1>1, StillThereStays DEF Rests, SenderInv, TypeOK
<1>3. stage'[c] = "prune" => StillThere(hit[c])' /\ hit'[c].endpoint \notin alive'
  <2>1. SUFFICES ASSUME stage'[c] = "prune" PROVE StillThere(hit[c])' /\ hit'[c].endpoint \notin alive'
    OBVIOUS
  <2>2. hit'[c] = hit[c] /\ hit[c] \in Rows /\ StillThere(hit[c]) /\ hit[c].endpoint \notin alive
    BY <2>1 DEF Rests, SenderInv, TypeOK
  <2>3. hit'[c].endpoint \notin alive'
    BY <2>2 DEF Around
  <2>4. StillThere(hit[c])'
    BY <2>2 DEF Around, StillThere, SameKey, Rows
  <2>5. QED  BY <2>3, <2>4
<1>4. QED  BY <1>2, <1>3 DEF SenderInv, Rests, Around

LEMMA SubscriberRests ==
  ASSUME Around, NEW u \in Subscribers, SubscriberInv(u), Rests(u)
  PROVE  SubscriberInv(u)'
<1>1. stage'[u] = "recheck" =>
        Of(wish[u].store, wish[u].endpoint)' # {} \/ <<wish'[u].store, wish'[u].endpoint>> \in removed'
  BY DEF Around, SubscriberInv, Rests, Of, SameKey
<1>2. stage'[u] = "update" =>
        \E r \in subs' : r.id = held'[u] /\ r.store = wish'[u].store /\ r.endpoint = wish'[u].endpoint
  <2>1. SUFFICES ASSUME stage'[u] = "update"
                 PROVE  \E r \in subs' : r.id = held'[u] /\ r.store = wish'[u].store /\ r.endpoint = wish'[u].endpoint
    OBVIOUS
  <2>2. stage[u] = "update" /\ wish'[u] = wish[u] /\ held'[u] = held[u]
    BY <2>1 DEF Rests
  <2>3. PICK r \in subs : r.id = held[u] /\ r.store = wish[u].store /\ r.endpoint = wish[u].endpoint
    BY <2>2 DEF SubscriberInv
  <2>4. Locked(r)
    BY <2>2, <2>3 DEF Locked
  <2>5. PICK q \in subs' : SameKey(q, r)
    BY <2>4 DEF Around
  <2>6. QED  BY <2>2, <2>3, <2>5 DEF SameKey
<1>3. QED  BY <1>1, <1>2 DEF SubscriberInv, Rests, Around

\* A step moves the calls of M, one or none; the others rest.
LEMMA OneMoves ==
  ASSUME FulfilmentInv, Around, TypeOK', RowsInv', PushesAreRight', NEW M,
         \A c \in Calls \ M : Rests(c),
         \A c \in M \cap Senders : SenderInv(c)',
         \A u \in M \cap Subscribers : SubscriberInv(u)'
  PROVE  FulfilmentInv'
<1>1. ASSUME NEW c \in Senders PROVE SenderInv(c)'
  BY Apart, SenderRests DEF FulfilmentInv
<1>2. ASSUME NEW u \in Subscribers PROVE SubscriberInv(u)'
  BY Apart, SubscriberRests DEF FulfilmentInv
<1>3. QED  BY <1>1, <1>2 DEF FulfilmentInv

-----------------------------------------------------------------------------
(* Steps that leave the rows alone *)

CallTypes ==
  /\ stage \in [Calls -> {"idle", "save", "list", "send", "prune", "insert", "recheck", "update", "done"}]
  /\ answer \in [Calls -> {None, 0, 200, 201, 202, 404, 500}]
  /\ job \in [Senders -> Jobs \cup {None}]
  /\ todo \in [Senders -> SUBSET Rows] /\ hit \in [Senders -> Rows \cup {None}]
  /\ \A c \in Senders : stage[c] = "prune" => hit[c] \in Rows
  /\ wish \in [Subscribers -> Registered \cup {None}]
  /\ held \in [Subscribers -> Subscribers \cup {None}]

StoreTypes ==
  /\ status \in [Orders -> Statuses \cup {None, "new"}] /\ visible \in [Stores -> BOOLEAN]
  /\ alive \subseteq Endpoints /\ pushed \subseteq Pushes /\ saved \subseteq Orders \X Statuses

TableTypes ==
  /\ subs \subseteq Rows /\ registered \subseteq Registered /\ removed \subseteq Stores \X Endpoints
  /\ OneRegistrationPerBrowser

LEMMA AllTypes == TypeOK <=> CallTypes /\ StoreTypes /\ TableTypes
  BY DEF TypeOK, CallTypes, StoreTypes, TableTypes

LEMMA TypesNow == ASSUME FulfilmentInv PROVE CallTypes /\ StoreTypes /\ TableTypes
  BY AllTypes DEF FulfilmentInv

LEMMA PushesStay ==
  ASSUME PushesAreRight, saved \subseteq saved', registered \subseteq registered', pushed' = pushed
  PROVE  PushesAreRight'
  BY DEF PushesAreRight, PushesWereSaved, PushesReachRegistrants

LEMMA TableRests ==
  ASSUME FulfilmentInv, UNCHANGED tableVars, saved \subseteq saved', alive' \subseteq alive,
         CallTypes', StoreTypes', PushesAreRight',
         NEW M, \A m \in M : stage[m] # "done",
         \A c \in Calls \ M : Rests(c),
         \A c \in M \cap Senders : SenderInv(c)',
         \A u \in M \cap Subscribers : SubscriberInv(u)'
  PROVE  FulfilmentInv'
<1>1. subs' = subs /\ registered' = registered /\ removed' = removed
  BY DEF tableVars
<1>2. TableTypes'
  BY <1>1, TypesNow DEF TableTypes, OneRegistrationPerBrowser
<1>3. TypeOK'
  BY <1>2, AllTypes, PTL
<1>4. \A u \in Subscribers : stage[u] = "done" => stage'[u] = "done"
  BY Apart DEF Rests
<1>5. Around
  BY <1>1, <1>4, QuietAround
<1>6. RowsInv'
  BY <1>1, <1>4, TypesNow DEF FulfilmentInv, TableTypes, RowsInv, Rows
<1>7. QED  BY <1>3, <1>5, <1>6, OneMoves

LEMMA CallMoves ==
  ASSUME FulfilmentInv, NEW m \in Calls, UNCHANGED <<tableVars, storeVars, alive, pushed>>,
         CallTypes', stage[m] # "done", \A c \in Calls \ {m} : Rests(c),
         m \in Senders => SenderInv(m)',
         m \in Subscribers => SubscriberInv(m)'
  PROVE  FulfilmentInv'
<1>1. status' = status /\ visible' = visible /\ saved' = saved /\ alive' = alive /\ pushed' = pushed
  BY DEF storeVars
<1>2. StoreTypes'
  BY <1>1, TypesNow DEF StoreTypes
<1>3. PushesAreRight'
  BY <1>1, PushesStay DEF FulfilmentInv, tableVars
<1> DEFINE M == {m}
<1>4. /\ \A c \in M : stage[c] # "done"
      /\ \A c \in Calls \ M : Rests(c)
  OBVIOUS
<1>5. /\ \A c \in M \cap Senders : SenderInv(c)'
      /\ \A u \in M \cap Subscribers : SubscriberInv(u)'
  OBVIOUS
<1> HIDE DEF M
<1>6. UNCHANGED tableVars /\ saved \subseteq saved' /\ alive' \subseteq alive
  BY <1>1
<1>7. QED  BY <1>2, <1>3, <1>4, <1>5, <1>6, TableRests

LEMMA OpenOrderStep ==
  ASSUME FulfilmentInv, NEW c \in Sellers, OpenOrder(c)
  PROVE  FulfilmentInv'
<1>0. c \in Calls /\ c \in Senders /\ c \notin Subscribers /\ CallTypes /\ SenderInv(c) /\ stage[c] = "idle"
  BY Apart, TypesNow DEF FulfilmentInv, OpenOrder
<1>1. PICK s \in Stores, o \in Orders, st \in Statuses :
        /\ job' = [job EXCEPT ![c] = [store |-> s, order |-> o, status |-> st]]
        /\ IF status[o] # None /\ StoreOf[o] = s THEN Goto(c, "save") ELSE Answer(c, 404)
  BY DEF OpenOrder
<1>2. UNCHANGED <<todo, hit, wish, held>> /\ UNCHANGED <<tableVars, storeVars, alive, pushed>>
  BY DEF OpenOrder, subscriberVars
<1> DEFINE j == [store |-> s, order |-> o, status |-> st]
<1>3. j \in Jobs /\ IsStatus(j) /\ j.store = s /\ j.order = o
  BY StatusJob
<1>4. job' = [job EXCEPT ![c] = j]
  BY <1>1
<1> HIDE DEF j
<1>5. \/ stage' = [stage EXCEPT ![c] = "save"] /\ answer' = answer /\ StoreOf[o] = s
      \/ stage' = [stage EXCEPT ![c] = "done"] /\ answer' = [answer EXCEPT ![c] = 404]
  BY <1>1 DEF Goto, Answer
<1>6. CallTypes' /\ \A d \in Calls \ {c} : Rests(d)
  <2>1. CallTypes'
    BY <1>0, <1>2, <1>3, <1>4, <1>5, Apart DEF CallTypes
  <2>2. \A d \in Calls \ {c} : Rests(d)
    BY <1>0, <1>2, <1>4, <1>5 DEF CallTypes, Rests
  <2>3. QED  BY <2>1, <2>2
<1>7. job'[c] = j /\ (stage'[c] = "done" \/ (stage'[c] = "save" /\ StoreOf[o] = s))
  BY <1>0, <1>4, <1>5 DEF CallTypes
<1>8. \A q \in todo'[c] : StillThere(q)'
  <2>1. Around
    BY <1>0, <1>2, <1>6, QuietAround, Apart DEF Rests, storeVars
  <2>2. QED  BY <1>0, <1>2, <2>1, StillThereStays DEF SenderInv, CallTypes
<1>9. SenderInv(c)'
  BY <1>3, <1>7, <1>8 DEF SenderInv
<1>10. QED  BY <1>0, <1>2, <1>6, <1>9, CallMoves

LEMMA AnnounceStep ==
  ASSUME FulfilmentInv, NEW c \in Announcers, Announce(c)
  PROVE  FulfilmentInv'
<1>0. c \in Calls /\ c \in Senders /\ c \notin Subscribers /\ CallTypes /\ SenderInv(c) /\ stage[c] = "idle"
  BY Apart, TypesNow DEF FulfilmentInv, Announce
<1>1. PICK s \in Stores :
        /\ job' = [job EXCEPT ![c] = [store |-> s]]
        /\ IF visible[s] THEN Goto(c, "list") ELSE Answer(c, 404)
  BY DEF Announce
<1>2. UNCHANGED <<todo, hit, wish, held>> /\ UNCHANGED <<tableVars, storeVars, alive, pushed>>
  BY DEF Announce, subscriberVars
<1> DEFINE j == [store |-> s]
<1>3. j \in Jobs /\ ~IsStatus(j)
  BY ArrivalJob
<1>4. job' = [job EXCEPT ![c] = j]
  BY <1>1
<1> HIDE DEF j
<1>5. \/ stage' = [stage EXCEPT ![c] = "list"] /\ answer' = answer
      \/ stage' = [stage EXCEPT ![c] = "done"] /\ answer' = [answer EXCEPT ![c] = 404]
  BY <1>1 DEF Goto, Answer
<1>6. CallTypes' /\ \A d \in Calls \ {c} : Rests(d)
  <2>1. CallTypes'
    BY <1>0, <1>2, <1>3, <1>4, <1>5, Apart DEF CallTypes
  <2>2. \A d \in Calls \ {c} : Rests(d)
    BY <1>0, <1>2, <1>4, <1>5 DEF CallTypes, Rests
  <2>3. QED  BY <2>1, <2>2
<1>7. job'[c] = j /\ stage'[c] \in {"done", "list"}
  BY <1>0, <1>4, <1>5 DEF CallTypes
<1>8. \A q \in todo'[c] : StillThere(q)'
  <2>1. Around
    BY <1>0, <1>2, <1>6, QuietAround, Apart DEF Rests, storeVars
  <2>2. QED  BY <1>0, <1>2, <2>1, StillThereStays DEF SenderInv, CallTypes
<1>9. SenderInv(c)'
  BY <1>3, <1>7, <1>8 DEF SenderInv
<1>10. QED  BY <1>0, <1>2, <1>6, <1>9, CallMoves

LEMMA ListRowsStep ==
  ASSUME FulfilmentInv, NEW c \in Senders, ListRows(c)
  PROVE  FulfilmentInv'
<1>0. c \in Calls /\ c \notin Subscribers /\ CallTypes /\ SenderInv(c) /\ stage[c] = "list" /\ RowsInv
      /\ subs \subseteq Rows
  BY Apart, TypesNow DEF FulfilmentInv, TypeOK, ListRows
<1>1. /\ todo' = [todo EXCEPT ![c] = Audience(job[c])]
      /\ stage' = [stage EXCEPT ![c] = "send"] /\ answer' = answer
      /\ UNCHANGED <<job, hit, wish, held>> /\ UNCHANGED <<tableVars, storeVars, alive, pushed>>
  BY DEF ListRows, Goto, subscriberVars
<1>2. Audience(job[c]) \subseteq subs
  BY DEF Audience
<1>3. CallTypes' /\ \A d \in Calls \ {c} : Rests(d)
  BY <1>0, <1>1, <1>2 DEF CallTypes, Rests
<1>4. stage'[c] = "send" /\ job'[c] = job[c] /\ todo'[c] = Audience(job[c])
  BY <1>0, <1>1 DEF CallTypes
<1>5. \A q \in subs : StillThere(q)'
  <2>1. \A q \in subs : StillThere(q)
    BY <1>0 DEF RowsInv, StillThere
  <2>2. Around
    BY <1>0, <1>1, <1>3, QuietAround, Apart DEF Rests, storeVars
  <2>3. QED  BY <1>0, <2>1, <2>2, StillThereStays
<1>6. \A q \in Audience(job[c]) : /\ q.store = job[c].store /\ Registration(q) \in registered
                                  /\ IsStatus(job[c]) => q.user = CustomerOf[job[c].order]
  BY <1>0 DEF Audience, RowsInv
<1>7. saved' = saved /\ registered' = registered
  BY <1>1 DEF storeVars, tableVars
<1>8. SenderInv(c)'
  BY <1>0, <1>2, <1>4, <1>5, <1>6, <1>7 DEF SenderInv
<1>9. QED  BY <1>0, <1>1, <1>3, <1>8, CallMoves

LEMMA ReplyStep ==
  ASSUME FulfilmentInv, NEW c \in Calls, \/ c \in Senders /\ Reply(c)
                                         \/ Crash(c)
  PROVE  FulfilmentInv'
<1>0. /\ CallTypes /\ stage[c] \notin {"idle", "done"}
      /\ c \in Senders => SenderInv(c)
      /\ c \in Subscribers => SubscriberInv(c)
  BY TypesNow DEF FulfilmentInv, Reply, Crash
<1>1. /\ stage' = [stage EXCEPT ![c] = "done"]
      /\ UNCHANGED <<job, todo, hit, wish, held>> /\ UNCHANGED <<tableVars, storeVars, alive, pushed>>
  BY DEF Reply, Crash, Answer, senderVars, subscriberVars
<1>2. \/ answer' = [answer EXCEPT ![c] = 0]
      \/ c \in Senders /\ \E n \in {200, 202} : answer' = [answer EXCEPT ![c] = n]
  BY DEF Reply, Crash, Answer
<1>3. CallTypes' /\ stage'[c] = "done" /\ \A d \in Calls \ {c} : Rests(d)
  BY <1>0, <1>1, <1>2 DEF CallTypes, Rests
<1>4. c \in Subscribers => answer'[c] = 0
  BY <1>0, <1>2, Apart DEF CallTypes
<1>5. Around
  BY <1>0, <1>1, <1>3, QuietAround, Apart DEF Rests, storeVars
<1>6. ASSUME c \in Senders PROVE SenderInv(c)'
  <2>1. \A q \in todo'[c] : StillThere(q)'
    BY <1>0, <1>1, <1>5, <1>6, StillThereStays DEF SenderInv, CallTypes
  <2>2. QED  BY <1>3, <2>1 DEF SenderInv
<1>7. ASSUME c \in Subscribers PROVE SubscriberInv(c)'
  BY <1>0, <1>1, <1>3, <1>4, <1>7 DEF SubscriberInv
<1>8. QED  BY <1>0, <1>1, <1>3, <1>6, <1>7, CallMoves

LEMMA FindRowStep ==
  ASSUME FulfilmentInv, NEW u \in Subscribers, FindRow(u)
  PROVE  FulfilmentInv'
<1>0. u \in Calls /\ u \notin Senders /\ CallTypes /\ SubscriberInv(u) /\ stage[u] = "idle" /\ subs \subseteq Rows
  BY Apart, TypesNow DEF FulfilmentInv, TypeOK, FindRow
<1>1. PICK w \in Registrations :
        /\ wish' = [wish EXCEPT ![u] = w]
        /\ \/ \E r \in Of(w.store, w.endpoint) : ~Locked(r) /\ held' = [held EXCEPT ![u] = r.id] /\ Goto(u, "update")
           \/ Of(w.store, w.endpoint) = {} /\ Goto(u, "insert") /\ UNCHANGED held
  BY DEF FindRow
<1>2. /\ UNCHANGED <<job, todo, hit, answer>> /\ UNCHANGED <<tableVars, storeVars, alive, pushed>>
      /\ subs' = subs
  BY DEF FindRow, Goto, senderVars, tableVars
<1>3. w \in Registered
  BY FulfilmentAssumption DEF FulfilmentAssumption
<1>4. \/ /\ stage' = [stage EXCEPT ![u] = "update"]
         /\ \E r \in subs : /\ r.store = w.store /\ r.endpoint = w.endpoint
                            /\ held' = [held EXCEPT ![u] = r.id]
      \/ stage' = [stage EXCEPT ![u] = "insert"] /\ held' = held
  BY <1>1 DEF Goto, Of
<1>5. \A r \in subs : r.id \in Subscribers
  BY <1>0 DEF Rows
<1>6. CallTypes' /\ \A d \in Calls \ {u} : Rests(d)
  <2>1. CallTypes'
    BY <1>0, <1>1, <1>2, <1>3, <1>4, <1>5, Apart DEF CallTypes
  <2>2. \A d \in Calls \ {u} : Rests(d)
    BY <1>0, <1>1, <1>2, <1>4 DEF CallTypes, Rests
  <2>3. QED  BY <2>1, <2>2
<1>7. wish'[u] = w /\ answer'[u] = answer[u]
  BY <1>0, <1>1, <1>2 DEF CallTypes
<1>8. \/ /\ stage'[u] = "update"
         /\ \E r \in subs' : r.id = held'[u] /\ r.store = w.store /\ r.endpoint = w.endpoint
      \/ stage'[u] = "insert"
  BY <1>0, <1>2, <1>4 DEF CallTypes
<1>9. SubscriberInv(u)'
  BY <1>0, <1>3, <1>7, <1>8, NoneIsApart DEF SubscriberInv
<1>10. QED  BY <1>0, <1>2, <1>6, <1>9, CallMoves

LEMMA LookAgainStep ==
  ASSUME FulfilmentInv, NEW u \in Subscribers, LookAgain(u)
  PROVE  FulfilmentInv'
<1>0. /\ u \in Calls /\ u \notin Senders /\ CallTypes /\ SubscriberInv(u) /\ stage[u] = "recheck"
      /\ subs \subseteq Rows
  BY Apart, TypesNow DEF FulfilmentInv, TypeOK, LookAgain
<1>1. /\ UNCHANGED <<job, todo, hit, wish>> /\ UNCHANGED <<tableVars, storeVars, alive, pushed>>
      /\ subs' = subs /\ removed' = removed
  BY DEF LookAgain, senderVars, tableVars
<1>2. \/ /\ stage' = [stage EXCEPT ![u] = "update"] /\ answer' = answer
         /\ \E r \in subs : /\ r.store = wish[u].store /\ r.endpoint = wish[u].endpoint
                            /\ held' = [held EXCEPT ![u] = r.id]
      \/ /\ stage' = [stage EXCEPT ![u] = "done"] /\ answer' = [answer EXCEPT ![u] = 500]
         /\ held' = held /\ Of(wish[u].store, wish[u].endpoint) = {}
  BY DEF LookAgain, Goto, Answer, Of
<1>3. \A r \in subs : r.id \in Subscribers
  BY <1>0 DEF Rows
<1>4. CallTypes' /\ \A d \in Calls \ {u} : Rests(d)
  <2>1. CallTypes'
    BY <1>0, <1>1, <1>2, <1>3, Apart DEF CallTypes
  <2>2. \A d \in Calls \ {u} : Rests(d)
    BY <1>0, <1>1, <1>2 DEF CallTypes, Rests
  <2>3. QED  BY <2>1, <2>2
<1>5. \/ /\ stage'[u] = "update" /\ answer'[u] = answer[u]
         /\ \E r \in subs' : r.id = held'[u] /\ r.store = wish[u].store /\ r.endpoint = wish[u].endpoint
      \/ stage'[u] = "done" /\ <<wish[u].store, wish[u].endpoint>> \in removed'
  BY <1>0, <1>1, <1>2 DEF CallTypes, SubscriberInv
<1>6. SubscriberInv(u)'
  BY <1>0, <1>1, <1>5, NoneIsApart DEF SubscriberInv
<1>7. QED  BY <1>0, <1>1, <1>4, <1>6, CallMoves

LEMMA SaveStatusStep ==
  ASSUME FulfilmentInv, NEW c \in Sellers, SaveStatus(c)
  PROVE  FulfilmentInv'
<1>0. /\ c \in Calls /\ c \in Senders /\ c \notin Subscribers /\ CallTypes /\ StoreTypes /\ SenderInv(c)
      /\ stage[c] = "save" /\ job[c] \in Jobs /\ IsStatus(job[c])
  BY Apart, TypesNow DEF FulfilmentInv, SaveStatus, SenderInv
<1> DEFINE o == job[c].order
           st == job[c].status
<1>1. o \in Orders /\ st \in Statuses
  BY <1>0, JobFields
<1>2. /\ UNCHANGED tableVars /\ alive' = alive /\ pushed' = pushed /\ visible' = visible
      /\ job' = job /\ todo' = todo /\ hit' = hit /\ wish' = wish /\ held' = held
  BY DEF SaveStatus, senderVars, subscriberVars
<1>3. \/ /\ stage' = [stage EXCEPT ![c] = "done"] /\ answer' = [answer EXCEPT ![c] = 500]
         /\ status' = status /\ saved' = saved
      \/ /\ stage' = [stage EXCEPT ![c] = "list"] /\ answer' = answer
         /\ status' = [status EXCEPT ![o] = st] /\ saved' = saved \cup {<<o, st>>}
  BY DEF SaveStatus, Goto, Answer
<1> HIDE DEF o, st
<1>4. CallTypes' /\ \A d \in Calls \ {c} : Rests(d)
  <2>1. CallTypes'
    BY <1>0, <1>2, <1>3, Apart DEF CallTypes
  <2>2. \A d \in Calls \ {c} : Rests(d)
    BY <1>0, <1>2, <1>3 DEF CallTypes, Rests
  <2>3. QED  BY <2>1, <2>2
<1>5. StoreTypes' /\ saved \subseteq saved'
  BY <1>0, <1>1, <1>2, <1>3 DEF StoreTypes
<1>6. PushesAreRight'
  BY <1>2, <1>5, PushesStay DEF FulfilmentInv, tableVars
<1>7. Around
  BY <1>0, <1>2, <1>4, <1>5, QuietAround, Apart DEF Rests
<1>8. \A q \in todo'[c] : StillThere(q)'
  BY <1>0, <1>2, <1>7, StillThereStays DEF SenderInv, CallTypes
<1>9. stage'[c] = "done" \/ (stage'[c] = "list" /\ <<o, st>> \in saved')
  BY <1>0, <1>3 DEF CallTypes
<1>10. SenderInv(c)'
  BY <1>0, <1>2, <1>8, <1>9 DEF SenderInv, o, st
<1> DEFINE M == {c}
<1>11. /\ \A m \in M : stage[m] # "done"
       /\ \A d \in M \cap Senders : SenderInv(d)'
       /\ \A u \in M \cap Subscribers : SubscriberInv(u)'
       /\ \A d \in Calls \ M : Rests(d)
  BY <1>0, <1>4, <1>10
<1> HIDE DEF M
<1>12. QED  BY <1>2, <1>4, <1>5, <1>6, <1>11, TableRests

\* A push to a row of the audience is one that PushesAreRight allows.
LEMMA DeliverIsRight ==
  ASSUME FulfilmentInv, NEW c \in Senders, stage[c] = "send", NEW r \in todo[c], Deliver(c, r),
         saved' = saved, registered' = registered
  PROVE  PushesAreRight' /\ pushed' \subseteq Pushes
<1>1. CallTypes /\ StoreTypes /\ SenderInv(c) /\ PushesAreRight /\ r \in Rows /\ job[c] \in Jobs
  BY TypesNow DEF FulfilmentInv, SenderInv, CallTypes
<1> DEFINE p == [store |-> r.store, endpoint |-> r.endpoint, job |-> job[c]]
<1>2. p.store = r.store /\ p.endpoint = r.endpoint /\ p.job = job[c] /\ p \in Pushes
  BY <1>1 DEF Pushes, Rows
<1>3. pushed' = pushed \cup {p}
  BY DEF Deliver
<1> HIDE DEF p
<1>4. PushesWereSaved'
  BY <1>1, <1>2, <1>3 DEF PushesAreRight, PushesWereSaved, SenderInv
<1>5. IsStatus(job[c]) => /\ p.store = StoreOf[p.job.order]
                          /\ [store |-> p.store, endpoint |-> p.endpoint, user |-> CustomerOf[p.job.order]]
                               \in registered
  BY <1>1, <1>2 DEF SenderInv, Registration
<1>6. PushesReachRegistrants'
  BY <1>1, <1>2, <1>3, <1>5 DEF PushesAreRight, PushesReachRegistrants
<1>7. QED  BY <1>1, <1>2, <1>3, <1>4, <1>6 DEF PushesAreRight, StoreTypes

LEMMA SendStep ==
  ASSUME FulfilmentInv, NEW c \in Senders, Send(c)
  PROVE  FulfilmentInv'
<1>0. c \in Calls /\ c \notin Subscribers /\ CallTypes /\ StoreTypes /\ SenderInv(c) /\ stage[c] = "send"
  BY Apart, TypesNow DEF FulfilmentInv, Send
<1>1. PICK r \in todo[c] :
        /\ todo' = [todo EXCEPT ![c] = @ \ {r}]
        /\ \/ r.endpoint \in alive /\ Deliver(c, r) /\ UNCHANGED <<stage, answer, hit>>
           \/ /\ r.endpoint \notin alive /\ Goto(c, "prune")
              /\ hit' = [hit EXCEPT ![c] = r] /\ UNCHANGED pushed
           \/ UNCHANGED <<stage, answer, hit, pushed>>
           \/ r.endpoint \in alive /\ Deliver(c, r) /\ Answer(c, 500) /\ UNCHANGED hit
           \/ Answer(c, 500) /\ UNCHANGED <<hit, pushed>>
  BY DEF Send
<1>2. /\ UNCHANGED tableVars /\ alive' = alive /\ status' = status /\ visible' = visible /\ saved' = saved
      /\ registered' = registered /\ job' = job /\ wish' = wish /\ held' = held
  BY DEF Send, tableVars, storeVars, subscriberVars
<1>3. \/ stage' = stage /\ answer' = answer /\ hit' = hit
      \/ /\ r.endpoint \notin alive /\ hit' = [hit EXCEPT ![c] = r]
         /\ stage' = [stage EXCEPT ![c] = "prune"] /\ answer' = answer
      \/ stage' = [stage EXCEPT ![c] = "done"] /\ answer' = [answer EXCEPT ![c] = 500] /\ hit' = hit
  BY <1>1 DEF Goto, Answer
<1>4. PushesAreRight' /\ pushed' \subseteq Pushes
  <2>1. CASE Deliver(c, r)
    BY <1>0, <1>2, <2>1, DeliverIsRight
  <2>2. CASE pushed' = pushed
    BY <1>0, <1>2, <2>2, PushesStay DEF FulfilmentInv, StoreTypes
  <2>3. QED  BY <1>1, <2>1, <2>2
<1>5. r \in Rows /\ StillThere(r)
  BY <1>0 DEF CallTypes, SenderInv
<1>6. CallTypes' /\ \A d \in Calls \ {c} : Rests(d)
  <2>1. todo' = [todo EXCEPT ![c] = todo[c] \ {r}]
    BY <1>1
  <2>2. CallTypes'
    BY <1>0, <1>2, <1>3, <1>5, <2>1, Apart DEF CallTypes
  <2>3. \A d \in Calls \ {c} : Rests(d)
    BY <1>0, <1>2, <1>3, <2>1 DEF CallTypes, Rests
  <2>4. QED  BY <2>2, <2>3
<1>7. StoreTypes'
  BY <1>0, <1>2, <1>4 DEF StoreTypes
<1>8. Around
  BY <1>0, <1>2, <1>6, QuietAround, Apart DEF Rests
<1>9. StillThere(r)' /\ \A q \in todo[c] : StillThere(q)'
  BY <1>0, <1>5, <1>8, StillThereStays DEF SenderInv, CallTypes
<1>10. /\ todo'[c] \subseteq todo[c]
       /\ \/ stage'[c] = "send" \/ stage'[c] = "done"
          \/ stage'[c] = "prune" /\ hit'[c] = r /\ r.endpoint \notin alive
  BY <1>0, <1>1, <1>3 DEF CallTypes
<1>11. /\ stage'[c] = "prune" => StillThere(hit[c])'
       /\ stage'[c] = "prune" => hit'[c].endpoint \notin alive'
  BY <1>2, <1>9, <1>10 DEF StillThere
<1>12. SenderInv(c)'
  BY <1>0, <1>2, <1>9, <1>10, <1>11 DEF SenderInv
<1> DEFINE M == {c}
<1>13. /\ \A m \in M : stage[m] # "done"
       /\ \A d \in M \cap Senders : SenderInv(d)'
       /\ \A u \in M \cap Subscribers : SubscriberInv(u)'
       /\ \A d \in Calls \ M : Rests(d)
  BY <1>0, <1>6, <1>12
<1> HIDE DEF M
<1>14. QED  BY <1>2, <1>4, <1>6, <1>7, <1>13, TableRests

LEMMA WorldStep ==
  ASSUME FulfilmentInv,
         \/ \E e \in Endpoints : Expire(e)
         \/ \E o \in Orders : EraseOrder(o)
         \/ \E s \in Stores : ToggleProduct(s)
  PROVE  FulfilmentInv'
<1>0. CallTypes /\ StoreTypes
  BY TypesNow
<1>1. /\ UNCHANGED tableVars /\ pushed' = pushed /\ saved' = saved /\ stage' = stage /\ answer' = answer
      /\ job' = job /\ todo' = todo /\ hit' = hit /\ wish' = wish /\ held' = held
  BY DEF Expire, EraseOrder, ToggleProduct, senderVars, subscriberVars, storeVars
<1>2. alive' \subseteq alive /\ status' \in [Orders -> Statuses \cup {None, "new"}] /\ visible' \in [Stores -> BOOLEAN]
  <2>1. CASE \E e \in Endpoints : Expire(e)
    BY <1>0, <2>1 DEF Expire, StoreTypes, storeVars
  <2>2. CASE \E o \in Orders : EraseOrder(o)
    BY <1>0, <2>2 DEF EraseOrder, StoreTypes
  <2>3. CASE \E s \in Stores : ToggleProduct(s)
    BY <1>0, <2>3 DEF ToggleProduct, StoreTypes
  <2>4. QED  BY <2>1, <2>2, <2>3
<1>3. CallTypes'
  BY <1>0, <1>1 DEF CallTypes
<1>4. StoreTypes'
  BY <1>0, <1>1, <1>2 DEF StoreTypes
<1>5. PushesAreRight'
  BY <1>1, PushesStay DEF FulfilmentInv, tableVars
<1>6. \A c \in Calls : Rests(c)
  BY <1>1 DEF Rests
<1> DEFINE M == {}
<1>7. /\ \A m \in M : stage[m] # "done"
      /\ \A d \in M \cap Senders : SenderInv(d)'
      /\ \A u \in M \cap Subscribers : SubscriberInv(u)'
      /\ \A c \in Calls \ M : Rests(c)
  BY <1>6
<1> HIDE DEF M
<1>8. QED  BY <1>1, <1>2, <1>3, <1>4, <1>5, <1>7, TableRests

-----------------------------------------------------------------------------
(* Steps that write the table of rows *)

\* One call writes the table, the orders and the pushes rest.
LEMMA TableMoves ==
  ASSUME FulfilmentInv, NEW m \in Calls, UNCHANGED <<storeVars, alive, pushed>>,
         registered \subseteq registered', Around, CallTypes', TableTypes', RowsInv',
         \A c \in Calls \ {m} : Rests(c),
         m \in Senders => SenderInv(m)',
         m \in Subscribers => SubscriberInv(m)'
  PROVE  FulfilmentInv'
<1>1. status' = status /\ visible' = visible /\ saved' = saved /\ alive' = alive /\ pushed' = pushed
  BY DEF storeVars
<1>2. StoreTypes'
  BY <1>1, TypesNow DEF StoreTypes
<1>3. TypeOK'
  BY <1>2, AllTypes, PTL
<1>4. PushesAreRight'
  BY <1>1, PushesStay DEF FulfilmentInv
<1> DEFINE M == {m}
<1>5. \A c \in Calls \ M : Rests(c)
  OBVIOUS
<1>6. /\ \A c \in M \cap Senders : SenderInv(c)'
      /\ \A u \in M \cap Subscribers : SubscriberInv(u)'
  OBVIOUS
<1> HIDE DEF M
<1>7. QED  BY <1>3, <1>4, <1>5, <1>6, OneMoves

\* What is left of the table is as it was.
LEMMA FewerRows ==
  ASSUME FulfilmentInv, subs' \subseteq subs, registered' = registered,
         removed \subseteq removed', removed' \subseteq Stores \X Endpoints,
         \A u \in Subscribers : stage[u] = "done" => stage'[u] = "done"
  PROVE  TableTypes' /\ RowsInv'
<1>1. TableTypes /\ RowsInv
  BY TypesNow DEF FulfilmentInv
<1>2. TableTypes'
  BY <1>1 DEF TableTypes, OneRegistrationPerBrowser
<1>3. RowsInv'
  BY <1>1 DEF TableTypes, RowsInv, Rows
<1>4. QED  BY <1>2, <1>3

LEMMA PruneStep ==
  ASSUME FulfilmentInv, NEW c \in Senders, Prune(c)
  PROVE  FulfilmentInv'
<1>0. /\ c \in Calls /\ c \notin Subscribers /\ CallTypes /\ TableTypes /\ SenderInv(c)
      /\ stage[c] = "prune" /\ ~Locked(hit[c])
  BY Apart, TypesNow DEF FulfilmentInv, Prune
<1> DEFINE gone == {r \in subs : r.id = hit[c].id}
<1>1. /\ subs' = subs \ gone /\ removed' = removed \cup {<<r.store, r.endpoint>> : r \in gone}
      /\ hit' = [hit EXCEPT ![c] = None] /\ stage' = [stage EXCEPT ![c] = "send"] /\ answer' = answer
      /\ UNCHANGED <<storeVars, alive, pushed>> /\ saved' = saved /\ registered' = registered
      /\ job' = job /\ todo' = todo /\ wish' = wish /\ held' = held
  BY DEF Prune, Goto, subscriberVars, storeVars
<1>2. CallTypes' /\ (\A d \in Calls \ {c} : Rests(d)) /\ stage'[c] = "send"
  <2>1. CallTypes'
    BY <1>0, <1>1, Apart DEF CallTypes
  <2>2. \A d \in Calls \ {c} : Rests(d)
    BY <1>0, <1>1 DEF CallTypes, Rests
  <2>3. QED  BY <1>0, <1>1, <2>1, <2>2 DEF CallTypes
<1>3. \A r \in gone : r \in subs /\ ~Locked(r) /\ <<r.store, r.endpoint>> \in removed'
  BY <1>0, <1>1 DEF Locked
<1>4. \A r \in subs : r \in subs' \/ r \in gone
  BY <1>1
<1>5. removed \subseteq removed' /\ removed' \subseteq Stores \X Endpoints
  BY <1>0, <1>1 DEF TableTypes, Rows
<1>6. subs' \subseteq subs
  BY <1>1
<1> HIDE DEF gone
<1>7. \A u \in Subscribers : stage[u] = "done" => stage'[u] = "done"
  BY <1>0, <1>2, Apart DEF Rests
<1>8. TableTypes' /\ RowsInv'
  BY <1>1, <1>5, <1>6, <1>7, FewerRows
<1>9. Around
  BY <1>1, <1>3, <1>4, <1>5, <1>6, <1>7 DEF Around, SameKey
<1>10. \A q \in todo'[c] : StillThere(q)'
  BY <1>0, <1>1, <1>9, StillThereStays DEF SenderInv, CallTypes
<1>11. SenderInv(c)'
  BY <1>0, <1>1, <1>2, <1>10 DEF SenderInv
<1>12. QED  BY <1>0, <1>1, <1>2, <1>8, <1>9, <1>11, TableMoves

LEMMA UnsubscribeStep ==
  ASSUME FulfilmentInv, NEW s \in Stores, NEW e \in Endpoints, NEW user \in Users, Unsubscribe(s, e, user)
  PROVE  FulfilmentInv'
<1>0. CallTypes /\ StoreTypes /\ TableTypes
  BY TypesNow
<1> DEFINE mine == {r \in Of(s, e) : r.user = user}
<1>1. /\ \A r \in mine : ~Locked(r)
      /\ subs' = subs \ mine /\ removed' = removed \cup {<<s, e>>}
      /\ stage' = stage /\ answer' = answer /\ job' = job /\ todo' = todo /\ hit' = hit
      /\ wish' = wish /\ held' = held /\ registered' = registered
      /\ status' = status /\ visible' = visible /\ saved' = saved /\ alive' = alive /\ pushed' = pushed
  BY DEF Unsubscribe, senderVars, subscriberVars, storeVars
<1>2. \A r \in mine : r.store = s /\ r.endpoint = e
  BY DEF Of
<1>3. \A r \in subs : r \in subs' \/ (~Locked(r) /\ <<r.store, r.endpoint>> \in removed')
  BY <1>1, <1>2
<1>4. removed \subseteq removed' /\ removed' \subseteq Stores \X Endpoints /\ subs' \subseteq subs
  BY <1>0, <1>1 DEF TableTypes
<1> HIDE DEF mine
<1>5. CallTypes' /\ StoreTypes' /\ \A c \in Calls : Rests(c)
  BY <1>0, <1>1 DEF CallTypes, StoreTypes, Rests
<1>6. TableTypes' /\ RowsInv'
  BY <1>1, <1>4, FewerRows
<1>7. Around
  BY <1>1, <1>3, <1>4 DEF Around, SameKey
<1>8. TypeOK'
  BY <1>5, <1>6, AllTypes, PTL
<1>9. PushesAreRight'
  BY <1>1, PushesStay DEF FulfilmentInv
<1> DEFINE M == {}
<1>10. /\ \A d \in M \cap Senders : SenderInv(d)'
       /\ \A u \in M \cap Subscribers : SubscriberInv(u)'
       /\ \A c \in Calls \ M : Rests(c)
  BY <1>5
<1> HIDE DEF M
<1>11. QED  BY <1>6, <1>7, <1>8, <1>9, <1>10, OneMoves

LEMMA InsertRowStep ==
  ASSUME FulfilmentInv, NEW u \in Subscribers, InsertRow(u)
  PROVE  FulfilmentInv'
<1>0. /\ u \in Calls /\ u \notin Senders /\ CallTypes /\ TableTypes /\ RowsInv /\ SubscriberInv(u)
      /\ stage[u] = "insert" /\ wish[u] \in Registered /\ answer[u] = None
  BY Apart, TypesNow DEF FulfilmentInv, InsertRow, SubscriberInv
<1>1. /\ UNCHANGED <<storeVars, alive, pushed>> /\ saved' = saved /\ alive' = alive /\ removed' = removed
      /\ job' = job /\ todo' = todo /\ hit' = hit /\ wish' = wish /\ held' = held
  BY DEF InsertRow, senderVars, subscriberVars, storeVars
<1>2. CASE Of(wish[u].store, wish[u].endpoint) # {}
  <2>1. /\ stage' = [stage EXCEPT ![u] = "recheck"] /\ answer' = answer
        /\ subs' = subs /\ registered' = registered
    BY <1>2 DEF InsertRow, Goto
  <2>2. CallTypes' /\ (\A d \in Calls \ {u} : Rests(d)) /\ stage'[u] = "recheck"
    <3>1. CallTypes'
      BY <1>0, <1>1, <2>1, Apart DEF CallTypes
    <3>2. \A d \in Calls \ {u} : Rests(d)
      BY <1>0, <1>1, <2>1 DEF CallTypes, Rests
    <3>3. QED  BY <1>0, <2>1, <3>1, <3>2 DEF CallTypes
  <2>3. Of(wish[u].store, wish[u].endpoint)' # {}
    BY <1>1, <1>2, <2>1 DEF Of
  <2>4. SubscriberInv(u)'
    BY <1>0, <1>1, <2>1, <2>2, <2>3, NoneIsApart DEF SubscriberInv
  <2>5. QED  BY <1>0, <1>1, <2>1, <2>2, <2>4, CallMoves DEF tableVars
<1>3. CASE Of(wish[u].store, wish[u].endpoint) = {}
  <2> DEFINE new == [id |-> u, store |-> wish[u].store, endpoint |-> wish[u].endpoint, user |-> wish[u].user]
  <2>1. /\ subs' = subs \cup {new} /\ registered' = registered \cup {wish[u]}
        /\ stage' = [stage EXCEPT ![u] = "done"]
        /\ answer' = [answer EXCEPT ![u] = 201] \/ answer' = [answer EXCEPT ![u] = 0]
    BY <1>3 DEF InsertRow, Insert, Confirm, Answer
  <2>2. /\ new \in Rows /\ new.id = u /\ new.store = wish[u].store /\ new.endpoint = wish[u].endpoint
        /\ Registration(new) = wish[u]
    BY <1>0 DEF Rows, Registered, Registration
  <2> HIDE DEF new
  <2>3. CallTypes' /\ (\A d \in Calls \ {u} : Rests(d)) /\ stage'[u] = "done" /\ answer'[u] \in {0, 201}
    <3>1. CallTypes'
      BY <1>0, <1>1, <2>1, Apart DEF CallTypes
    <3>2. \A d \in Calls \ {u} : Rests(d)
      BY <1>0, <1>1, <2>1 DEF CallTypes, Rests
    <3>3. QED  BY <1>0, <2>1, <3>1, <3>2 DEF CallTypes
  <2>4. \A d \in Subscribers : stage[d] = "done" => stage'[d] = "done"
    BY <1>0, <2>3, Apart DEF Rests
  <2>5. \A r \in subs : r.id # u /\ r.id \in Subscribers /\ ~(r.store = new.store /\ r.endpoint = new.endpoint)
    BY <1>0, <1>3, <2>2 DEF RowsInv, Of, TableTypes, Rows
  <2>6. TableTypes'
    BY <1>0, <1>1, <2>1, <2>2, <2>5 DEF TableTypes, OneRegistrationPerBrowser
  <2>7. RowsInv'
    BY <1>0, <2>1, <2>2, <2>3, <2>4, <2>5 DEF RowsInv
  <2>8. Around
    BY <1>0, <1>1, <2>1, <2>2, <2>4 DEF Around, SameKey
  <2>9. SubscriberInv(u)'
    BY <1>0, <1>1, <2>3 DEF SubscriberInv
  <2>10. QED  BY <1>0, <1>1, <2>1, <2>3, <2>6, <2>7, <2>8, <2>9, TableMoves
<1>4. QED  BY <1>2, <1>3

\* The row that an update finds is the caller's browser's, and the only one with its id.
LEMMA FoundRow ==
  ASSUME FulfilmentInv, NEW u \in Subscribers, stage[u] = "update"
  PROVE  \E r \in subs : /\ {q \in subs : q.id = held[u]} = {r}
                         /\ r.store = wish[u].store /\ r.endpoint = wish[u].endpoint
<1>1. SubscriberInv(u) /\ RowsInv
  BY DEF FulfilmentInv
<1>2. PICK r \in subs : r.id = held[u] /\ r.store = wish[u].store /\ r.endpoint = wish[u].endpoint
  BY <1>1 DEF SubscriberInv
<1>3. {q \in subs : q.id = held[u]} = {r}
  BY <1>1, <1>2 DEF RowsInv
<1>4. QED  BY <1>2, <1>3

LEMMA UpdateRowStep ==
  ASSUME FulfilmentInv, NEW u \in Subscribers, UpdateRow(u)
  PROVE  FulfilmentInv'
<1>0. /\ u \in Calls /\ u \notin Senders /\ CallTypes /\ TableTypes /\ RowsInv /\ SubscriberInv(u)
      /\ stage[u] = "update" /\ wish[u] \in Registered
  BY Apart, TypesNow DEF FulfilmentInv, UpdateRow, SubscriberInv
<1>1. /\ UNCHANGED <<storeVars, alive, pushed>> /\ saved' = saved /\ alive' = alive /\ removed' = removed
      /\ job' = job /\ todo' = todo /\ hit' = hit /\ wish' = wish /\ held' = held
      /\ registered' = registered \cup {wish[u]}
      /\ stage' = [stage EXCEPT ![u] = "done"]
      /\ answer' = [answer EXCEPT ![u] = 201] \/ answer' = [answer EXCEPT ![u] = 0]
  BY DEF UpdateRow, Confirm, Answer, senderVars, subscriberVars, storeVars
<1>2. PICK r \in subs : /\ {q \in subs : q.id = held[u]} = {r}
                        /\ r.store = wish[u].store /\ r.endpoint = wish[u].endpoint
  BY <1>0, FoundRow
<1> DEFINE h == HandedTo(r, wish[u].user)
<1>3. subs' = (subs \ {r}) \cup {h}
  BY <1>2 DEF UpdateRow
<1>4. r \in Rows /\ h \in Rows /\ SameKey(h, r) /\ SameKey(r, h) /\ Registration(h) = wish[u]
  BY <1>0, <1>2 DEF TableTypes, Rows, Registered, Registration, SameKey, HandedTo
<1> HIDE DEF h
<1>5. CallTypes' /\ (\A d \in Calls \ {u} : Rests(d)) /\ stage'[u] = "done" /\ answer'[u] \in {0, 201}
  <2>1. CallTypes'
    BY <1>0, <1>1, Apart DEF CallTypes
  <2>2. \A d \in Calls \ {u} : Rests(d)
    BY <1>0, <1>1 DEF CallTypes, Rests
  <2>3. QED  BY <1>0, <1>1, <2>1, <2>2 DEF CallTypes
<1>6. \A d \in Subscribers : stage[d] = "done" => stage'[d] = "done"
  BY <1>0, <1>5, Apart DEF Rests
<1>7. TableTypes'
  <2>1. OneRegistrationPerBrowser'
    BY <1>0, <1>2, <1>3, <1>4 DEF TableTypes, OneRegistrationPerBrowser, SameKey
  <2>2. QED  BY <1>0, <1>1, <1>3, <1>4, <2>1 DEF TableTypes
<1>8. RowsInv'
  <2>1. \A q \in subs : q.id \in Subscribers
    BY <1>0 DEF TableTypes, Rows
  <2>2. QED  BY <1>0, <1>1, <1>2, <1>3, <1>4, <1>6, <2>1 DEF RowsInv, SameKey
<1>9. Around
  BY <1>1, <1>2, <1>3, <1>4, <1>6 DEF Around, SameKey
<1>10. SubscriberInv(u)'
  BY <1>0, <1>1, <1>5 DEF SubscriberInv
<1>11. QED  BY <1>0, <1>1, <1>5, <1>7, <1>8, <1>9, <1>10, TableMoves

-----------------------------------------------------------------------------
LEMMA InvInit == Init => FulfilmentInv
<1> SUFFICES ASSUME Init PROVE FulfilmentInv
  OBVIOUS
<1>1. CallTypes
  BY Apart DEF Init, CallTypes
<1>2. StoreTypes /\ TableTypes
  BY DEF Init, StoreTypes, TableTypes, OneRegistrationPerBrowser
<1>3. RowsInv /\ PushesAreRight
  BY DEF Init, RowsInv, PushesAreRight, PushesWereSaved, PushesReachRegistrants
<1>4. ASSUME NEW c \in Senders PROVE SenderInv(c)
  BY Apart DEF Init, SenderInv
<1>5. ASSUME NEW u \in Subscribers PROVE SubscriberInv(u)
  BY Apart, NoneIsApart DEF Init, SubscriberInv
<1>6. QED  BY <1>1, <1>2, <1>3, <1>4, <1>5, AllTypes DEF FulfilmentInv

LEMMA InvNext == FulfilmentInv /\ [Next]_vars => FulfilmentInv'
<1> SUFFICES ASSUME FulfilmentInv, [Next]_vars PROVE FulfilmentInv'
  OBVIOUS
<1>1. CASE UNCHANGED vars
  <2>1. /\ UNCHANGED tableVars /\ UNCHANGED <<stage, answer, job, todo, hit, wish, held>>
        /\ UNCHANGED <<status, visible, alive, pushed, saved>> /\ registered' = registered
    BY <1>1 DEF vars, tableVars
  <2>2. CallTypes' /\ StoreTypes' /\ \A c \in Calls : Rests(c)
    BY <2>1, TypesNow DEF CallTypes, StoreTypes, Rests
  <2>3. PushesAreRight'
    BY <2>1, PushesStay DEF FulfilmentInv
  <2> DEFINE M == {}
  <2>4. /\ \A m \in M : stage[m] # "done"
        /\ \A d \in M \cap Senders : SenderInv(d)'
        /\ \A u \in M \cap Subscribers : SubscriberInv(u)'
        /\ \A c \in Calls \ M : Rests(c)
    BY <2>2
  <2> HIDE DEF M
  <2>5. QED  BY <2>1, <2>2, <2>3, <2>4, TableRests
<1>2. CASE Next
  BY <1>2, OpenOrderStep, SaveStatusStep, AnnounceStep, ListRowsStep, SendStep, PruneStep, ReplyStep, FindRowStep,
     InsertRowStep, LookAgainStep, UpdateRowStep, UnsubscribeStep, WorldStep, Apart DEF Next
<1>3. QED  BY <1>1, <1>2

\* The inductive invariant of status changes, announcements and subscribes.
THEOREM FulfilmentInvariant == Spec => []FulfilmentInv
<1>1. QED  BY InvInit, InvNext, PTL DEF Spec

\* Every variable keeps its shape, and a browser keeps to one row at each store
\* (uniq_push_subscription), whatever subscribes, prunes and unsubscribes overlap.
THEOREM TypeCorrect == Spec => []TypeOK
<1>1. FulfilmentInv => TypeOK
  BY DEF FulfilmentInv
<1>2. QED  BY <1>1, FulfilmentInvariant, PTL

\* A status push tells of a status that the order has had, and only a browser that the order's
\* customer registered at its store (set_status, notify_order_status).
THEOREM PushesRight == Spec => []PushesAreRight
<1>1. FulfilmentInv => PushesAreRight
  BY DEF FulfilmentInv
<1>2. QED  BY <1>1, FulfilmentInvariant, PTL

\* subscribe is a 500 only when the row that it lost its insert to has left the table since.
THEOREM SubscribesFailOnRemoval == Spec => []SubscribeFailsOnlyOnRemoval
<1>1. FulfilmentInv => SubscribeFailsOnlyOnRemoval
  BY DEF FulfilmentInv, SubscriberInv, SubscribeFailsOnlyOnRemoval
<1>2. QED  BY <1>1, FulfilmentInvariant, PTL

-----------------------------------------------------------------------------
(* What a step may do *)

\* The only statements that answer 201 are the insert and the update.
LEMMA Other201 ==
  ASSUME FulfilmentInv, NEW u \in Subscribers, [Next]_vars, answer[u] # 201, answer'[u] = 201
  PROVE  InsertRow(u) \/ UpdateRow(u)
<1>1. CallTypes /\ u \in Calls
  BY TypesNow, Apart
<1>2. Next
  BY DEF vars
<1>3. ASSUME NEW c \in Senders, \/ c \in Sellers /\ (OpenOrder(c) \/ SaveStatus(c))
                                \/ c \in Announcers /\ Announce(c)
                                \/ ListRows(c) \/ Send(c) \/ Prune(c) \/ Reply(c)
      PROVE FALSE
  <2>1. \/ answer' = answer
        \/ \E n : answer' = [answer EXCEPT ![c] = n]
    BY <1>3 DEF OpenOrder, SaveStatus, Announce, ListRows, Send, Prune, Reply, Goto, Answer
  <2>2. c # u /\ c \in Calls
    BY Apart
  <2>3. answer'[u] = answer[u]
    BY <1>1, <2>1, <2>2 DEF CallTypes
  <2>4. QED  BY <2>3
<1>4. ASSUME NEW c \in Calls, Crash(c) PROVE FALSE
  BY <1>1, <1>4 DEF Crash, Answer, CallTypes
<1>5. ASSUME NEW d \in Subscribers, FindRow(d) \/ LookAgain(d) PROVE FALSE
  BY <1>1, <1>5 DEF FindRow, LookAgain, Goto, Answer, CallTypes
<1>6. ASSUME NEW d \in Subscribers, InsertRow(d) \/ UpdateRow(d) PROVE d = u
  <2>1. answer' = answer \/ answer' = [answer EXCEPT ![d] = 201] \/ answer' = [answer EXCEPT ![d] = 0]
    BY <1>6 DEF InsertRow, UpdateRow, Insert, Confirm, Goto, Answer
  <2>2. QED  BY <1>1, <2>1 DEF CallTypes
<1>7. ASSUME answer' = answer PROVE FALSE
  BY <1>7
<1>8. ASSUME \/ \E s \in Stores, e \in Endpoints, user \in Users : Unsubscribe(s, e, user)
             \/ \E e \in Endpoints : Expire(e)
             \/ \E o \in Orders : EraseOrder(o)
             \/ \E s \in Stores : ToggleProduct(s)
      PROVE FALSE
  BY <1>7, <1>8 DEF Unsubscribe, Expire, EraseOrder, ToggleProduct
<1>9. QED  BY <1>2, <1>3, <1>4, <1>5, <1>6, <1>8, Apart DEF Next

\* A row whose browser has not dropped its subscription keeps its key in the table, but for an
\* unsubscribe by the row's own user.
LEMMA LiveRowsStay ==
  ASSUME FulfilmentInv, [Next]_vars, NEW r \in subs, r.endpoint \in alive, Of(r.store, r.endpoint)' = {}
  PROVE  Unsubscribe(r.store, r.endpoint, r.user)
<1>1. ~ \E q \in subs' : q.store = r.store /\ q.endpoint = r.endpoint
  BY DEF Of
<1>2. r \notin subs'
  BY <1>1
<1>3. Next
  BY <1>2 DEF vars
<1>4. ASSUME subs' = subs PROVE FALSE
  BY <1>2, <1>4
<1>5. ASSUME NEW c \in Senders, Prune(c) PROVE FALSE
  <2>1. r.id = hit[c].id
    BY <1>2, <1>5 DEF Prune
  <2>2. SenderInv(c) /\ stage[c] = "prune"
    BY <1>5 DEF FulfilmentInv, Prune
  <2>3. r.endpoint = hit[c].endpoint /\ hit[c].endpoint \notin alive
    BY <2>1, <2>2 DEF SenderInv, StillThere
  <2>4. QED  BY <2>3
<1>6. ASSUME NEW u \in Subscribers, InsertRow(u) PROVE FALSE
  BY <1>2, <1>6 DEF InsertRow, Insert
<1>7. ASSUME NEW u \in Subscribers, UpdateRow(u) PROVE FALSE
  <2>1. PICK q \in subs : {p \in subs : p.id = held[u]} = {q}
    BY <1>7, FoundRow DEF UpdateRow
  <2>2. subs' = (subs \ {q}) \cup {HandedTo(q, wish[u].user)}
    BY <1>7, <2>1 DEF UpdateRow
  <2>3. q = r /\ HandedTo(q, wish[u].user) \in subs'
    BY <1>2, <2>2
  <2>4. HandedTo(q, wish[u].user).store = r.store /\ HandedTo(q, wish[u].user).endpoint = r.endpoint
    BY <2>3 DEF HandedTo
  <2>5. QED  BY <1>1, <2>3, <2>4
<1>8. ASSUME NEW s \in Stores, NEW e \in Endpoints, NEW user \in Users, Unsubscribe(s, e, user)
      PROVE s = r.store /\ e = r.endpoint /\ user = r.user
  BY <1>2, <1>8 DEF Unsubscribe, Of
<1>9. ASSUME NEW c, OpenOrder(c) \/ SaveStatus(c) \/ Announce(c) \/ ListRows(c) \/ Send(c) \/ Reply(c)
                    \/ FindRow(c) \/ LookAgain(c) \/ Crash(c)
      PROVE FALSE
  BY <1>4, <1>9 DEF OpenOrder, SaveStatus, Announce, ListRows, Send, Reply, FindRow, LookAgain, Crash, tableVars
<1>10. ASSUME \/ \E e \in Endpoints : Expire(e)
              \/ \E o \in Orders : EraseOrder(o)
              \/ \E s \in Stores : ToggleProduct(s)
       PROVE FALSE
  BY <1>4, <1>10 DEF Expire, EraseOrder, ToggleProduct, tableVars
<1>11. QED  BY <1>3, <1>5, <1>6, <1>7, <1>8, <1>9, <1>10 DEF Next

\* Neither a failing push nor a stale list of rows prunes the row of a browser that has not
\* dropped its subscription (_send): it goes only by an unsubscribe of its user.
THEOREM LiveBrowsersStay == Spec => LiveBrowsersStayRegistered
<1>1. FulfilmentInv /\ [Next]_vars =>
        [\A r \in subs : r.endpoint \in alive /\ Of(r.store, r.endpoint)' = {} =>
           Unsubscribe(r.store, r.endpoint, r.user)]_vars
  BY LiveRowsStay
<1>2. QED  BY <1>1, FulfilmentInvariant, PTL DEF Spec, LiveBrowsersStayRegistered

-----------------------------------------------------------------------------
(* The registry *)

\* Who has been answered stays so, with what was asked for.
LEMMA AnswerStays ==
  ASSUME FulfilmentInv, [Next]_vars, NEW u \in Subscribers, answer[u] = 201
  PROVE  answer'[u] = 201 /\ wish'[u] = wish[u]
<1>1. CallTypes /\ u \in Calls /\ u \notin Senders /\ SubscriberInv(u)
  BY TypesNow, Apart DEF FulfilmentInv
<1>2. stage[u] = "done"
  BY <1>1, NoneIsApart DEF SubscriberInv
<1>3. ASSUME UNCHANGED <<answer, wish>> PROVE answer'[u] = 201 /\ wish'[u] = wish[u]
  BY <1>3
<1>4. ASSUME NEW c \in Senders, \/ c \in Sellers /\ (OpenOrder(c) \/ SaveStatus(c))
                                \/ c \in Announcers /\ Announce(c)
                                \/ ListRows(c) \/ Send(c) \/ Prune(c) \/ Reply(c)
      PROVE answer'[u] = 201 /\ wish'[u] = wish[u]
  <2>1. \/ answer' = answer
        \/ \E n : answer' = [answer EXCEPT ![c] = n]
    BY <1>4 DEF OpenOrder, SaveStatus, Announce, ListRows, Send, Prune, Reply, Goto, Answer
  <2>2. wish' = wish
    BY <1>4 DEF OpenOrder, SaveStatus, Announce, ListRows, Send, Prune, Reply, subscriberVars
  <2>3. QED  BY <1>1, <2>1, <2>2, Apart DEF CallTypes
<1>5. ASSUME NEW d \in Subscribers, FindRow(d) \/ InsertRow(d) \/ LookAgain(d) \/ UpdateRow(d)
      PROVE answer'[u] = 201 /\ wish'[u] = wish[u]
  <2>1. stage[d] # "done"
    BY <1>5 DEF FindRow, InsertRow, LookAgain, UpdateRow
  <2>2. d # u /\ d \in Calls
    BY <1>2, <2>1, Apart
  <2>3. \/ answer' = answer
        \/ \E n : answer' = [answer EXCEPT ![d] = n]
    BY <1>5 DEF FindRow, InsertRow, LookAgain, UpdateRow, Insert, Confirm, Goto, Answer
  <2>4. wish' = wish \/ \E w : wish' = [wish EXCEPT ![d] = w]
    BY <1>5 DEF FindRow, InsertRow, LookAgain, UpdateRow, subscriberVars
  <2>5. QED  BY <1>1, <2>2, <2>3, <2>4 DEF CallTypes
<1>6. ASSUME NEW c \in Calls, Crash(c) PROVE answer'[u] = 201 /\ wish'[u] = wish[u]
  <2>1. c # u
    BY <1>2, <1>6 DEF Crash
  <2>2. QED  BY <1>1, <1>6, <2>1 DEF Crash, Answer, CallTypes, subscriberVars
<1>7. ASSUME \/ \E s \in Stores, e \in Endpoints, user \in Users : Unsubscribe(s, e, user)
             \/ \E e \in Endpoints : Expire(e)
             \/ \E o \in Orders : EraseOrder(o)
             \/ \E s \in Stores : ToggleProduct(s)
      PROVE answer'[u] = 201 /\ wish'[u] = wish[u]
  BY <1>3, <1>7 DEF Unsubscribe, Expire, EraseOrder, ToggleProduct, subscriberVars
<1>8. CASE UNCHANGED vars
  BY <1>3, <1>8 DEF vars
<1>9. QED  BY <1>4, <1>5, <1>6, <1>7, <1>8, Apart DEF Next

\* The statements that make an entry: an insert that finds its key free, and the update.
Enters(u) == (InsertRow(u) /\ Of(wish[u].store, wish[u].endpoint) = {}) \/ UpdateRow(u)

\* Every other step leaves what the registry has told.
LEMMA ToldStays ==
  ASSUME FulfilmentInv, [Next]_vars, \A u \in Subscribers : ~Enters(u)
  PROVE  registryTold' = registryTold
<1>1. ASSUME NEW u \in Subscribers, answer'[u] = 201, answer[u] # 201
      PROVE  FALSE
  <2>1. InsertRow(u) /\ Of(wish[u].store, wish[u].endpoint) # {}
    BY <1>1, Other201 DEF Enters
  <2>2. answer' = answer
    BY <2>1 DEF InsertRow, Goto
  <2>3. QED  BY <1>1, <2>2
<1>2. ASSUME NEW u \in Subscribers
      PROVE  (IF answer'[u] = 201 THEN wish'[u] ELSE None) = IF answer[u] = 201 THEN wish[u] ELSE None
  BY <1>1, AnswerStays
<1>3. QED  BY <1>2 DEF registryTold

\* An entry is told to its call, or to nobody.
LEMMA ToldOne ==
  ASSUME FulfilmentInv, NEW u \in Subscribers, answer[u] # 201, wish' = wish,
         answer' = [answer EXCEPT ![u] = 201] \/ answer' = [answer EXCEPT ![u] = 0]
  PROVE  registryTold' = [registryTold EXCEPT ![u] = wish[u]] \/ registryTold' = registryTold
<1>1. CallTypes /\ u \in Calls /\ Subscribers \subseteq Calls
  BY TypesNow, Apart
<1>2. \A d \in Subscribers \ {u} : answer'[d] = answer[d]
  BY <1>1 DEF CallTypes
<1>3. CASE answer' = [answer EXCEPT ![u] = 201]
  <2>1. answer'[u] = 201
    BY <1>1, <1>3 DEF CallTypes
  <2>2. registryTold'[u] = wish[u] /\ \A d \in Subscribers \ {u} : registryTold'[d] = registryTold[d]
    BY <1>2, <2>1 DEF registryTold
  <2>3. /\ registryTold' = [d \in Subscribers |-> registryTold'[d]]
        /\ registryTold = [d \in Subscribers |-> registryTold[d]]
    BY DEF registryTold
  <2>4. QED  BY <2>2, <2>3, Zenon
<1>4. CASE answer' = [answer EXCEPT ![u] = 0]
  <2>1. answer'[u] # 201
    BY <1>1, <1>4 DEF CallTypes
  <2>2. \A d \in Subscribers : (answer'[d] = 201 <=> answer[d] = 201) /\ wish'[d] = wish[d]
    BY <1>2, <2>1
  <2>3. QED  BY <2>2 DEF registryTold
<1>5. QED  BY <1>3, <1>4

\* One browser has one entry at a store, so a row that leaves takes one entry along.
LEMMA BookLoses ==
  ASSUME OneRegistrationPerBrowser, NEW r \in subs, subs' = subs \ {r}
  PROVE  registryBook' = registryBook \ {Registration(r)}
<1>1. \A q \in subs : Registration(q) = Registration(r) => q = r
  BY DEF OneRegistrationPerBrowser, Registration
<1>2. \A q : Registration(q)' = Registration(q)
  BY DEF Registration
<1>3. QED  BY <1>1, <1>2 DEF registryBook

\* A row that takes the place of its browser's row, if any, is an entry that does the same.
LEMMA BookTakes ==
  ASSUME NEW w, NEW h, Registration(h) = w,
         subs' = {q \in subs : ~(q.store = w.store /\ q.endpoint = w.endpoint)} \cup {h}
  PROVE  registryBook' = {v \in registryBook : ~Registry!SameBrowser(v, w)} \cup {w}
<1>1. \A q : Registration(q).store = q.store /\ Registration(q).endpoint = q.endpoint
  BY DEF Registration
<1>2. \A q : Registry!SameBrowser(Registration(q), w) <=> q.store = w.store /\ q.endpoint = w.endpoint
  BY <1>1 DEF Registry!SameBrowser
<1>3. registryBook' = {Registration(r) : r \in subs'}
  BY DEF registryBook, Registration
<1>4. QED  BY <1>2, <1>3 DEF registryBook

\* An entry is a registration.
LEMMA RegisterShows ==
  ASSUME FulfilmentInv, NEW u \in Subscribers, Enters(u)
  PROVE  Registry!Register(u, wish[u]) /\ wish[u] \in Registered
<1>1. CallTypes /\ TableTypes /\ RowsInv /\ SubscriberInv(u) /\ u \in Calls
  BY TypesNow, Apart DEF FulfilmentInv
<1>2. wish' = wish /\ stage[u] \in {"insert", "update"}
  BY DEF Enters, InsertRow, UpdateRow, subscriberVars
<1>3. wish[u] \in Registered /\ answer[u] # 201 /\ registryTold[u] = None
  BY <1>1, <1>2, NoneIsApart DEF SubscriberInv, registryTold
<1> DEFINE w == wish[u]
           Others == {q \in subs : ~(q.store = w.store /\ q.endpoint = w.endpoint)}
<1>4. answer' = [answer EXCEPT ![u] = 201] \/ answer' = [answer EXCEPT ![u] = 0]
  BY DEF Enters, InsertRow, UpdateRow, Insert, Confirm, Answer
<1>5. \E h : Registration(h) = w /\ subs' = Others \cup {h}
  <2>1. CASE InsertRow(u) /\ Of(w.store, w.endpoint) = {}
    <3> DEFINE new == [id |-> u, store |-> w.store, endpoint |-> w.endpoint, user |-> w.user]
    <3>1. subs' = subs \cup {new}
      BY <2>1 DEF InsertRow, Insert
    <3>2. Others = subs
      BY <2>1 DEF Of
    <3>3. Registration(new) = w
      BY <1>3 DEF Registration, Registered
    <3>4. QED  BY <3>1, <3>2, <3>3
  <2>2. CASE UpdateRow(u)
    <3>1. PICK r \in subs : /\ {q \in subs : q.id = held[u]} = {r}
                            /\ r.store = w.store /\ r.endpoint = w.endpoint
      BY <2>2, FoundRow DEF UpdateRow
    <3> DEFINE h == HandedTo(r, w.user)
    <3>2. subs' = (subs \ {r}) \cup {h}
      BY <2>2, <3>1 DEF UpdateRow
    <3>3. Others = subs \ {r}
      BY <1>1, <3>1 DEF TableTypes, OneRegistrationPerBrowser
    <3>4. Registration(h) = w
      BY <1>3, <3>1 DEF Registration, Registered, HandedTo
    <3>5. QED  BY <3>2, <3>3, <3>4
  <2>3. QED  BY <2>1, <2>2 DEF Enters
<1>6. PICK h : Registration(h) = w /\ subs' = Others \cup {h}
  BY <1>5
<1>7. registryBook' = {v \in registryBook : ~Registry!SameBrowser(v, w)} \cup {w}
  BY <1>6, BookTakes
<1>8. registryTold' = [registryTold EXCEPT ![u] = w] \/ registryTold' = registryTold
  BY <1>2, <1>3, <1>4, ToldOne
<1>9. QED  BY <1>3, <1>7, <1>8 DEF Registry!Register

\* All other steps leave the rows, or one row leaves.
LEMMA RowsLeave ==
  ASSUME FulfilmentInv, [Next]_vars, \A u \in Subscribers : ~Enters(u)
  PROVE  subs' = subs \/ \E r \in subs : subs' = subs \ {r}
<1>1. CallTypes /\ TableTypes /\ RowsInv
  BY TypesNow DEF FulfilmentInv
<1>2. ASSUME NEW c \in Senders, Prune(c) PROVE subs' = subs \/ \E r \in subs : subs' = subs \ {r}
  <2> DEFINE gone == {r \in subs : r.id = hit[c].id}
  <2>1. subs' = subs \ gone
    BY <1>2 DEF Prune
  <2>2. gone = {} \/ \E r \in subs : gone = {r}
    BY <1>1 DEF RowsInv
  <2> HIDE DEF gone
  <2>3. QED  BY <2>1, <2>2
<1>3. ASSUME NEW s \in Stores, NEW e \in Endpoints, NEW user \in Users, Unsubscribe(s, e, user)
      PROVE subs' = subs \/ \E r \in subs : subs' = subs \ {r}
  <2> DEFINE mine == {r \in Of(s, e) : r.user = user}
  <2>1. subs' = subs \ mine
    BY <1>3 DEF Unsubscribe
  <2>2. mine = {} \/ \E r \in subs : mine = {r}
    BY <1>1 DEF TableTypes, OneRegistrationPerBrowser, Of
  <2> HIDE DEF mine
  <2>3. QED  BY <2>1, <2>2
<1>4. ASSUME NEW u \in Subscribers, InsertRow(u) \/ UpdateRow(u) PROVE subs' = subs
  BY <1>4 DEF Enters, InsertRow
<1>5. ASSUME NEW c, OpenOrder(c) \/ SaveStatus(c) \/ Announce(c) \/ ListRows(c) \/ Send(c) \/ Reply(c)
                    \/ FindRow(c) \/ LookAgain(c) \/ Crash(c)
      PROVE subs' = subs
  BY <1>5 DEF OpenOrder, SaveStatus, Announce, ListRows, Send, Reply, FindRow, LookAgain, Crash, tableVars
<1>6. ASSUME \/ \E e \in Endpoints : Expire(e)
             \/ \E o \in Orders : EraseOrder(o)
             \/ \E s \in Stores : ToggleProduct(s)
      PROVE subs' = subs
  BY <1>6 DEF Expire, EraseOrder, ToggleProduct, tableVars
<1>7. CASE UNCHANGED vars
  BY <1>7 DEF vars
<1>8. QED  BY <1>2, <1>3, <1>4, <1>5, <1>6, <1>7 DEF Next

LEMMA RegistryStep ==
  ASSUME FulfilmentInv, [Next]_vars
  PROVE  [Registry!RegistryNext]_Registry!registryVars
<1>1. ASSUME NEW u \in Subscribers, Enters(u) PROVE Registry!RegistryNext
  <2>1. Registry!Register(u, wish[u]) /\ wish[u] \in Registered
    BY <1>1, RegisterShows
  <2>2. QED  BY <2>1 DEF Registry!RegistryNext
<1>2. CASE \A u \in Subscribers : ~Enters(u)
  <2>1. registryTold' = registryTold
    BY <1>2, ToldStays
  <2>2. CASE subs' = subs
    <3>1. registryBook' = registryBook
      BY <2>2 DEF registryBook, Registration
    <3>2. QED  BY <2>1, <3>1 DEF Registry!registryVars
  <2>3. ASSUME NEW r \in subs, subs' = subs \ {r} PROVE Registry!RegistryNext
    <3>1. TableTypes
      BY TypesNow
    <3>2. registryBook' = registryBook \ {Registration(r)} /\ Registration(r) \in registryBook
      BY <2>3, <3>1, BookLoses DEF TableTypes, registryBook
    <3>3. Registration(r) \in Registered
      BY <3>1 DEF TableTypes, Rows, Registered, Registration
    <3>4. Registry!Remove(Registration(r))
      BY <2>1, <3>2 DEF Registry!Remove
    <3>5. QED  BY <3>3, <3>4 DEF Registry!RegistryNext
  <2>4. QED  BY <1>2, <2>2, <2>3, RowsLeave
<1>3. QED  BY <1>1, <1>2

\* Subscribes, unsubscribes and pruning implement the registry: each 201 took effect in one
\* step, and no step touches the entry of more than one browser at one store.
THEOREM PushImplementsRegistry == Spec => ImplementsRegistry
<1>1. Init => Registry!RegistryInit
  <2> SUFFICES ASSUME Init PROVE Registry!RegistryInit
    OBVIOUS
  <2>1. \A u \in Subscribers : answer[u] # 201
    BY Apart, NoneIsApart DEF Init
  <2>2. registryTold = [u \in Subscribers |-> None] /\ registryBook = {}
    BY <2>1 DEF Init, registryTold, registryBook
  <2>3. QED  BY <2>2 DEF Registry!RegistryInit
<1>2. FulfilmentInv /\ [Next]_vars => [Registry!RegistryNext]_Registry!registryVars
  BY RegistryStep
<1>3. QED  BY <1>1, <1>2, FulfilmentInvariant, PTL DEF Spec, ImplementsRegistry, Registry!RegistrySpec
=============================================================================
