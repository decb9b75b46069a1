---------------------------- MODULE OrdersProofs ----------------------------
(***************************************************************************)
(* Theorems about Orders, for every set of calls, sellers, products,       *)
(* payloads and column width.  They rest on one inductive invariant,       *)
(* PlacementInv, whose parts say what each stage of a call has established.*)
(***************************************************************************)
EXTENDS Orders, TLAPS

\* A call carries a payload once it was submitted, and an answer once it is done.
Asked == \A r \in Requests : /\ stage[r] = "idle" <=> payload[r] = None
                             /\ stage[r] = "done" <=> answer[r] # None

\* A call that is adding lines has an item left to add; one that is past them has none.
ItemLeft ==
  \A r \in Requests :
    /\ stage[r] \in {"price", "line"} => Len(lines[r]) < Len(payload[r].items)
    /\ stage[r] \in {"total", "commit"} => Len(lines[r]) = Len(payload[r].items)
    /\ stage[r] \in {"idle", "lookup"} => lines[r] = <<>>
    /\ stage[r] = "insert" => lines[r] = <<>> /\ payload[r].items # <<>>

\* A total that was written fits its column.
ColumnFits == \A r \in Requests : stage[r] = "commit" => Charged(r) \in 0..MaxInt

TypeInv == TypeOK /\ Asked /\ ItemLeft /\ ColumnFits

\* The unique key: two open transactions, or an open one and a committed order, never
\* carry the same intent.
KeyExclusive ==
  \A r \in Requests : InTransaction(r) =>
    /\ \A q \in Requests \ {r} : InTransaction(q) => payload[q].intent # payload[r].intent
    /\ \A o \in Committed : orders[o].intent # payload[r].intent

\* An order is committed by its own call, from its own payload, and remembered.
OrdersAreAccepted ==
  /\ \A o \in Committed : o \in accepted /\ orders[o].intent = payload[o].intent
  /\ \A o \in accepted : stage[o] = "created" \/ (stage[o] = "done" /\ answer[o].code \in {0, 201})
  /\ \A r \in Requests : stage[r] = "created" => r \in accepted
  /\ \A r \in Requests : stage[r] = "done" /\ answer[r].code = 201 => answer[r].order = r

\* The lines of an open transaction are those of the bag so far, all of the call's store.
LinesFollowBag ==
  \A r \in Requests : InTransaction(r) =>
    \A i \in DOMAIN lines[r] :
      /\ lines[r][i].quantity = payload[r].items[i].quantity
      /\ lines[r][i].product = payload[r].items[i].product
      /\ StoreOf[lines[r][i].product] = payload[r].intent.store
LineInStore ==
  \A r \in Requests : stage[r] = "line" => StoreOf[NextItem(r).product] = payload[r].intent.store

PlacementInv ==
  /\ TypeInv
  /\ KeyExclusive /\ OneOrderPerKey
  /\ OrdersAreAccepted /\ AnswersTellTheTruth
  /\ LinesFollowBag /\ LineInStore /\ OrderIsWhole /\ StoreKeepsItsProducts
  /\ LinesReferenceLiveProducts
-----------------------------------------------------------------------------
(* Types *)

LEMMA ItemTypes ==
  ASSUME NEW p \in Payloads
  PROVE  /\ p.intent \in Intents
         /\ p.items \in Seq(Items)
         /\ \A i \in 1..Len(p.items) :
              /\ p.items[i].product \in Products
              /\ p.items[i].options \subseteq Options
              /\ p.items[i].quantity \in Nat \ {0}
  <1>1. p \in [intent: Intents, items: Seq(Items)]
    BY ConstantsAssumption
  <1>2. p.intent \in Intents /\ p.items \in Seq(Items)
    BY <1>1
  <1>3. ASSUME NEW i \in 1..Len(p.items) PROVE p.items[i] \in Items
    BY <1>2
  <1> QED
    BY <1>2, <1>3 DEF Items

LEMMA NextItemType ==
  ASSUME TypeInv, NEW r \in Requests, stage[r] \in {"price", "line"}
  PROVE  /\ payload[r] \in Payloads
         /\ Len(lines[r]) + 1 \in 1..Len(payload[r].items)
         /\ NextItem(r).product \in Products
         /\ NextItem(r).options \subseteq Options
         /\ NextItem(r).quantity \in Nat \ {0}
  <1>1. payload[r] \in Payloads
    BY DEF TypeInv, TypeOK, Asked
  <1>2. Len(lines[r]) \in Nat /\ Len(payload[r].items) \in Nat
    BY <1>1, ItemTypes DEF TypeInv, TypeOK
  <1>3. Len(lines[r]) + 1 \in 1..Len(payload[r].items)
    BY <1>2 DEF TypeInv, ItemLeft
  <1> QED
    BY <1>1, <1>3, ItemTypes DEF NextItem

LEMMA InitTypes == Init => TypeInv
  <1> SUFFICES ASSUME Init PROVE TypeInv
    OBVIOUS
  <1>1. TypeOK
    <2>1. OptionsOf \in [Products -> SUBSET Options] /\ 0 \in 0..MaxInt /\ <<>> \in Seq(Lines)
      BY ConstantsAssumption
    <2>2. removal \in [Deleters -> Removals]
      BY DEF Init, Removals
    <2> QED
      BY <2>1, <2>2 DEF Init, TypeOK, Stages
  <1>2. Asked /\ ItemLeft /\ ColumnFits
    BY DEF Init, Asked, ItemLeft, ColumnFits
  <1> QED
    BY <1>1, <1>2 DEF TypeInv

LEMMA AnswerType ==
  ASSUME TypeOK, NEW r \in Requests, NEW code \in Codes, NEW o \in Requests \cup {None},
         Answer(r, code, o)
  PROVE  /\ stage' \in [Requests -> Stages] /\ answer' \in [Requests -> Answers \cup {None}]
         /\ stage'[r] = "done" /\ answer'[r] # None
         /\ answer'[r] = [code |-> code, order |-> o]
         /\ \A q \in Requests \ {r} : stage'[q] = stage[q] /\ answer'[q] = answer[q]
  <1>1. [code |-> code, order |-> o] \in Answers
    BY DEF Answers
  <1> QED
    BY <1>1, ConstantsAssumption DEF Answer, TypeOK, Stages

LEMMA GotoType ==
  ASSUME TypeOK, NEW r \in Requests, NEW s \in Stages, Goto(r, s)
  PROVE  /\ stage' \in [Requests -> Stages] /\ answer' = answer
         /\ stage'[r] = s
         /\ \A q \in Requests \ {r} : stage'[q] = stage[q]
  BY DEF Goto, TypeOK

\* Whatever a call does, it moves to a stage or is answered.
LEMMA CallControl ==
  ASSUME TypeOK, NEW r \in Requests, Submit(r) \/ Place(r) \/ Crash(r)
  PROVE  \/ \E s \in Stages \ {"idle", "done"} : Goto(r, s)
         \/ \E code \in Codes, o \in Requests \cup {None} : Answer(r, code, o)
  <1> USE DEF Stages, Codes
  <1>1. CASE Submit(r)
    BY <1>1 DEF Submit
  <1>2. CASE FastPath(r)
    BY <1>2 DEF FastPath, Existing
  <1>3. CASE InsertOrder(r)
    BY <1>3 DEF InsertOrder
  <1>4. CASE PriceLine(r)
    BY <1>4 DEF PriceLine
  <1>5. CASE InsertLine(r)
    BY <1>5 DEF InsertLine
  <1>6. CASE SaveTotal(r)
    BY <1>6 DEF SaveTotal
  <1>7. CASE CommitOrder(r)
    BY <1>7 DEF CommitOrder
  <1>8. CASE ReplyCreated(r)
    BY <1>8 DEF ReplyCreated
  <1>9. CASE Reread(r)
    BY <1>9 DEF Reread, Existing
  <1>10. CASE Crash(r)
    BY <1>10 DEF Crash
  <1> QED
    BY <1>1, <1>2, <1>3, <1>4, <1>5, <1>6, <1>7, <1>8, <1>9, <1>10 DEF Place

LEMMA CallTypes ==
  ASSUME TypeOK, NEW r \in Requests, Submit(r) \/ Place(r) \/ Crash(r)
  PROVE  stage' \in [Requests -> Stages] /\ answer' \in [Requests -> Answers \cup {None}]
  BY CallControl, AnswerType, GotoType DEF TypeOK

LEMMA DetachedType ==
  ASSUME NEW row \in OrderRows, NEW p \in Products \cup {None}
  PROVE  /\ Detached(row, p) \in OrderRows
         /\ Detached(row, p).total = row.total /\ Detached(row, p).intent = row.intent
         /\ DOMAIN Detached(row, p).lines = DOMAIN row.lines
         /\ Len(Detached(row, p).lines) = Len(row.lines)
         /\ \A i \in DOMAIN row.lines : Detached(row, p).lines[i] = Detach(row.lines[i], p)
  <1> DEFINE ls == [i \in DOMAIN row.lines |-> Detach(row.lines[i], p)]
  <1>1. row.lines \in Seq(Lines)
    BY DEF OrderRows
  <1>2. \A i \in DOMAIN row.lines : Detach(row.lines[i], p) \in Lines
    <2> TAKE i \in DOMAIN row.lines
    <2>1. row.lines[i] \in Lines
      BY <1>1
    <2>2. [row.lines[i] EXCEPT !.product = None] \in Lines
      BY <2>1 DEF Lines
    <2> QED
      BY <2>1, <2>2 DEF Detach
  <1>3. ls \in Seq(Lines) /\ DOMAIN ls = DOMAIN row.lines /\ Len(ls) = Len(row.lines)
    BY <1>1, <1>2
  <1>4. Detached(row, p) = [row EXCEPT !.lines = ls]
    BY DEF Detached
  <1> QED
    BY <1>3, <1>4 DEF OrderRows

LEMMA TypeStep == TypeInv /\ [Next]_vars => TypeOK'
  <1> SUFFICES ASSUME TypeInv, [Next]_vars PROVE TypeOK'
    OBVIOUS
  <1> USE DEF TypeInv, TypeOK
  <1>1. ASSUME NEW r \in Requests, Submit(r) PROVE TypeOK'
    <2>1. payload' \in [Requests -> Payloads \cup {None}]
      BY <1>1 DEF Submit
    <2> QED
      BY <2>1, <1>1, CallTypes DEF Submit, tableVars
  <1>2. ASSUME NEW r \in Requests, FastPath(r) PROVE TypeOK'
    BY <1>2, CallTypes DEF Place, FastPath, tableVars
  <1>3. ASSUME NEW r \in Requests, InsertOrder(r) PROVE TypeOK'
    BY <1>3, CallTypes DEF Place, InsertOrder, tableVars
  <1>4. ASSUME NEW r \in Requests, PriceLine(r) PROVE TypeOK'
    <2>1. price' \in [Requests -> 0..MaxInt]
      <3>1. OnSale(NextItem(r).product, payload[r].intent.store) => product[NextItem(r).product].price \in 0..MaxInt
        BY <1>4, NextItemType, ConstantsAssumption DEF PriceLine, OnSale, ProductRows
      <3> QED
        BY <3>1, <1>4 DEF PriceLine
    <2> QED
      BY <2>1, <1>4, CallTypes DEF Place, PriceLine, tableVars
  <1>5. ASSUME NEW r \in Requests, InsertLine(r) PROVE TypeOK'
    <2>1. lines' \in [Requests -> Seq(Lines)]
      <3> DEFINE item == NextItem(r)
                 line == [product |-> item.product, quantity |-> item.quantity, unitPrice |-> price[r]]
      <3>1. item.product \in Products /\ item.quantity \in Nat \ {0} /\ price[r] \in 0..MaxInt
        BY <1>5, NextItemType DEF InsertLine
      <3>2. item.quantity <= MaxInt => line \in Lines
        BY <3>1, ConstantsAssumption DEF Lines
      <3>3. item.quantity <= MaxInt => Append(lines[r], line) \in Seq(Lines)
        BY <3>2
      <3>4. lines' = lines \/ (item.quantity <= MaxInt /\ lines' = [lines EXCEPT ![r] = Append(lines[r], line)])
        BY <1>5 DEF InsertLine
      <3> HIDE DEF item, line
      <3> QED
        BY <3>3, <3>4
    <2> QED
      BY <2>1, <1>5, CallTypes DEF Place, InsertLine, tableVars
  <1>6. ASSUME NEW r \in Requests, SaveTotal(r) PROVE TypeOK'
    BY <1>6, CallTypes DEF Place, SaveTotal, tableVars
  <1>7. ASSUME NEW r \in Requests, CommitOrder(r) PROVE TypeOK'
    <2>1. orders' \in [Requests -> OrderRows \cup {None}]
      <3>1. [intent |-> payload[r].intent, total |-> Charged(r), lines |-> lines[r]] \in OrderRows
        BY <1>7, ItemTypes DEF CommitOrder, Asked, ColumnFits, OrderRows
      <3> QED
        BY <3>1, <1>7 DEF CommitOrder
    <2> QED
      BY <2>1, <1>7, CallTypes DEF Place, CommitOrder, catalogVars
  <1>8. ASSUME NEW r \in Requests, ReplyCreated(r) PROVE TypeOK'
    BY <1>8, CallTypes DEF Place, ReplyCreated, tableVars
  <1>9. ASSUME NEW r \in Requests, Reread(r) PROVE TypeOK'
    BY <1>9, CallTypes DEF Place, Reread, tableVars
  <1>10. ASSUME NEW r \in Requests, Crash(r) PROVE TypeOK'
    BY <1>10, CallTypes DEF Crash, tableVars
  <1>11. ASSUME NEW r \in Requests, EraseOrder(r) PROVE TypeOK'
    BY <1>11 DEF EraseOrder, catalogVars
  <1>12. ASSUME NEW d \in Deleters, DeleteLoad(d) PROVE TypeOK'
    <2>1. removal' \in [Deleters -> Removals]
      BY <1>12 DEF DeleteLoad, Removals, Proceed
    <2> QED
      BY <2>1, <1>12 DEF DeleteLoad, tableVars
  <1>13. ASSUME NEW d \in Deleters, DetachLines(d) PROVE TypeOK'
    <2>1. removal' \in [Deleters -> Removals]
      <3>1. removal[d].product \in Products \cup {None}
        BY DEF Removals
      <3>2. Referencing(removal[d].product) \subseteq Requests
        BY DEF Referencing
      <3> QED
        BY <3>1, <3>2, <1>13 DEF DetachLines, Removals, Proceed
    <2> QED
      BY <2>1, <1>13 DEF DetachLines, tableVars
  <1>14. ASSUME NEW d \in Deleters, RemoveRow(d) PROVE TypeOK'
    <2>1. removal' \in [Deleters -> Removals]
      <3>1. [stage |-> "commit", product |-> removal[d].product, detached |-> removal[d].detached] \in Removals
        BY DEF Removals
      <3>2. [stage |-> "idle", product |-> None, detached |-> {}] \in Removals
        BY DEF Removals
      <3> QED
        BY <3>1, <3>2, <1>14 DEF RemoveRow, Proceed
    <2> QED
      BY <2>1, <1>14 DEF RemoveRow, tableVars
  <1>15. ASSUME NEW d \in Deleters, CommitDelete(d) PROVE TypeOK'
    <2>1. removal[d].product \in Products \cup {None}
      BY DEF Removals
    <2>2. removal' \in [Deleters -> Removals]
      BY <1>15 DEF CommitDelete, Proceed, Removals
    <2>3. orders' \in [Requests -> OrderRows \cup {None}]
      BY <2>1, <1>15, DetachedType DEF CommitDelete
    <2>4. product' \in [Products -> ProductRows \cup {None}] /\ options' \in [Products -> SUBSET Options]
      BY <1>15 DEF CommitDelete
    <2> QED
      BY <2>2, <2>3, <2>4, <1>15 DEF CommitDelete
  <1>16. ASSUME NEW e \in Editors, EditLoad(e) PROVE TypeOK'
    BY <1>16 DEF EditLoad, tableVars
  <1>17. ASSUME NEW e \in Editors, EditSave(e) PROVE TypeOK'
    BY <1>17 DEF EditSave
  <1>18. CASE UNCHANGED vars
    BY <1>18 DEF vars
  <1> QED
    BY <1>1, <1>2, <1>3, <1>4, <1>5, <1>6, <1>7, <1>8, <1>9, <1>10, <1>11, <1>12, <1>13, <1>14, <1>15, <1>16, <1>17, <1>18 DEF Next, Place, Remove, Quiet

(***************************************************************************)
(* What a step may touch.                                                  *)
(***************************************************************************)
callVars == <<stage, payload, price, lines, answer>>

LEMMA CallOrNot ==
  ASSUME [Next]_vars
  PROVE  (\E r \in Requests : Submit(r) \/ Place(r) \/ Crash(r)) \/ UNCHANGED callVars
  BY DEF Next, vars, callVars, Remove, Quiet, EraseOrder, DeleteLoad, DetachLines, RemoveRow,
         CommitDelete, EditLoad, EditSave

LEMMA OthersRest ==
  ASSUME TypeOK, NEW r \in Requests, Submit(r) \/ Place(r) \/ Crash(r), NEW q \in Requests \ {r}
  PROVE  /\ stage'[q] = stage[q] /\ answer'[q] = answer[q]
         /\ payload'[q] = payload[q] /\ price'[q] = price[q] /\ lines'[q] = lines[q]
  <1>1. stage'[q] = stage[q] /\ answer'[q] = answer[q]
    BY CallControl, GotoType, AnswerType
  <1>2. payload'[q] = payload[q]
    BY DEF TypeOK, Submit, Place, Crash, FastPath, InsertOrder, PriceLine, InsertLine, SaveTotal,
           CommitOrder, ReplyCreated, Reread
  <1>3. price'[q] = price[q]
    BY DEF TypeOK, Submit, Place, Crash, FastPath, InsertOrder, PriceLine, InsertLine, SaveTotal,
           CommitOrder, ReplyCreated, Reread
  <1>4. lines'[q] = lines[q]
    BY DEF TypeOK, Submit, Place, Crash, FastPath, InsertOrder, PriceLine, InsertLine, SaveTotal,
           CommitOrder, ReplyCreated, Reread
  <1> QED
    BY <1>1, <1>2, <1>3, <1>4

LEMMA PayloadStays ==
  ASSUME TypeOK, NEW r \in Requests, Place(r) \/ Crash(r)
  PROVE  payload' = payload /\ stage[r] \notin {"idle", "done"}
  BY DEF Place, Crash, FastPath, InsertOrder, PriceLine, InsertLine, SaveTotal,
         CommitOrder, ReplyCreated, Reread

LEMMA AskedStep == TypeInv /\ [Next]_vars => Asked'
  <1> SUFFICES ASSUME TypeInv, [Next]_vars, NEW q \in Requests
               PROVE  (stage'[q] = "idle" <=> payload'[q] = None) /\ (stage'[q] = "done" <=> answer'[q] # None)
    BY DEF Asked
  <1> USE DEF TypeInv
  <1> DEFINE Goal == /\ stage'[q] = "idle" <=> payload'[q] = None
                     /\ stage'[q] = "done" <=> answer'[q] # None
  <1>1. ASSUME NEW r \in Requests, Submit(r) \/ Place(r) \/ Crash(r), q # r PROVE Goal
    BY <1>1, OthersRest DEF Asked
  <1>2. CASE Submit(q)
    BY <1>2, CallControl, GotoType, AnswerType, ConstantsAssumption DEF Submit, Asked, TypeOK, Stages
  <1>3. CASE Place(q) \/ Crash(q)
    <2>1. payload'[q] # None /\ answer[q] = None
      BY <1>3, PayloadStays DEF Asked
    <2>2. stage'[q] # "idle" /\ (stage'[q] = "done" <=> answer'[q] # None)
      <3>1. CASE \E s \in Stages \ {"idle", "done"} : Goto(q, s)
        BY <3>1, <2>1, GotoType
      <3>2. CASE \E code \in Codes, o \in Requests \cup {None} : Answer(q, code, o)
        BY <3>2, AnswerType
      <3> QED
        BY <1>3, <3>1, <3>2, CallControl
    <2> QED
      BY <2>1, <2>2
  <1>4. CASE UNCHANGED callVars
    BY <1>4 DEF callVars, Asked
  <1> QED
    BY <1>1, <1>2, <1>3, <1>4, CallOrNot

LEMMA ItemLeftStep == TypeInv /\ [Next]_vars => ItemLeft'
  <1> DEFINE Left(st, ls, its) ==
        /\ st \in {"price", "line"} => Len(ls) < Len(its)
        /\ st \in {"total", "commit"} => Len(ls) = Len(its)
        /\ st \in {"idle", "lookup"} => ls = <<>>
        /\ st = "insert" => ls = <<>> /\ its # <<>>
  <1> SUFFICES ASSUME TypeInv, [Next]_vars, NEW q \in Requests
               PROVE  Left(stage'[q], lines'[q], payload'[q].items)
    BY DEF ItemLeft
  <1> DEFINE Goal == Left(stage'[q], lines'[q], payload'[q].items)
  <1>0. Left(stage[q], lines[q], payload[q].items) /\ lines[q] \in Seq(Lines)
    BY DEF TypeInv, TypeOK, ItemLeft
  <1>i. stage[q] # "idle" => payload[q].items \in Seq(Items)
    BY ItemTypes DEF TypeInv, TypeOK, Asked
  <1> USE DEF TypeInv
  <1>1. ASSUME NEW r \in Requests, Submit(r) \/ Place(r) \/ Crash(r), q # r PROVE Goal
    BY <1>0, <1>1, OthersRest
  <1>2. CASE Submit(q)
    BY <1>0, <1>2, GotoType DEF Submit, Stages
  <1>3. CASE FastPath(q)
    BY <1>0, <1>3 DEF FastPath, Goto, Answer, TypeOK
  <1>4. CASE InsertOrder(q)
    BY <1>0, <1>i, <1>4, GotoType DEF InsertOrder, Stages
  <1>5. CASE PriceLine(q)
    BY <1>0, <1>5 DEF PriceLine, Goto, Answer, TypeOK
  <1>6. CASE InsertLine(q)
    BY <1>0, <1>i, <1>6 DEF InsertLine, Goto, Answer, TypeOK
  <1>7. CASE SaveTotal(q)
    BY <1>0, <1>7 DEF SaveTotal, Goto, Answer, TypeOK
  <1>8. CASE CommitOrder(q)
    BY <1>0, <1>8, GotoType DEF CommitOrder, Stages
  <1>9. CASE ReplyCreated(q) \/ Reread(q) \/ Crash(q)
    BY <1>0, <1>9 DEF ReplyCreated, Reread, Crash, Answer, TypeOK
  <1>10. CASE UNCHANGED callVars
    BY <1>0, <1>10 DEF callVars
  <1> QED
    BY <1>1, <1>2, <1>3, <1>4, <1>5, <1>6, <1>7, <1>8, <1>9, <1>10, CallOrNot DEF Place
LEMMA ColumnStep == TypeInv /\ [Next]_vars => ColumnFits'
  <1> SUFFICES ASSUME TypeInv, [Next]_vars, NEW q \in Requests, stage'[q] = "commit"
               PROVE  Total(lines'[q]) \in 0..MaxInt
    BY DEF ColumnFits, Charged
  <1> DEFINE Goal == Total(lines'[q]) \in 0..MaxInt
  <1> USE DEF TypeInv
  <1>0. stage[q] = "commit" => Total(lines[q]) \in 0..MaxInt
    BY DEF ColumnFits, Charged
  <1>1. ASSUME NEW r \in Requests, Submit(r) \/ Place(r) \/ Crash(r), q # r PROVE Goal
    BY <1>0, <1>1, OthersRest
  <1>2. CASE SaveTotal(q)
    BY <1>2 DEF SaveTotal, Charged, Answer, TypeOK
  <1>3. CASE Submit(q) \/ FastPath(q) \/ InsertOrder(q) \/ PriceLine(q) \/ InsertLine(q)
    BY <1>3 DEF Submit, FastPath, InsertOrder, PriceLine, InsertLine, Goto, Answer, TypeOK
  <1>4. CASE CommitOrder(q) \/ ReplyCreated(q) \/ Reread(q) \/ Crash(q)
    BY <1>4 DEF CommitOrder, ReplyCreated, Reread, Crash, Goto, Answer, TypeOK
  <1>5. CASE UNCHANGED callVars
    BY <1>0, <1>5 DEF callVars
  <1> QED
    BY <1>1, <1>2, <1>3, <1>4, <1>5, CallOrNot DEF Place

LEMMA TypeInvStep == TypeInv /\ [Next]_vars => TypeInv'
  BY TypeStep, AskedStep, ItemLeftStep, ColumnStep DEF TypeInv

\* Every variable keeps its type: in particular what is written to the orders and
\* order_items tables fits their columns, because SaveTotal and InsertLine refuse the rest.
THEOREM TypeCorrect == Spec => []TypeOK
  <1>1. Init => TypeInv
    BY InitTypes
  <1>2. TypeInv /\ [Next]_vars => TypeInv'
    BY TypeInvStep
  <1>3. TypeInv => TypeOK
    BY DEF TypeInv
  <1> QED
    BY <1>1, <1>2, <1>3, PTL DEF Spec

-----------------------------------------------------------------------------
(* What a step does to the orders table *)

LEMMA OrdersChange ==
  ASSUME [Next]_vars
  PROVE  \/ \E r \in Requests : CommitOrder(r) \/ EraseOrder(r)
         \/ \E d \in Deleters : CommitDelete(d)
         \/ UNCHANGED <<orders, accepted>>
  BY DEF Next, vars, tableVars, catalogVars, Place, Remove, Quiet, Submit, FastPath, InsertOrder,
         PriceLine, InsertLine, SaveTotal, ReplyCreated, Reread, Crash, DeleteLoad, DetachLines,
         RemoveRow, EditLoad, EditSave

NewRow(o) == [intent |-> payload[o].intent, total |-> Charged(o), lines |-> lines[o]]

\* An order that is in the table after a step was there, and is frozen, or its own call
\* has just committed it.
LEMMA OrderStep ==
  ASSUME TypeInv, OrdersAreAccepted, [Next]_vars, NEW o \in Requests, orders'[o] # None
  PROVE  \/ orders[o] # None /\ Frozen(o)
         \/ orders[o] = None /\ CommitOrder(o) /\ ForeignKeysHold(o) /\ orders'[o] = NewRow(o)
  <1> DEFINE Same == orders'[o] = orders[o]
  <1>0. orders[o] # None => orders[o] \in OrderRows
    BY DEF TypeInv, TypeOK
  <1>1. ASSUME NEW r \in Requests, CommitOrder(r), r # o PROVE Same
    BY <1>1 DEF CommitOrder, TypeInv, TypeOK
  <1>2. CASE CommitOrder(o)
    <2>1. o \notin accepted
      BY <1>2 DEF CommitOrder, OrdersAreAccepted
    <2>2. orders[o] = None
      BY <2>1 DEF OrdersAreAccepted, Committed
    <2> QED
      BY <1>2, <2>2 DEF CommitOrder, NewRow, TypeInv, TypeOK
  <1>3. ASSUME NEW r \in Requests, EraseOrder(r) PROVE Same
    BY <1>3 DEF EraseOrder, TypeInv, TypeOK
  <1>4. ASSUME NEW d \in Deleters, CommitDelete(d) PROVE orders[o] # None /\ Frozen(o)
    <2>1. CASE Same
      BY <2>1, <1>0 DEF Frozen
    <2>2. CASE orders[o] # None /\ orders'[o] = Detached(orders[o], removal[d].product)
      <3>1. removal[d].product \in Products \cup {None}
        BY DEF TypeInv, TypeOK, Removals
      <3>2. \A i \in DOMAIN orders[o].lines : orders[o].lines[i] \in Lines
        BY <2>2, <1>0 DEF OrderRows
      <3> DEFINE new == Detached(orders[o], removal[d].product)
      <3>3. /\ new.total = orders[o].total /\ new.intent = orders[o].intent
            /\ DOMAIN new.lines = DOMAIN orders[o].lines
            /\ \A i \in DOMAIN orders[o].lines :
                 new.lines[i] = Detach(orders[o].lines[i], removal[d].product)
        BY <1>0, <2>2, <3>1, DetachedType
      <3>4. ASSUME NEW line \in Lines, NEW p
            PROVE  /\ Detach(line, p).unitPrice = line.unitPrice
                   /\ Detach(line, p).quantity = line.quantity
                   /\ Detach(line, p).product \in {line.product, None}
        BY <3>4 DEF Detach, Lines
      <3> HIDE DEF new
      <3> QED
        BY <2>2, <3>2, <3>3, <3>4 DEF Frozen, new
    <2> QED
      BY <1>4, <2>1, <2>2 DEF CommitDelete
  <1>5. ASSUME UNCHANGED orders PROVE Same
    BY <1>5
  <1>6. Same => orders[o] # None /\ Frozen(o)
    BY <1>0 DEF Frozen
  <1> QED
    BY <1>1, <1>2, <1>3, <1>4, <1>5, <1>6, OrdersChange

-----------------------------------------------------------------------------
(* The unique key *)

LEMMA EnterTransaction ==
  ASSUME TypeInv, [Next]_vars, NEW r \in Requests, InTransaction(r)'
  PROVE  /\ payload'[r] = payload[r]
         /\ \/ InTransaction(r)
            \/ InsertOrder(r) /\ Existing(payload[r].intent) = {}
  <1> DEFINE Goal == /\ payload'[r] = payload[r]
                     /\ \/ InTransaction(r)
                        \/ InsertOrder(r) /\ Existing(payload[r].intent) = {}
  <1> USE DEF TypeInv
  <1>0. stage'[r] \in {"price", "line", "total", "commit"}
    BY DEF InTransaction
  <1>1. ASSUME NEW q \in Requests, Submit(q) \/ Place(q) \/ Crash(q), q # r PROVE Goal
    BY <1>0, <1>1, OthersRest DEF InTransaction
  <1>2. CASE Submit(r) \/ FastPath(r)
    BY <1>0, <1>2 DEF Submit, FastPath, Goto, Answer, TypeOK
  <1>3. CASE InsertOrder(r)
    BY <1>0, <1>3 DEF InsertOrder, Goto, TypeOK
  <1>4. CASE PriceLine(r) \/ InsertLine(r) \/ SaveTotal(r)
    BY <1>0, <1>4 DEF PriceLine, InsertLine, SaveTotal, InTransaction
  <1>5. CASE CommitOrder(r) \/ ReplyCreated(r) \/ Reread(r) \/ Crash(r)
    BY <1>0, <1>5 DEF CommitOrder, ReplyCreated, Reread, Crash, Goto, Answer, TypeOK
  <1>6. CASE UNCHANGED callVars
    BY <1>0, <1>6 DEF callVars, InTransaction
  <1> QED
    BY <1>1, <1>2, <1>3, <1>4, <1>5, <1>6, CallOrNot DEF Place

KeyInv == TypeInv /\ OrdersAreAccepted /\ KeyExclusive /\ OneOrderPerKey

\* After a step two open transactions still carry different intents: one that was just
\* opened has waited for the others.
LEMMA OpenExclusive ==
  ASSUME KeyInv, [Next]_vars, NEW r \in Requests, NEW q \in Requests \ {r},
         InTransaction(r)', InTransaction(q)'
  PROVE  payload'[q].intent # payload'[r].intent
  <1>1. /\ payload'[r] = payload[r] /\ payload'[q] = payload[q]
        /\ InTransaction(r) \/ InsertOrder(r)
        /\ InTransaction(q) \/ InsertOrder(q)
    BY EnterTransaction DEF KeyInv
  <1>2. CASE InTransaction(r) /\ InTransaction(q)
    BY <1>1, <1>2 DEF KeyInv, KeyExclusive
  <1>3. CASE InsertOrder(r) /\ InTransaction(q)
    BY <1>1, <1>3 DEF InsertOrder
  <1>4. CASE InsertOrder(q) /\ InTransaction(r)
    BY <1>1, <1>4 DEF InsertOrder
  <1>5. CASE InsertOrder(q) /\ InsertOrder(r)
    BY <1>5 DEF InsertOrder, Goto, KeyInv, TypeInv, TypeOK
  <1> QED
    BY <1>1, <1>2, <1>3, <1>4, <1>5

LEMMA CommittedExclusive ==
  ASSUME KeyInv, [Next]_vars, NEW r \in Requests, InTransaction(r)', NEW o \in Requests, orders'[o] # None
  PROVE  orders'[o].intent # payload'[r].intent
  <1> USE DEF KeyInv
  <1>1. /\ payload'[r] = payload[r]
        /\ InTransaction(r) \/ (InsertOrder(r) /\ Existing(payload[r].intent) = {})
    BY EnterTransaction
  <1>2. CASE orders[o] # None /\ Frozen(o)
    <2>1. orders'[o].intent = orders[o].intent
      BY <1>2 DEF Frozen
    <2> QED
      BY <1>1, <1>2, <2>1 DEF KeyExclusive, Committed, Existing
  <1>3. CASE CommitOrder(o) /\ orders'[o] = NewRow(o)
    <2>1. InTransaction(o) /\ orders'[o].intent = payload[o].intent
      BY <1>3 DEF CommitOrder, NewRow, InTransaction
    <2>2. r # o
      BY <1>3 DEF CommitOrder, Goto, TypeInv, TypeOK, InTransaction
    <2>3. InTransaction(r)
      BY <1>3, <2>2 DEF CommitOrder, Goto, TypeInv, TypeOK, InTransaction
    <2> QED
      BY <1>1, <2>1, <2>2, <2>3 DEF KeyExclusive
  <1> QED
    BY <1>2, <1>3, OrderStep

LEMMA KeyStep ==
  ASSUME KeyInv, [Next]_vars
  PROVE  KeyExclusive' /\ OneOrderPerKey'
  <1>1. KeyExclusive'
    BY OpenExclusive, CommittedExclusive DEF KeyExclusive, Committed
  <1>2. OneOrderPerKey'
    <2> SUFFICES ASSUME NEW o \in Requests, NEW q \in Requests, orders'[o] # None, orders'[q] # None,
                        orders'[o].intent = orders'[q].intent, o # q
                 PROVE  FALSE
      BY DEF OneOrderPerKey, Committed
    <2>1. CASE orders[o] # None /\ Frozen(o) /\ orders[q] # None /\ Frozen(q)
      BY <2>1 DEF KeyInv, OneOrderPerKey, Committed, Frozen
    <2>2. ASSUME NEW a \in Requests, NEW b \in Requests, a # b, orders'[b] # None,
                 CommitOrder(a), orders'[a] = NewRow(a), orders'[a].intent = orders'[b].intent
          PROVE  FALSE
      <3>1. InTransaction(a) /\ orders'[a].intent = payload[a].intent /\ orders'[b] = orders[b]
        BY <2>2 DEF CommitOrder, InTransaction, NewRow, KeyInv, TypeInv, TypeOK
      <3> QED
        BY <2>2, <3>1 DEF KeyInv, KeyExclusive, Committed
    <2> QED
      BY <2>1, <2>2, OrderStep DEF KeyInv
  <1> QED
    BY <1>1, <1>2

-----------------------------------------------------------------------------
(* Accepted orders and answers *)

AnswerInv == TypeInv /\ OrdersAreAccepted /\ AnswersTellTheTruth

LEMMA PayloadKept ==
  ASSUME TypeInv, [Next]_vars, NEW o \in Requests, stage[o] # "idle"
  PROVE  payload'[o] = payload[o]
  <1>1. ASSUME NEW r \in Requests, Submit(r) PROVE payload'[o] = payload[o]
    BY <1>1 DEF Submit, TypeInv, TypeOK
  <1>2. ASSUME NEW r \in Requests, Place(r) \/ Crash(r) PROVE payload'[o] = payload[o]
    BY <1>2, PayloadStays DEF TypeInv
  <1>3. CASE UNCHANGED callVars
    BY <1>3 DEF callVars
  <1> QED
    BY <1>1, <1>2, <1>3, CallOrNot

LEMMA AcceptedStep ==
  ASSUME TypeInv, [Next]_vars, NEW o \in Requests
  PROVE  o \in accepted' <=> (o \in accepted \/ (CommitOrder(o) /\ ForeignKeysHold(o)))
  <1>1. CASE CommitOrder(o)
    BY <1>1 DEF CommitOrder, TypeInv, TypeOK
  <1>2. CASE ~CommitOrder(o)
    <2>1. ASSUME NEW r \in Requests, CommitOrder(r) PROVE o \in accepted' <=> o \in accepted
      BY <1>2, <2>1 DEF CommitOrder
    <2>2. ASSUME NEW r \in Requests, EraseOrder(r) PROVE accepted' = accepted
      BY <2>2 DEF EraseOrder
    <2>3. ASSUME NEW d \in Deleters, CommitDelete(d) PROVE accepted' = accepted
      BY <2>3 DEF CommitDelete
    <2> QED
      BY <1>2, <2>1, <2>2, <2>3, OrdersChange
  <1> QED
    BY <1>1, <1>2

\* How a call comes to the stage it is in after a step.
LEMMA StageStep ==
  ASSUME TypeInv, [Next]_vars, NEW r \in Requests
  PROVE  \/ stage'[r] = stage[r] /\ answer'[r] = answer[r]
         \/ stage[r] \notin {"created", "done"} /\ stage'[r] \notin {"created", "done"}
         \/ CommitOrder(r) /\ ForeignKeysHold(r) /\ stage'[r] = "created"
         \/ /\ stage[r] \notin {"idle", "created", "done"} /\ stage'[r] = "done"
            /\ \/ answer'[r].code \in {0, 400, 404, 500}
               \/ /\ answer'[r].code = 200
                  /\ answer'[r].order \in Existing(payload[r].intent)
         \/ /\ stage[r] = "created" /\ stage'[r] = "done"
            /\ \/ answer'[r].code = 0
               \/ answer'[r].code = 201 /\ answer'[r].order = r
  <1> USE DEF TypeInv, TypeOK, Goto, Answer
  <1>1. ASSUME NEW q \in Requests, Submit(q) \/ Place(q) \/ Crash(q), q # r
        PROVE  stage'[r] = stage[r] /\ answer'[r] = answer[r]
    BY <1>1, OthersRest
  <1>2. CASE Submit(r) \/ InsertOrder(r)
    BY <1>2 DEF Submit, InsertOrder
  <1>3. CASE FastPath(r)
    BY <1>3 DEF FastPath
  <1>4. CASE PriceLine(r)
    BY <1>4 DEF PriceLine
  <1>5. CASE InsertLine(r)
    BY <1>5 DEF InsertLine
  <1>6. CASE SaveTotal(r)
    BY <1>6 DEF SaveTotal
  <1>7. CASE CommitOrder(r)
    BY <1>7 DEF CommitOrder
  <1>8. CASE ReplyCreated(r)
    BY <1>8 DEF ReplyCreated
  <1>9. CASE Reread(r)
    BY <1>9 DEF Reread
  <1>10. CASE Crash(r)
    BY <1>10 DEF Crash
  <1>11. ASSUME UNCHANGED callVars PROVE stage'[r] = stage[r] /\ answer'[r] = answer[r]
    BY <1>11 DEF callVars
  <1> QED
    BY <1>1, <1>2, <1>3, <1>4, <1>5, <1>6, <1>7, <1>8, <1>9, <1>10, <1>11, CallOrNot DEF Place

LEMMA AcceptedInvStep ==
  ASSUME AnswerInv, [Next]_vars
  PROVE  OrdersAreAccepted'
  <1> USE DEF AnswerInv
  <1>1. ASSUME NEW o \in Requests, orders'[o] # None
        PROVE  o \in accepted' /\ orders'[o].intent = payload'[o].intent
    <2>1. CASE orders[o] # None /\ Frozen(o)
      <3>1. o \in accepted /\ orders[o].intent = payload[o].intent /\ stage[o] # "idle"
        BY <2>1 DEF OrdersAreAccepted, Committed
      <3>2. orders'[o].intent = orders[o].intent
        BY <1>1, <2>1 DEF Frozen
      <3> QED
        BY <3>1, <3>2, PayloadKept, AcceptedStep
    <2>2. CASE CommitOrder(o) /\ ForeignKeysHold(o) /\ orders'[o] = NewRow(o)
      BY <2>2, AcceptedStep DEF NewRow, CommitOrder
    <2> QED
      BY <1>1, <2>1, <2>2, OrderStep
  <1>2. ASSUME NEW o \in Requests, o \in accepted'
        PROVE  stage'[o] = "created" \/ (stage'[o] = "done" /\ answer'[o].code \in {0, 201})
    <2>1. o \in accepted => stage[o] = "created" \/ (stage[o] = "done" /\ answer[o].code \in {0, 201})
      BY DEF OrdersAreAccepted
    <2>2. CASE o \in accepted
      BY <2>1, <2>2, StageStep DEF CommitOrder
    <2>3. CASE CommitOrder(o) /\ ForeignKeysHold(o)
      BY <2>3 DEF CommitOrder, Goto, TypeInv, TypeOK
    <2> QED
      BY <1>2, <2>2, <2>3, AcceptedStep
  <1>3. ASSUME NEW r \in Requests, stage'[r] = "created" PROVE r \in accepted'
    BY <1>3, StageStep, AcceptedStep DEF OrdersAreAccepted
  <1>4. ASSUME NEW r \in Requests, stage'[r] = "done", answer'[r].code = 201 PROVE answer'[r].order = r
    BY <1>4, StageStep DEF OrdersAreAccepted
  <1>5. accepted' \subseteq Requests
    BY TypeInvStep DEF TypeInv, TypeOK
  <1> QED
    BY <1>1, <1>2, <1>3, <1>4, <1>5 DEF OrdersAreAccepted, Committed

LEMMA AnswersStep ==
  ASSUME AnswerInv, [Next]_vars
  PROVE  AnswersTellTheTruth'
  <1> USE DEF AnswerInv
  <1> SUFFICES ASSUME NEW r \in Requests, answer'[r] # None
               PROVE  /\ answer'[r].code \in {400, 404, 500} => r \notin accepted'
                      /\ answer'[r].code \in {200, 201} =>
                           /\ answer'[r].order \in accepted'
                           /\ payload'[answer'[r].order].intent = payload'[r].intent
    BY DEF AnswersTellTheTruth
  <1>1. stage'[r] = "done"
    BY TypeInvStep DEF TypeInv, Asked
  <1>2. stage[r] # "idle" /\ payload'[r] = payload[r]
    BY <1>1, StageStep, PayloadKept
  <1>3. \A o \in accepted : o \in Requests /\ o \in accepted' /\ payload'[o] = payload[o]
    BY AcceptedStep, PayloadKept DEF OrdersAreAccepted, TypeInv, TypeOK
  <1>4. CASE answer'[r].code \in {400, 404, 500}
    BY <1>1, <1>4, AcceptedInvStep DEF OrdersAreAccepted
  <1>5. CASE answer'[r].code = 200
    <2>1. CASE stage[r] = "done" /\ answer'[r] = answer[r]
      BY <1>2, <1>3, <1>5, <2>1 DEF AnswersTellTheTruth, TypeInv, Asked
    <2>2. CASE answer'[r].order \in Existing(payload[r].intent)
      BY <1>2, <1>3, <1>5, <2>2 DEF Existing, OrdersAreAccepted, Committed
    <2> QED
      BY <1>1, <1>5, <2>1, <2>2, StageStep
  <1>6. CASE answer'[r].code = 201
    <2>1. answer'[r].order = r
      BY <1>1, <1>6, AcceptedInvStep DEF OrdersAreAccepted
    <2>2. r \in accepted
      <3>1. CASE stage[r] = "done" /\ answer'[r] = answer[r]
        BY <1>6, <2>1, <3>1 DEF AnswersTellTheTruth, TypeInv, Asked
      <3>2. CASE stage[r] = "created"
        BY <3>2 DEF OrdersAreAccepted
      <3> QED
        BY <1>1, <1>6, <3>1, <3>2, StageStep
    <2> QED
      BY <1>2, <1>3, <1>6, <2>1, <2>2
  <1> QED
    BY <1>4, <1>5, <1>6

-----------------------------------------------------------------------------
(* Lines and totals *)

LineInv ==
  /\ TypeInv /\ OrdersAreAccepted
  /\ LinesFollowBag /\ LineInStore /\ OrderIsWhole /\ StoreKeepsItsProducts

LEMMA LineInStoreStep ==
  ASSUME LineInv, [Next]_vars
  PROVE  LineInStore'
  <1> SUFFICES ASSUME NEW q \in Requests, stage'[q] = "line"
               PROVE  StoreOf[NextItem(q)'.product] = payload'[q].intent.store
    BY DEF LineInStore
  <1> DEFINE Goal == StoreOf[NextItem(q)'.product] = payload'[q].intent.store
  <1> USE DEF LineInv, TypeInv
  <1>1. ASSUME NEW r \in Requests, Submit(r) \/ Place(r) \/ Crash(r), q # r PROVE Goal
    BY <1>1, OthersRest DEF LineInStore, NextItem
  <1>2. CASE PriceLine(q)
    BY <1>2 DEF PriceLine, OnSale, NextItem, Answer, TypeOK
  <1>3. CASE Submit(q) \/ FastPath(q) \/ InsertOrder(q) \/ InsertLine(q) \/ SaveTotal(q)
    BY <1>3 DEF Submit, FastPath, InsertOrder, InsertLine, SaveTotal, Goto, Answer, TypeOK
  <1>4. CASE CommitOrder(q) \/ ReplyCreated(q) \/ Reread(q) \/ Crash(q)
    BY <1>4 DEF CommitOrder, ReplyCreated, Reread, Crash, Goto, Answer, TypeOK
  <1>5. CASE UNCHANGED callVars
    BY <1>5 DEF callVars, LineInStore, NextItem
  <1> QED
    BY <1>1, <1>2, <1>3, <1>4, <1>5, CallOrNot DEF Place

LEMMA LinesFollowBagStep ==
  ASSUME LineInv, [Next]_vars
  PROVE  LinesFollowBag'
  <1> SUFFICES ASSUME NEW q \in Requests, InTransaction(q)', NEW i \in DOMAIN lines'[q]
               PROVE  /\ lines'[q][i].quantity = payload'[q].items[i].quantity
                      /\ lines'[q][i].product = payload'[q].items[i].product
                      /\ StoreOf[lines'[q][i].product] = payload'[q].intent.store
    BY DEF LinesFollowBag
  <1> DEFINE Goal == /\ lines'[q][i].quantity = payload'[q].items[i].quantity
                     /\ lines'[q][i].product = payload'[q].items[i].product
                     /\ StoreOf[lines'[q][i].product] = payload'[q].intent.store
  <1> USE DEF LineInv, TypeInv
  <1>0. payload'[q] = payload[q] /\ (InTransaction(q) \/ InsertOrder(q))
    BY EnterTransaction
  <1>1. CASE lines'[q] = lines[q] /\ InTransaction(q)
    BY <1>0, <1>1 DEF LinesFollowBag
  <1>2. CASE InsertOrder(q)
    BY <1>2 DEF InsertOrder, ItemLeft
  <1>3. CASE InsertLine(q) /\ lines'[q] # lines[q]
    <2> DEFINE item == NextItem(q)
               line == [product |-> item.product, quantity |-> item.quantity, unitPrice |-> price[q]]
    <2>1. lines'[q] = Append(lines[q], line) /\ stage[q] = "line" /\ lines[q] \in Seq(Lines)
      BY <1>3 DEF InsertLine, TypeOK
    <2>2. CASE i = Len(lines[q]) + 1
      <3>1. lines'[q][i] = line
        BY <2>1, <2>2
      <3>2. item = payload[q].items[i]
        BY <2>2 DEF NextItem
      <3>3. StoreOf[item.product] = payload[q].intent.store
        BY <2>1 DEF LineInStore
      <3> QED
        BY <1>0, <3>1, <3>2, <3>3
    <2>3. CASE i \in 1..Len(lines[q])
      <3>1. lines'[q][i] = lines[q][i] /\ i \in DOMAIN lines[q]
        BY <2>1, <2>3
      <3> QED
        BY <1>0, <2>1, <3>1 DEF LinesFollowBag, InTransaction
    <2>4. i \in 1..(Len(lines[q]) + 1)
      BY <2>1
    <2>5. Len(lines[q]) \in Nat
      BY <2>1
    <2> QED
      BY <2>2, <2>3, <2>4, <2>5
  <1>4. lines'[q] # lines[q] => InsertLine(q)
    <2>1. ASSUME NEW r \in Requests, Submit(r) \/ Place(r) \/ Crash(r), q # r PROVE lines'[q] = lines[q]
      BY <2>1, OthersRest
    <2>2. ASSUME Submit(q) \/ Place(q) \/ Crash(q) PROVE lines' = lines \/ InsertLine(q)
      BY <2>2 DEF Submit, Place, Crash, FastPath, InsertOrder, PriceLine, SaveTotal, CommitOrder,
                  ReplyCreated, Reread
    <2> QED
      BY <2>1, <2>2, CallOrNot DEF callVars
  <1> QED
    BY <1>0, <1>1, <1>2, <1>3, <1>4

\* A total depends on quantities and unit prices only: detaching products leaves it alone.
LEMMA TotalSame ==
  ASSUME NEW ls, NEW ms, DOMAIN ms = DOMAIN ls,
         \A i \in DOMAIN ls : ms[i].quantity = ls[i].quantity /\ ms[i].unitPrice = ls[i].unitPrice
  PROVE  Total(ms) = Total(ls)
  <1>1. [i \in DOMAIN ms |-> ms[i].quantity * ms[i].unitPrice] = [i \in DOMAIN ls |-> ls[i].quantity * ls[i].unitPrice]
    OBVIOUS
  <1> QED
    BY <1>1 DEF Total

LEMMA WholeStep ==
  ASSUME LineInv, [Next]_vars
  PROVE  OrderIsWhole' /\ StoreKeepsItsProducts'
  <1> SUFFICES ASSUME NEW o \in Requests, orders'[o] # None
               PROVE  /\ orders'[o].total = Total(orders'[o].lines)
                      /\ Len(orders'[o].lines) = Len(payload'[o].items)
                      /\ \A i \in DOMAIN orders'[o].lines :
                           /\ orders'[o].lines[i].quantity = payload'[o].items[i].quantity
                           /\ orders'[o].lines[i].product \in {payload'[o].items[i].product, None}
                           /\ orders'[o].lines[i].product # None
                                => StoreOf[orders'[o].lines[i].product] = orders'[o].intent.store
    BY DEF OrderIsWhole, StoreKeepsItsProducts, Committed
  <1> USE DEF LineInv, TypeInv
  <1>1. orders'[o] \in OrderRows
    BY TypeInvStep DEF TypeOK
  <1>2. orders'[o].lines \in Seq(Lines)
    BY <1>1 DEF OrderRows
  <1>3. CASE orders[o] # None /\ Frozen(o)
    <2>1. stage[o] # "idle" /\ payload'[o] = payload[o]
      BY <1>3, PayloadKept DEF OrdersAreAccepted, Committed
    <2>2. orders[o].lines \in Seq(Lines)
      BY <1>3 DEF TypeOK, OrderRows
    <2>3. Total(orders'[o].lines) = Total(orders[o].lines)
      BY <1>3, TotalSame DEF Frozen
    <2>4. Len(orders'[o].lines) = Len(orders[o].lines)
      BY <1>2, <1>3, <2>2 DEF Frozen
    <2>5. /\ orders[o].total = Total(orders[o].lines)
          /\ Len(orders[o].lines) = Len(payload[o].items)
          /\ \A i \in DOMAIN orders[o].lines :
               /\ orders[o].lines[i].quantity = payload[o].items[i].quantity
               /\ orders[o].lines[i].product \in {payload[o].items[i].product, None}
               /\ orders[o].lines[i].product # None
                    => StoreOf[orders[o].lines[i].product] = orders[o].intent.store
      BY <1>3 DEF OrderIsWhole, StoreKeepsItsProducts, Committed
    <2> QED
      BY <1>3, <2>1, <2>3, <2>4, <2>5 DEF Frozen
  <1>4. CASE CommitOrder(o) /\ orders'[o] = NewRow(o)
    <2>1. stage[o] = "commit" /\ payload' = payload
      BY <1>4 DEF CommitOrder
    <2>2. Len(lines[o]) = Len(payload[o].items)
      BY <2>1 DEF ItemLeft
    <2> QED
      BY <1>4, <2>1, <2>2 DEF NewRow, Charged, LinesFollowBag, InTransaction
  <1> QED
    BY <1>3, <1>4, OrderStep

-----------------------------------------------------------------------------
(* References to products *)

RefInv == TypeInv /\ OrdersAreAccepted /\ LinesReferenceLiveProducts

LEMMA ReferenceStep ==
  ASSUME RefInv, [Next]_vars
  PROVE  LinesReferenceLiveProducts'
  <1> SUFFICES ASSUME NEW o \in Requests, orders'[o] # None, NEW i \in DOMAIN orders'[o].lines,
                      orders'[o].lines[i].product \in Products
               PROVE  product'[orders'[o].lines[i].product] # None
    BY DEF LinesReferenceLiveProducts, Referencing
  <1> DEFINE p == orders'[o].lines[i].product
  <1> USE DEF RefInv, TypeInv
  <1>1. product[p] # None
    <2>1. CASE orders[o] # None /\ Frozen(o)
      <3>1. i \in DOMAIN orders[o].lines /\ orders[o].lines[i].product = p
        BY <2>1, ConstantsAssumption DEF Frozen
      <3> QED
        BY <2>1, <3>1 DEF LinesReferenceLiveProducts, Referencing
    <2>2. CASE CommitOrder(o) /\ ForeignKeysHold(o) /\ orders'[o] = NewRow(o)
      BY <2>2 DEF NewRow, ForeignKeysHold
    <2> QED
      BY <2>1, <2>2, OrderStep
  <1>2. ASSUME NEW d \in Deleters, CommitDelete(d) PROVE product'[p] # None
    <2>1. CASE product' = product
      BY <1>1, <2>1
    <2>2. CASE /\ product' = [product EXCEPT ![removal[d].product] = None]
               /\ orders[o] # None /\ orders'[o] = Detached(orders[o], removal[d].product)
      <3>1. removal[d].product \in Products \cup {None} /\ orders[o] \in OrderRows
        BY <2>2 DEF TypeOK, Removals
      <3>2. i \in DOMAIN orders[o].lines /\ orders'[o].lines[i] = Detach(orders[o].lines[i], removal[d].product)
        BY <2>2, <3>1, DetachedType
      <3>3. orders[o].lines[i] \in Lines
        BY <3>1, <3>2 DEF OrderRows
      <3>4. p # removal[d].product
        BY <3>2, <3>3, ConstantsAssumption DEF Detach, Lines
      <3> QED
        BY <1>1, <2>2, <3>4 DEF TypeOK
    <2> QED
      BY <1>2, <2>1, <2>2 DEF CommitDelete, TypeOK
  <1>3. ASSUME NEW e \in Editors, EditSave(e) PROVE product'[p] # None
    BY <1>1, <1>3, ConstantsAssumption DEF EditSave, TypeOK
  <1>4. \/ \E d \in Deleters : CommitDelete(d)
        \/ \E e \in Editors : EditSave(e)
        \/ product' = product
    BY DEF Next, vars, tableVars, catalogVars, Place, Remove, Quiet, Submit, FastPath, InsertOrder,
           PriceLine, InsertLine, SaveTotal, CommitOrder, ReplyCreated, Reread, Crash, DeleteLoad,
           DetachLines, RemoveRow, EditLoad, EraseOrder
  <1> QED
    BY <1>1, <1>2, <1>3, <1>4

-----------------------------------------------------------------------------
(* The safety theorems *)

LEMMA InitPlacement == Init => PlacementInv
  <1> SUFFICES ASSUME Init PROVE PlacementInv
    OBVIOUS
  <1>1. TypeInv
    BY InitTypes
  <1>2. Committed = {} /\ accepted = {} /\ \A r \in Requests : stage[r] = "idle" /\ answer[r] = None
    BY DEF Init, Committed
  <1>3. \A p : Referencing(p) = {}
    BY DEF Init, Referencing
  <1> QED
    BY <1>1, <1>2, <1>3 DEF PlacementInv, KeyExclusive, OneOrderPerKey, OrdersAreAccepted, AnswersTellTheTruth,
      LinesFollowBag, LineInStore, OrderIsWhole, StoreKeepsItsProducts, LinesReferenceLiveProducts, InTransaction

LEMMA StepPlacement == PlacementInv /\ [Next]_vars => PlacementInv'
  <1> SUFFICES ASSUME PlacementInv, [Next]_vars PROVE PlacementInv'
    OBVIOUS
  <1> USE DEF PlacementInv
  <1>1. TypeInv'
    BY TypeInvStep
  <1>2. KeyExclusive' /\ OneOrderPerKey'
    BY KeyStep DEF KeyInv
  <1>3. OrdersAreAccepted' /\ AnswersTellTheTruth'
    BY AcceptedInvStep, AnswersStep DEF AnswerInv
  <1>4. LinesFollowBag' /\ LineInStore' /\ OrderIsWhole' /\ StoreKeepsItsProducts'
    BY LinesFollowBagStep, LineInStoreStep, WholeStep DEF LineInv
  <1>5. LinesReferenceLiveProducts'
    BY ReferenceStep DEF RefInv
  <1> QED
    BY <1>1, <1>2, <1>3, <1>4, <1>5

LEMMA Placement == Spec => []PlacementInv
  BY InitPlacement, StepPlacement, PTL DEF Spec

\* One order per store, customer and key: the wait on the unique key and the check of
\* committed rows in InsertOrder leave no interleaving with two.
THEOREM KeySafety == Spec => []OneOrderPerKey
  <1>1. PlacementInv => OneOrderPerKey
    BY DEF PlacementInv
  <1> QED
    BY <1>1, Placement, PTL

\* Every committed order has a line for each item of its bag and charges their sum,
\* whatever happens to the products meanwhile.
THEOREM WholeOrders == Spec => []OrderIsWhole
  <1>1. PlacementInv => OrderIsWhole
    BY DEF PlacementInv
  <1> QED
    BY <1>1, Placement, PTL

\* An order of a store only references products of that store.
THEOREM TenantLines == Spec => []StoreKeepsItsProducts
  <1>1. PlacementInv => StoreKeepsItsProducts
    BY DEF PlacementInv
  <1> QED
    BY <1>1, Placement, PTL

\* No order line references a product that is gone: the row lock and the deferred checks
\* of both commits decide every race of an order with a delete.
THEOREM LiveReferences == Spec => []LinesReferenceLiveProducts
  <1>1. PlacementInv => LinesReferenceLiveProducts
    BY DEF PlacementInv
  <1> QED
    BY <1>1, Placement, PTL

\* A refused call has left no order; an answered one names an order of its own key.
THEOREM TruthfulAnswers == Spec => []AnswersTellTheTruth
  <1>1. PlacementInv => AnswersTellTheTruth
    BY DEF PlacementInv
  <1> QED
    BY <1>1, Placement, PTL

\* Two calls with one key that are told of orders are told of the same one, if both exist:
\* what each was told has the call's key (AnswersTellTheTruth), and a key has one order.
THEOREM OneReplyPerKey == Spec => []RepliesAgree
  <1>1. PlacementInv => RepliesAgree
    <2> SUFFICES ASSUME PlacementInv, NEW r \in Requests, NEW q \in Requests,
                        ledgerReply[r] # None, ledgerReply[q] # None,
                        ledgerIntent[r] = ledgerIntent[q],
                        ledgerReply[r].kind = "order", ledgerReply[q].kind = "order",
                        ledgerTotal[ledgerReply[r].order] # None,
                        ledgerTotal[ledgerReply[q].order] # None
                 PROVE  ledgerReply[r].order = ledgerReply[q].order
      BY DEF RepliesAgree, Ledger!RepliesAgree
    <2>1. ASSUME NEW c \in {r, q}
          PROVE  /\ ledgerReply[c].order = answer[c].order
                 /\ answer[c].order \in Committed
                 /\ orders[answer[c].order].intent = payload[c].intent
                 /\ payload[c] # None
      <3>1. answer[c] # None /\ ledgerReply[c].order = answer[c].order
            /\ answer[c].code \in {200, 201}
        BY DEF ledgerReply, replyKind
      <3>2. /\ answer[c].order \in accepted /\ accepted \subseteq Requests
            /\ payload[answer[c].order].intent = payload[c].intent
        BY <3>1 DEF PlacementInv, TypeInv, TypeOK, AnswersTellTheTruth
      <3>3. answer[c].order \in Committed
        BY <3>1, <3>2 DEF ledgerTotal, Committed
      <3>4. stage[c] = "done" /\ payload[c] # None
        BY <3>1 DEF PlacementInv, TypeInv, Asked
      <3> QED
        BY <3>1, <3>2, <3>3, <3>4 DEF PlacementInv, OrdersAreAccepted
    <2>2. payload[r].intent = payload[q].intent
      BY <2>1 DEF ledgerIntent
    <2> QED
      BY <2>1, <2>2 DEF PlacementInv, OneOrderPerKey
  <1> QED
    BY <1>1, Placement, PTL

\* No step changes what a committed order charges for.
THEOREM FrozenOrders == Spec => OrdersAreFrozen
  <1>1. PlacementInv /\ [Next]_vars => [\A o \in Requests : Frozen(o)]_vars
    <2> SUFFICES ASSUME PlacementInv, [Next]_vars, NEW o \in Requests PROVE Frozen(o)
      OBVIOUS
    <2>1. CASE orders'[o] = None \/ orders[o] = None
      BY <2>1 DEF Frozen
    <2>2. CASE orders'[o] # None /\ orders[o] # None
      BY <2>2, OrderStep DEF PlacementInv
    <2> QED
      BY <2>1, <2>2
  <1> QED
    BY <1>1, Placement, PTL DEF Spec, OrdersAreFrozen

-----------------------------------------------------------------------------
(* Placement implements the ledger *)

\* What the ledger sees of a call and of an order.
LEMMA Seen ==
  ASSUME TypeInv, NEW r \in Requests
  PROVE  /\ ledgerIntent[r] = IF payload[r] = None THEN None ELSE payload[r].intent
         /\ payload[r] # None => ledgerIntent[r] = payload[r].intent /\ ledgerIntent[r] \in Intents
         /\ ledgerIntent[r] = None <=> stage[r] = "idle"
         /\ ledgerTotal[r] = IF orders[r] = None THEN None ELSE orders[r].total
         /\ ledgerTotal[r] = None <=> orders[r] = None
         /\ ledgerReply[r] = None <=> stage[r] # "done"
  <1>1. payload[r] # None => payload[r].intent \in Intents
    BY ItemTypes DEF TypeInv, TypeOK
  <1>2. orders[r] # None => orders[r].total \in 0..MaxInt
    BY DEF TypeInv, TypeOK, OrderRows
  <1>3. answer[r] # None => [kind |-> replyKind(answer[r].code), order |-> answer[r].order] \in Replies
    BY DEF TypeInv, TypeOK, Answers, Replies, replyKind
  <1> QED
    BY <1>1, <1>2, <1>3, ConstantsAssumption DEF ledgerIntent, ledgerTotal, ledgerReply, TypeInv, Asked

\* Steps that leave intents, totals and answers as they are do not show.
LEMMA Hidden ==
  ASSUME UNCHANGED <<payload, accepted, answer>>,
         \A o \in Requests : (orders'[o] = None <=> orders[o] = None) /\ (orders[o] # None => orders'[o].total = orders[o].total)
  PROVE  UNCHANGED Ledger!ledgerVars
  <1>1. ledgerIntent' = ledgerIntent /\ ledgerReply' = ledgerReply
    BY DEF ledgerIntent, ledgerReply
  <1>2. ledgerTotal' = ledgerTotal
    BY DEF ledgerTotal
  <1> QED
    BY <1>1, <1>2 DEF Ledger!ledgerVars

\* An answer with an order of the call's own intent is a Tell, a refusal a Refuse.
LEMMA AnswerShows ==
  ASSUME TypeInv, OrdersAreAccepted, NEW r \in Requests, stage[r] \notin {"idle", "done"},
         NEW code \in Codes, NEW o \in Requests \cup {None}, Answer(r, code, o),
         UNCHANGED <<payload, orders, accepted>>,
         code \in {0, 400, 404, 500} => o = None
  PROVE  /\ code = 0 => Ledger!Lose(r)
         /\ code \in {400, 404, 500} /\ r \notin accepted => Ledger!Refuse(r)
         /\ code \in {200, 201} /\ o \in accepted /\ payload[o].intent = payload[r].intent /\ (r \in accepted => o = r)
              => Ledger!Tell(r)
  <1>1. Ledger!Waiting(r)
    BY Seen DEF Ledger!Waiting
  <1>2. ledgerIntent' = ledgerIntent /\ ledgerTotal' = ledgerTotal
    BY DEF ledgerIntent, ledgerTotal
  <1>3. ledgerReply' = [ledgerReply EXCEPT ![r] = [kind |-> replyKind(code), order |-> o]]
    <2>1. answer'[r] = [code |-> code, order |-> o] /\ \A q \in Requests \ {r} : answer'[q] = answer[q]
      BY AnswerType DEF TypeInv
    <2>2. answer'[r] # None
      BY AnswerType DEF TypeInv
    <2>3. ledgerReply'[r] = [kind |-> replyKind(code), order |-> o]
      BY <2>1, <2>2 DEF ledgerReply, replyKind
    <2>4. \A q \in Requests \ {r} : ledgerReply'[q] = ledgerReply[q]
      BY <2>1 DEF ledgerReply
    <2>5. /\ ledgerReply' = [q \in Requests |-> ledgerReply'[q]]
          /\ ledgerReply = [q \in Requests |-> ledgerReply[q]]
      BY DEF ledgerReply
    <2> QED
      BY <2>3, <2>4, <2>5, Zenon
  <1>k. /\ code = 0 => replyKind(code) = "lost"
        /\ code \in {400, 404, 500} => replyKind(code) = "refused"
        /\ code \in {200, 201} => replyKind(code) = "order"
    BY DEF replyKind
  <1>4. code = 0 => Ledger!Lose(r)
    BY <1>1, <1>2, <1>3, <1>k DEF Ledger!Lose
  <1>5. ASSUME code \in {400, 404, 500}, r \notin accepted PROVE Ledger!Refuse(r)
    <2>1. o = None /\ replyKind(code) = "refused"
      BY <1>5, <1>k
    <2>2. ledgerReply' = [ledgerReply EXCEPT ![r] = [kind |-> "refused", order |-> None]]
      BY <1>3, <2>1
    <2> QED
      BY <1>1, <1>2, <1>5, <2>2 DEF Ledger!Refuse
  <1>6. ASSUME code \in {200, 201}, o \in accepted, payload[o].intent = payload[r].intent, r \in accepted => o = r
        PROVE  Ledger!Tell(r)
    <2>1. ledgerReply' = [ledgerReply EXCEPT ![r] = [kind |-> "order", order |-> o]]
      BY <1>3, <1>6, <1>k
    <2>2. ledgerIntent[o] = ledgerIntent[r]
      <3>1. o \in Requests /\ stage[o] # "idle"
        BY <1>6 DEF OrdersAreAccepted, TypeInv, TypeOK
      <3> QED
        BY <1>6, <3>1, Seen DEF TypeInv, Asked
    <2> QED
      BY <1>1, <1>2, <1>6, <2>1, <2>2 DEF Ledger!Tell
  <1> QED
    BY <1>4, <1>5, <1>6

LEMMA GotoHides ==
  ASSUME NEW r \in Requests, NEW s, Goto(r, s), UNCHANGED <<payload, orders, accepted>>
  PROVE  UNCHANGED Ledger!ledgerVars
  BY Hidden DEF Goto

LEMMA LedgerStep ==
  ASSUME PlacementInv, [Next]_vars
  PROVE  [Ledger!LedgerNext]_Ledger!ledgerVars
  <1> DEFINE Goal == [Ledger!LedgerNext]_Ledger!ledgerVars
  <1> USE DEF PlacementInv
  <1>0. ASSUME NEW r \in Requests, Ledger!Ask(r) \/ Ledger!Accept(r) \/ Ledger!Tell(r) \/ Ledger!Refuse(r)
                                   \/ Ledger!Lose(r) \/ Ledger!Strike(r)
        PROVE  Goal
    BY <1>0 DEF Ledger!LedgerNext
  <1>e. \A r \in Requests : \A o \in Existing(payload[r].intent) :
          o \in accepted /\ o \in Requests /\ payload[o].intent = payload[r].intent
    BY DEF Existing, OrdersAreAccepted, Committed
  <1>a. \A r \in Requests : stage[r] \notin {"created", "done"} => r \notin accepted
    BY DEF OrdersAreAccepted
  <1>1. ASSUME NEW r \in Requests, Submit(r) PROVE Goal
    <2>1. PICK p \in Payloads : payload' = [payload EXCEPT ![r] = p]
      BY <1>1 DEF Submit
    <2>2. p # None /\ p.intent \in Intents
      BY ItemTypes, ConstantsAssumption
    <2>3. ledgerIntent' = [ledgerIntent EXCEPT ![r] = p.intent]
      BY <2>1, <2>2 DEF ledgerIntent, TypeInv, TypeOK
    <2>4. ledgerTotal' = ledgerTotal /\ ledgerReply' = ledgerReply /\ accepted' = accepted
      BY <1>1 DEF Submit, Goto, tableVars, ledgerTotal, ledgerReply
    <2>5. ledgerIntent[r] = None
      BY <1>1, Seen DEF Submit
    <2> QED
      BY <1>0, <2>2, <2>3, <2>4, <2>5 DEF Ledger!Ask
  <1>2. ASSUME NEW r \in Requests, FastPath(r) PROVE Goal
    <2>1. stage[r] = "lookup" /\ UNCHANGED <<payload, orders, accepted>>
      BY <1>2 DEF FastPath, tableVars
    <2>2. CASE \E o \in Existing(payload[r].intent) : Answer(r, 200, o)
      BY <1>0, <1>e, <1>a, <2>1, <2>2, AnswerShows DEF Codes
    <2>3. CASE Answer(r, 400, None)
      BY <1>0, <1>a, <2>1, <2>3, AnswerShows DEF Codes
    <2>4. CASE Goto(r, "insert")
      BY <2>1, <2>4, GotoHides
    <2> QED
      BY <1>2, <2>2, <2>3, <2>4 DEF FastPath
  <1>3. ASSUME NEW r \in Requests, InsertOrder(r) PROVE Goal
    BY <1>3, GotoHides DEF InsertOrder, tableVars
  <1>4. ASSUME NEW r \in Requests, PriceLine(r) PROVE Goal
    <2>1. stage[r] = "price" /\ UNCHANGED <<payload, orders, accepted>>
      BY <1>4 DEF PriceLine, tableVars
    <2>2. CASE Answer(r, 404, None)
      BY <1>0, <1>a, <2>1, <2>2, AnswerShows DEF Codes
    <2>3. CASE Goto(r, "line")
      BY <2>1, <2>3, GotoHides
    <2> QED
      BY <1>4, <2>2, <2>3 DEF PriceLine
  <1>5. ASSUME NEW r \in Requests, InsertLine(r) PROVE Goal
    <2>1. stage[r] = "line" /\ UNCHANGED <<payload, orders, accepted>>
      BY <1>5 DEF InsertLine, tableVars
    <2>2. CASE Answer(r, 400, None) \/ Answer(r, 500, None)
      BY <1>0, <1>a, <2>1, <2>2, AnswerShows DEF Codes
    <2>3. CASE \E s : Goto(r, s)
      BY <2>1, <2>3, GotoHides
    <2> QED
      BY <1>5, <2>2, <2>3 DEF InsertLine
  <1>6. ASSUME NEW r \in Requests, SaveTotal(r) PROVE Goal
    <2>1. stage[r] = "total" /\ UNCHANGED <<payload, orders, accepted>>
      BY <1>6 DEF SaveTotal, tableVars
    <2>2. CASE Answer(r, 500, None)
      BY <1>0, <1>a, <2>1, <2>2, AnswerShows DEF Codes
    <2>3. CASE Goto(r, "commit")
      BY <2>1, <2>3, GotoHides
    <2> QED
      BY <1>6, <2>2, <2>3 DEF SaveTotal
  <1>7. ASSUME NEW r \in Requests, CommitOrder(r) PROVE Goal
    <2>1. CASE ~ForeignKeysHold(r)
      BY <1>7, <2>1, GotoHides DEF CommitOrder
    <2>2. CASE ForeignKeysHold(r)
      <3>1. /\ orders' = [orders EXCEPT ![r] = NewRow(r)] /\ accepted' = accepted \cup {r}
            /\ payload' = payload /\ answer' = answer /\ stage[r] = "commit"
        BY <1>7, <2>2 DEF CommitOrder, NewRow, Goto
      <3>2. r \notin accepted /\ Ledger!Waiting(r)
        BY <1>a, <3>1, Seen DEF Ledger!Waiting
      <3>3. Charged(r) \in 0..MaxInt
        BY <3>1 DEF TypeInv, ColumnFits
      <3>4. NewRow(r) # None /\ NewRow(r).total = Charged(r)
        <4>1. orders'[r] \in OrderRows \cup {None} /\ orders'[r] = NewRow(r)
          BY <3>1, TypeInvStep DEF TypeInv, TypeOK
        <4>2. NewRow(r) \in OrderRows
          BY <3>1, <3>3, ItemTypes DEF NewRow, OrderRows, TypeInv, TypeOK, Asked
        <4> QED
          BY <4>2, ConstantsAssumption DEF NewRow
      <3>5. ledgerTotal' = [ledgerTotal EXCEPT ![r] = Charged(r)]
        BY <3>1, <3>4 DEF ledgerTotal, TypeInv, TypeOK
      <3>6. ledgerIntent' = ledgerIntent /\ ledgerReply' = ledgerReply
        BY <3>1 DEF ledgerIntent, ledgerReply
      <3>7. ASSUME NEW o \in Requests, ledgerTotal[o] # None PROVE ledgerIntent[o] # ledgerIntent[r]
        <4>1. orders[o] # None /\ orders[o].intent = payload[o].intent /\ payload[o] # None
          BY <3>7, Seen DEF OrdersAreAccepted, Committed, TypeInv, Asked
        <4>2. orders[o].intent # payload[r].intent /\ payload[r] # None
          BY <3>1, <4>1 DEF KeyExclusive, Committed, InTransaction, TypeInv, Asked
        <4> QED
          BY <4>1, <4>2, Seen
      <3> QED
        BY <1>0, <3>1, <3>2, <3>3, <3>5, <3>6, <3>7 DEF Ledger!Accept
    <2> QED
      BY <2>1, <2>2
  <1>8. ASSUME NEW r \in Requests, ReplyCreated(r) PROVE Goal
    <2>1. stage[r] = "created" /\ UNCHANGED <<payload, orders, accepted>> /\ Answer(r, 201, r)
      BY <1>8 DEF ReplyCreated, tableVars
    <2>2. r \in accepted
      BY <2>1 DEF OrdersAreAccepted
    <2> QED
      BY <1>0, <2>1, <2>2, AnswerShows DEF Codes
  <1>9. ASSUME NEW r \in Requests, Reread(r) PROVE Goal
    <2>1. stage[r] = "reread" /\ UNCHANGED <<payload, orders, accepted>>
      BY <1>9 DEF Reread, tableVars
    <2>2. CASE \E o \in Existing(payload[r].intent) : Answer(r, 200, o)
      BY <1>0, <1>e, <1>a, <2>1, <2>2, AnswerShows DEF Codes
    <2>3. CASE Answer(r, 500, None)
      BY <1>0, <1>a, <2>1, <2>3, AnswerShows DEF Codes
    <2> QED
      BY <1>9, <2>2, <2>3 DEF Reread
  <1>10. ASSUME NEW r \in Requests, Crash(r) PROVE Goal
    <2>1. stage[r] \notin {"idle", "done"} /\ UNCHANGED <<payload, orders, accepted>> /\ Answer(r, 0, None)
      BY <1>10 DEF Crash, tableVars
    <2> QED
      BY <1>0, <2>1, AnswerShows DEF Codes
  <1>11. ASSUME NEW o \in Requests, EraseOrder(o) PROVE Goal
    <2>1. orders[o] # None /\ orders' = [orders EXCEPT ![o] = None] /\ UNCHANGED <<payload, accepted, answer>>
      BY <1>11 DEF EraseOrder
    <2>2. ledgerTotal' = [ledgerTotal EXCEPT ![o] = None] /\ ledgerTotal[o] # None
      BY <2>1, Seen DEF ledgerTotal, TypeInv, TypeOK
    <2>3. ledgerIntent' = ledgerIntent /\ ledgerReply' = ledgerReply
      BY <2>1 DEF ledgerIntent, ledgerReply
    <2> QED
      BY <1>0, <2>1, <2>2, <2>3 DEF Ledger!Strike
  <1>12. ASSUME NEW d \in Deleters, CommitDelete(d) PROVE Goal
    <2>1. UNCHANGED <<payload, accepted, answer>>
      BY <1>12 DEF CommitDelete
    <2>2. ASSUME NEW o \in Requests
          PROVE  (orders'[o] = None <=> orders[o] = None) /\ (orders[o] # None => orders'[o].total = orders[o].total)
      <3>1. removal[d].product \in Products \cup {None} /\ (orders[o] # None => orders[o] \in OrderRows)
        BY DEF TypeInv, TypeOK, Removals
      <3>2. orders'[o] = orders[o] \/ (orders[o] # None /\ orders'[o] = Detached(orders[o], removal[d].product))
        BY <1>12 DEF CommitDelete
      <3> QED
        BY <3>1, <3>2, DetachedType, ConstantsAssumption
    <2> QED
      BY <2>1, <2>2, Hidden
  <1>13. ASSUME UNCHANGED <<payload, orders, accepted, answer>> PROVE Goal
    BY <1>13, Hidden
  <1>14. ASSUME NEW d \in Deleters, DeleteLoad(d) \/ DetachLines(d) \/ RemoveRow(d)
         PROVE  UNCHANGED <<payload, orders, accepted, answer>>
    BY <1>14 DEF DeleteLoad, DetachLines, RemoveRow, tableVars
  <1>15. ASSUME NEW e \in Editors, EditLoad(e) \/ EditSave(e)
         PROVE  UNCHANGED <<payload, orders, accepted, answer>>
    BY <1>15 DEF EditLoad, EditSave, tableVars
  <1>16. CASE UNCHANGED vars
    BY <1>13, <1>16 DEF vars
  <1> QED
    BY <1>1, <1>2, <1>3, <1>4, <1>5, <1>6, <1>7, <1>8, <1>9, <1>10, <1>11, <1>12, <1>13, <1>14, <1>15, <1>16
       DEF Next, Place, Remove, Quiet

\* Order placement implements the ledger: at most one live order per intent, never
\* repriced, and every call told of the order its intent stands for.
THEOREM PlacementImplementsLedger == Spec => ImplementsLedger
  <1>1. Init => Ledger!LedgerInit
    BY DEF Init, Ledger!LedgerInit, ledgerIntent, ledgerTotal, ledgerReply
  <1>2. PlacementInv /\ [Next]_vars => [Ledger!LedgerNext]_Ledger!ledgerVars
    BY LedgerStep
  <1> QED
    BY <1>1, <1>2, Placement, PTL DEF Spec, ImplementsLedger, Ledger!LedgerSpec
=============================================================================
