--------------------------- MODULE AccountsProofs ---------------------------
(***************************************************************************)
(* Theorems about Accounts, for every set of calls, spellings, numbers and *)
(* payloads.  They rest on one inductive invariant, AccountsInv, whose     *)
(* parts say what each stage of a call has established.                    *)
(***************************************************************************)
EXTENDS Accounts, TLAPS

\* A registration past its post has a payload, a request past its lookup has a link to sign
\* or to mail, and a call that has not ended has no answer.
Posted ==
  /\ \A r \in Registrants : stage[r] \in {"check", "insert", "reply"} => payload[r] \in Payloads
  /\ \A q \in Requesters : stage[q] \in {"sign", "mail"} => signed[q] \in Links
  /\ \A c \in Calls : stage[c] # "done" => answer[c] = None

\* An account is made by one step of its own call, from its own payload.
MadeOnce ==
  /\ \A u, v \in users : u.id = v.id => u = v
  /\ \A r \in Registrants :
       /\ stage[r] \in {"idle", "check", "insert"} => \A u \in users : u.id # r
       /\ stage[r] = "reply" =>
            \E u \in users : u.id = r /\ u.email = payload[r].email /\ u.phone = payload[r].phone

\* The hash that a confirmation will store is new: nobody has it, and no link signs it.
HashesAreNew ==
  \A c \in Confirmers : answer[c] # 200 =>
    (\A u \in users : u.hash # c) /\ (\A l \in outdated : l.hash # c)

\* An outdated link names an account whose password is another than the one it signs.
OutdatedAreStale ==
  \A l \in outdated : /\ \E u \in users : u.id = l.user
                      /\ \A u \in users : u.id = l.user => u.hash # l.hash

\* A confirmer that loaded an outdated link has been refused.
LateAreRefused == \A c \in late : stage[c] = "done" /\ answer[c] # 200

\* A confirmation saves only for a link that was mailed.
SavesFollowMail == \A c \in Confirmers : stage[c] = "save" => \E m \in mailed : m.link = link[c]

AccountsInv ==
  /\ TypeOK /\ Posted /\ MadeOnce
  /\ AnswersAreTrue /\ LinksGoToTheirAccount
  /\ HashesAreNew /\ OutdatedAreStale /\ LateAreRefused /\ SavesFollowMail

-----------------------------------------------------------------------------
(* What a step may touch *)

\* v is the row u, with whatever password.
SameAccount(v, u) == v.id = u.id /\ v.email = u.email /\ v.phone = u.phone

\* A call is of one kind.
LEMMA KindsAreApart ==
  /\ \A r \in Registrants : r \notin Requesters /\ r \notin Confirmers
  /\ \A q \in Requesters : q \notin Confirmers
  BY AccountsAssumption DEF AccountsAssumption

LEMMA NoneIsNoCode == None \notin {0, 200, 400, 409, 500}
  BY AccountsAssumption DEF AccountsAssumption

LEMMA TablesRest ==
  ASSUME [Next]_vars
  PROVE  \/ users' = users /\ outdated' = outdated
         \/ \E r \in Registrants : InsertUser(r)
         \/ \E c \in Confirmers : SavePassword(c)
  BY DEF Next, vars, Register, CheckTaken, ReplyRegistered, FindAccount, SignLink, Mail,
         LoadAccount, RefuseLink, Expire, Crash, linkVars, requestVars

\* The rows after the UPDATE are the rows before it, the owner's with the new password.
LEMMA SavedRows ==
  ASSUME NEW c \in Confirmers, SavePassword(c)
  PROVE  /\ \A v \in users' : \E u \in users :
              /\ SameAccount(v, u)
              /\ Owner(u, c) => v.hash = c
              /\ ~Owner(u, c) => v = u
         /\ \A u \in users : IF Owner(u, c) THEN WithPassword(u, c) \in users' ELSE u \in users'
  BY DEF SavePassword, Owner, WithPassword, SameAccount

\* Nothing deletes an account, or changes its address or number.
LEMMA AccountsStay ==
  ASSUME [Next]_vars
  PROVE  \A u \in users : \E v \in users' : SameAccount(v, u)
<1>1. CASE users' = users
  BY <1>1 DEF SameAccount
<1>2. ASSUME NEW r \in Registrants, InsertUser(r)
      PROVE  \A u \in users : \E v \in users' : SameAccount(v, u)
  BY <1>2 DEF InsertUser, SameAccount
<1>3. ASSUME NEW c \in Confirmers, SavePassword(c)
      PROVE  \A u \in users : \E v \in users' : SameAccount(v, u)
  BY <1>3, SavedRows DEF SameAccount, WithPassword
<1>4. QED  BY <1>1, <1>2, <1>3, TablesRest

\* An account that is there after a step was there before, or is inserted by it.
LEMMA AccountsComeFrom ==
  ASSUME [Next]_vars
  PROVE  \A v \in users' : \/ \E u \in users : SameAccount(v, u)
                           \/ \E r \in Registrants : InsertUser(r) /\ v = NewUser(r)
<1>1. CASE users' = users
  BY <1>1 DEF SameAccount
<1>2. ASSUME NEW r \in Registrants, InsertUser(r)
      PROVE  \A v \in users' : v \in users \/ v = NewUser(r)
  BY <1>2 DEF InsertUser
<1>3. ASSUME NEW c \in Confirmers, SavePassword(c)
      PROVE  \A v \in users' : \E u \in users : SameAccount(v, u)
  BY <1>3, SavedRows
<1>4. QED  BY <1>1, <1>2, <1>3, TablesRest DEF SameAccount

-----------------------------------------------------------------------------
(* Type correctness *)

LEMMA InitType == Init => TypeOK
  BY DEF Init, TypeOK, Calls, IdentitiesAreUnique

Stages == {"idle", "check", "insert", "reply", "sign", "mail", "save", "done"}
Codes == {None, 0, 200, 400, 409, 500}

\* A call c goes to stage s or ends, and no other call does.
LEMMA StagesStayTyped ==
  ASSUME stage \in [Calls -> Stages], answer \in [Calls -> Codes], NEW c \in Calls,
         \/ \E s \in Stages : Goto(c, s)
         \/ \E code \in Codes : Answer(c, code)
  PROVE  /\ stage' \in [Calls -> Stages] /\ answer' \in [Calls -> Codes]
         /\ \A d \in Calls : d # c => stage'[d] = stage[d] /\ answer'[d] = answer[d]
         /\ stage'[c] # "done" => answer'[c] = answer[c]
  BY DEF Goto, Answer, Stages

LEMMA TypeStep == TypeOK /\ Posted /\ MadeOnce /\ [Next]_vars => TypeOK'
<1> SUFFICES ASSUME TypeOK, Posted, MadeOnce, [Next]_vars PROVE TypeOK'
  OBVIOUS
<1> USE DEF Stages, Codes
<1>m. \A q \in Requesters : stage[q] \in {"sign", "mail"} => \E u \in users' : u.id = signed[q].user
  BY AccountsStay DEF TypeOK, SameAccount
<1>1. ASSUME NEW r \in Registrants, Register(r) PROVE TypeOK'
  <2>1. payload' \in [Registrants -> Payloads \cup {None}]
    BY <1>1, AccountsAssumption DEF TypeOK, Register, AccountsAssumption
  <2>2. QED  BY <1>1, <2>1 DEF TypeOK, Register, Goto, Calls, requestVars, linkVars, IdentitiesAreUnique
<1>2. ASSUME NEW r \in Registrants, CheckTaken(r) PROVE TypeOK'
  <2>1. Goto(r, "insert") \/ \E code \in Codes : Answer(r, code)
    BY <1>2 DEF CheckTaken
  <2>2. /\ stage' \in [Calls -> Stages] /\ answer' \in [Calls -> Codes]
        /\ \A q \in Requesters : stage'[q] = stage[q]
    BY <2>1, StagesStayTyped, KindsAreApart DEF TypeOK, Calls
  <2>3. QED  BY <1>2, <2>2 DEF TypeOK, CheckTaken, requestVars, linkVars, IdentitiesAreUnique
<1>3. ASSUME NEW r \in Registrants, InsertUser(r) PROVE TypeOK'
  <2>1. /\ stage' \in [Calls -> Stages] /\ answer' \in [Calls -> Codes]
        /\ \A q \in Requesters : stage'[q] = stage[q]
    <3>1. Goto(r, "reply") \/ \E code \in Codes : Answer(r, code)
      BY <1>3 DEF InsertUser, Goto, Answer
    <3>2. QED  BY <3>1, StagesStayTyped, KindsAreApart DEF TypeOK, Calls
  <2>2. users' \subseteq Users /\ IdentitiesAreUnique'
    <3>1. payload[r] \in Payloads
      BY <1>3 DEF Posted, InsertUser
    <3>2. CASE users' = users
      BY <3>2 DEF TypeOK, IdentitiesAreUnique
    <3>3. CASE users' = users \cup {NewUser(r)} /\ ~Collides(payload[r])
      <4>1. users' \subseteq Users
        BY <3>1, <3>3 DEF TypeOK, NewUser, Users, Payloads
      <4>2. \A u \in users : u.email # NewUser(r).email /\ u.phone # NewUser(r).phone
        BY <3>3 DEF Collides, NewUser
      <4>3. QED  BY <3>3, <4>1, <4>2 DEF TypeOK, IdentitiesAreUnique
    <3>4. QED  BY <1>3, <3>2, <3>3 DEF InsertUser
  <2>3. QED  BY <1>3, <1>m, <2>1, <2>2 DEF TypeOK, InsertUser, requestVars, linkVars
<1>4. ASSUME NEW r \in Registrants, ReplyRegistered(r) PROVE TypeOK'
  BY <1>4, KindsAreApart
     DEF TypeOK, ReplyRegistered, Answer, Calls, requestVars, linkVars, IdentitiesAreUnique
<1>5. ASSUME NEW q \in Requesters, FindAccount(q) PROVE TypeOK'
  <2>1. PICK e \in Emails :
         /\ asked' = [asked EXCEPT ![q] = e]
         /\ \/ Answer(q, 200) /\ UNCHANGED signed
            \/ /\ Goto(q, "sign")
               /\ \E u \in users : signed' = [signed EXCEPT ![q] = [user |-> u.id, hash |-> u.hash]]
    BY <1>5 DEF FindAccount, Matching
  <2>2. stage' \in [Calls -> Stages] /\ answer' \in [Calls -> Codes]
    BY <2>1 DEF TypeOK, Goto, Answer, Calls
  <2>3. CASE Answer(q, 200) /\ UNCHANGED signed
    BY <1>5, <2>1, <2>2, <2>3 DEF TypeOK, FindAccount, Answer, Calls, linkVars, IdentitiesAreUnique
  <2>4. ASSUME NEW u \in users, signed' = [signed EXCEPT ![q] = [user |-> u.id, hash |-> u.hash]],
               Goto(q, "sign")
        PROVE  TypeOK'
    <3>1. signed' \in [Requesters -> Links \cup {None}] /\ signed'[q].user = u.id
      BY <2>4 DEF TypeOK, Users, Links
    <3>2. \A p \in Requesters \ {q} : signed'[p] = signed[p] /\ stage'[p] = stage[p]
      BY <2>4 DEF TypeOK, Goto, Calls
    <3>3. QED  BY <1>5, <2>1, <2>2, <2>4, <3>1, <3>2
               DEF TypeOK, FindAccount, linkVars, IdentitiesAreUnique
  <2>5. QED  BY <2>1, <2>3, <2>4
<1>6. ASSUME NEW q \in Requesters, SignLink(q) PROVE TypeOK'
  <2>1. PICK u \in users : /\ u.id = signed[q].user
                           /\ signed' = [signed EXCEPT ![q] = [user |-> u.id, hash |-> u.hash]]
    BY <1>6 DEF SignLink
  <2>2. stage' \in [Calls -> Stages] /\ answer' \in [Calls -> Codes]
    BY <1>6 DEF TypeOK, SignLink, Goto, Calls
  <2>3. signed' \in [Requesters -> Links \cup {None}] /\ signed'[q].user = u.id
    BY <2>1 DEF TypeOK, Users, Links
  <2>4. \A p \in Requesters \ {q} : signed'[p] = signed[p] /\ stage'[p] = stage[p]
    BY <1>6, <2>1 DEF TypeOK, SignLink, Goto, Calls
  <2>5. QED  BY <1>6, <2>1, <2>2, <2>3, <2>4 DEF TypeOK, SignLink, linkVars, IdentitiesAreUnique
<1>7. ASSUME NEW q \in Requesters, Mail(q) PROVE TypeOK'
  <2>1. stage' \in [Calls -> Stages] /\ answer' \in [Calls -> Codes]
    BY <1>7 DEF TypeOK, Mail, Answer, Calls
  <2>2. \A p \in Requesters : stage'[p] \in {"sign", "mail"} => stage[p] \in {"sign", "mail"}
    BY <1>7 DEF TypeOK, Mail, Answer, Calls
  <2>3. Recipient(q) \in Emails /\ signed[q] \in Links
    BY <1>7 DEF TypeOK, Posted, Mail, Recipient, Users, Links
  <2>4. mailed' \subseteq Mails
    BY <1>7, <2>3 DEF TypeOK, Mail, Mails
  <2>5. QED  BY <1>7, <2>1, <2>2, <2>4 DEF TypeOK, Mail, requestVars, linkVars, IdentitiesAreUnique
<1>8. ASSUME NEW c \in Confirmers, LoadAccount(c) PROVE TypeOK'
  <2>1. PICK m \in mailed : /\ link' = [link EXCEPT ![c] = m.link]
                            /\ late' = late \cup {d \in {c} : m.link \in outdated}
                            /\ Goto(c, "save") \/ Answer(c, 400)
    BY <1>8 DEF LoadAccount
  <2>2. stage' \in [Calls -> Stages] /\ answer' \in [Calls -> Codes]
    BY <2>1 DEF TypeOK, Goto, Answer, Calls
  <2>3. \A p \in Requesters : stage'[p] = stage[p]
    BY <2>1, KindsAreApart DEF TypeOK, Goto, Answer, Calls
  <2>4. link' \in [Confirmers -> Links \cup {None}] /\ late' \subseteq Confirmers
    BY <2>1 DEF TypeOK, Mails
  <2>5. QED  BY <1>8, <2>2, <2>3, <2>4 DEF TypeOK, LoadAccount, requestVars, IdentitiesAreUnique
<1>9. ASSUME NEW c \in Confirmers, RefuseLink(c) PROVE TypeOK'
  BY <1>9, KindsAreApart
     DEF TypeOK, RefuseLink, Answer, Calls, requestVars, linkVars, IdentitiesAreUnique
<1>10. ASSUME NEW c \in Confirmers, SavePassword(c) PROVE TypeOK'
  <2>1. stage' \in [Calls -> Stages] /\ answer' \in [Calls -> Codes]
        /\ \A p \in Requesters : stage'[p] = stage[p]
    BY <1>10, KindsAreApart DEF TypeOK, SavePassword, Answer, Calls
  <2>2. users' \subseteq Users
    BY <1>10 DEF TypeOK, SavePassword, WithPassword, Users
  <2>3. IdentitiesAreUnique'
    BY <1>10 DEF TypeOK, SavePassword, WithPassword, IdentitiesAreUnique
  <2>4. outdated' \subseteq Links
    BY <1>10 DEF TypeOK, SavePassword
  <2>5. QED  BY <1>10, <1>m, <2>1, <2>2, <2>3, <2>4 DEF TypeOK, SavePassword, requestVars
<1>11. ASSUME NEW m \in mailed, Expire(m.link) PROVE TypeOK'
  BY <1>11 DEF TypeOK, Expire, Mails, requestVars, IdentitiesAreUnique
<1>12. ASSUME NEW c \in Calls, Crash(c) PROVE TypeOK'
  BY <1>12 DEF TypeOK, Crash, Answer, Calls, requestVars, linkVars, IdentitiesAreUnique
<1>13. CASE UNCHANGED vars
  BY <1>13 DEF TypeOK, vars, IdentitiesAreUnique
<1>14. QED  BY <1>1, <1>2, <1>3, <1>4, <1>5, <1>6, <1>7, <1>8, <1>9, <1>10, <1>11, <1>12, <1>13 DEF Next

-----------------------------------------------------------------------------
(* What the stages have established *)

LEMMA PostedStep == TypeOK /\ Posted /\ [Next]_vars => Posted'
<1> SUFFICES ASSUME TypeOK, Posted, [Next]_vars PROVE Posted'
  OBVIOUS
<1> USE DEF TypeOK, Posted, Goto, Answer, Calls
<1>1. ASSUME NEW r \in Registrants, Register(r) PROVE Posted'
  <2>1. payload'[r] \in Payloads /\ \A s \in Registrants \ {r} : payload'[s] = payload[s]
    BY <1>1, AccountsAssumption DEF Register, AccountsAssumption
  <2>2. QED  BY <1>1, <2>1 DEF Register, requestVars
<1>2. ASSUME NEW r \in Registrants, CheckTaken(r) \/ InsertUser(r) \/ ReplyRegistered(r) PROVE Posted'
  BY <1>2 DEF CheckTaken, InsertUser, ReplyRegistered, requestVars
<1>3. ASSUME NEW q \in Requesters, FindAccount(q) PROVE Posted'
  <2>1. /\ UNCHANGED payload /\ stage[q] = "idle"
        /\ \/ Answer(q, 200) /\ UNCHANGED signed
           \/ /\ Goto(q, "sign")
              /\ \E u \in users : signed' = [signed EXCEPT ![q] = [user |-> u.id, hash |-> u.hash]]
    BY <1>3 DEF FindAccount, Matching
  <2>2. CASE Answer(q, 200) /\ UNCHANGED signed
    BY <2>1, <2>2, KindsAreApart
  <2>3. ASSUME NEW u \in users, signed' = [signed EXCEPT ![q] = [user |-> u.id, hash |-> u.hash]],
               Goto(q, "sign")
        PROVE  Posted'
    <3>1. signed'[q] \in Links /\ \A p \in Requesters \ {q} : signed'[p] = signed[p]
      BY <2>3 DEF Users, Links
    <3>2. QED  BY <2>1, <2>3, <3>1, KindsAreApart
  <2>4. QED  BY <2>1, <2>2, <2>3
<1>4. ASSUME NEW q \in Requesters, SignLink(q) PROVE Posted'
  <2>1. signed'[q] \in Links /\ \A p \in Requesters \ {q} : signed'[p] = signed[p]
    BY <1>4 DEF SignLink, Users, Links
  <2>2. QED  BY <1>4, <2>1 DEF SignLink
<1>5. ASSUME NEW q \in Requesters, Mail(q) PROVE Posted'
  BY <1>5 DEF Mail, requestVars
<1>6. ASSUME NEW c \in Confirmers, LoadAccount(c) \/ RefuseLink(c) \/ SavePassword(c) PROVE Posted'
  BY <1>6 DEF LoadAccount, RefuseLink, SavePassword, requestVars
<1>7. ASSUME NEW m \in mailed, Expire(m.link) PROVE Posted'
  BY <1>7 DEF Expire, requestVars
<1>8. ASSUME NEW c \in Calls, Crash(c) PROVE Posted'
  BY <1>8 DEF Crash, requestVars
<1>9. CASE UNCHANGED vars
  BY <1>9 DEF vars
<1>10. QED  BY <1>1, <1>2, <1>3, <1>4, <1>5, <1>6, <1>7, <1>8, <1>9 DEF Next

\* A registration goes on only by its own steps.
LEMMA RegistrantsGoOn ==
  ASSUME TypeOK, [Next]_vars, NEW r \in Registrants
  PROVE  \/ stage'[r] = stage[r] /\ answer'[r] = answer[r] /\ payload'[r] = payload[r]
         \/ Register(r) \/ CheckTaken(r) \/ InsertUser(r) \/ ReplyRegistered(r) \/ Crash(r)
<1> USE DEF TypeOK, Goto, Answer, Calls
<1>1. ASSUME NEW s \in Registrants, s # r,
             Register(s) \/ CheckTaken(s) \/ InsertUser(s) \/ ReplyRegistered(s)
      PROVE  stage'[r] = stage[r] /\ answer'[r] = answer[r] /\ payload'[r] = payload[r]
  BY <1>1 DEF Register, CheckTaken, InsertUser, ReplyRegistered
<1>2. ASSUME NEW q \in Requesters, FindAccount(q) \/ SignLink(q) \/ Mail(q)
      PROVE  stage'[r] = stage[r] /\ answer'[r] = answer[r] /\ payload'[r] = payload[r]
  BY <1>2, KindsAreApart DEF FindAccount, SignLink, Mail
<1>3. ASSUME NEW c \in Confirmers, LoadAccount(c) \/ RefuseLink(c) \/ SavePassword(c)
      PROVE  stage'[r] = stage[r] /\ answer'[r] = answer[r] /\ payload'[r] = payload[r]
  BY <1>3, KindsAreApart DEF LoadAccount, RefuseLink, SavePassword
<1>4. ASSUME NEW m \in mailed, Expire(m.link)
      PROVE  stage'[r] = stage[r] /\ answer'[r] = answer[r] /\ payload'[r] = payload[r]
  BY <1>4 DEF Expire
<1>5. ASSUME NEW c \in Calls, c # r, Crash(c)
      PROVE  stage'[r] = stage[r] /\ answer'[r] = answer[r] /\ payload'[r] = payload[r]
  BY <1>5 DEF Crash
<1>6. QED  BY <1>1, <1>2, <1>3, <1>4, <1>5 DEF Next, vars

\* A confirmation goes on only by its own steps.
LEMMA ConfirmersGoOn ==
  ASSUME TypeOK, [Next]_vars, NEW c \in Confirmers
  PROVE  \/ /\ stage'[c] = stage[c] /\ answer'[c] = answer[c] /\ link'[c] = link[c]
            /\ c \in late' => c \in late
         \/ LoadAccount(c) \/ RefuseLink(c) \/ SavePassword(c) \/ Crash(c)
<1> DEFINE Rests == /\ stage'[c] = stage[c] /\ answer'[c] = answer[c] /\ link'[c] = link[c]
                    /\ c \in late' => c \in late
<1> USE DEF TypeOK, Goto, Answer, Calls
<1>1. ASSUME NEW s \in Registrants,
             Register(s) \/ CheckTaken(s) \/ InsertUser(s) \/ ReplyRegistered(s)
      PROVE  Rests
  BY <1>1, KindsAreApart DEF Register, CheckTaken, InsertUser, ReplyRegistered, linkVars
<1>2. ASSUME NEW q \in Requesters, FindAccount(q) \/ SignLink(q) \/ Mail(q) PROVE Rests
  BY <1>2, KindsAreApart DEF FindAccount, SignLink, Mail, linkVars
<1>3. ASSUME NEW d \in Confirmers, d # c, LoadAccount(d) PROVE Rests
  <2>1. PICK m \in mailed : link' = [link EXCEPT ![d] = m.link] /\ \A x \in late' : x \in late \/ x = d
    BY <1>3 DEF LoadAccount
  <2>2. stage'[c] = stage[c] /\ answer'[c] = answer[c]
    BY <1>3 DEF LoadAccount
  <2>3. QED  BY <1>3, <2>1, <2>2
<1>4. ASSUME NEW d \in Confirmers, d # c, RefuseLink(d) \/ SavePassword(d) PROVE Rests
  BY <1>4 DEF RefuseLink, SavePassword, linkVars
<1>5. ASSUME NEW m \in mailed, Expire(m.link) PROVE Rests
  BY <1>5 DEF Expire
<1>6. ASSUME NEW d \in Calls, d # c, Crash(d) PROVE Rests
  BY <1>6 DEF Crash, linkVars
<1>7. QED  BY <1>1, <1>2, <1>3, <1>4, <1>5, <1>6 DEF Next, vars, linkVars

-----------------------------------------------------------------------------
(* Accounts and their registrations *)

\* How an INSERT may end.
LEMMA InsertEnds ==
  ASSUME TypeOK, NEW r \in Registrants, InsertUser(r)
  PROVE  /\ stage[r] = "insert" /\ payload' = payload
         /\ \/ users' = users /\ stage'[r] = "done" /\ answer'[r] = 500
            \/ users' = users /\ stage'[r] = "done" /\ answer'[r] = 409 /\ Collides(payload[r])
            \/ users' = users \cup {NewUser(r)} /\ stage'[r] = "reply" /\ answer'[r] = answer[r]
  BY DEF TypeOK, InsertUser, Goto, Answer, Calls

\* How the check may end.
LEMMA CheckEnds ==
  ASSUME NEW r \in Registrants, CheckTaken(r)
  PROVE  answer' = answer \/ Answer(r, 400) \/ (Answer(r, 409) /\ Taken(payload[r]))
<1>1. CASE Taken(payload[r])
  BY <1>1 DEF CheckTaken
<1>2. CASE ~Taken(payload[r]) /\ payload[r].sort = "weak"
  BY <1>2 DEF CheckTaken
<1>3. CASE ~Taken(payload[r]) /\ payload[r].sort # "weak"
  BY <1>3 DEF CheckTaken, Goto
<1>4. QED  BY <1>1, <1>2, <1>3

LEMMA MadeOnceStep == TypeOK /\ Posted /\ MadeOnce /\ [Next]_vars => MadeOnce'
<1> SUFFICES ASSUME TypeOK, Posted, MadeOnce, [Next]_vars PROVE MadeOnce'
  OBVIOUS
<1>1. \A u, v \in users' : u.id = v.id => u = v
  <2>1. CASE users' = users
    BY <2>1 DEF MadeOnce
  <2>2. ASSUME NEW r \in Registrants, InsertUser(r)
        PROVE  \A u, v \in users' : u.id = v.id => u = v
    BY <2>2 DEF MadeOnce, InsertUser, NewUser
  <2>3. ASSUME NEW c \in Confirmers, SavePassword(c)
        PROVE  \A u, v \in users' : u.id = v.id => u = v
    BY <2>3 DEF MadeOnce, SavePassword, Owner, WithPassword
  <2>4. QED  BY <2>1, <2>2, <2>3, TablesRest
<1>2. ASSUME NEW r \in Registrants
      PROVE  /\ stage'[r] \in {"idle", "check", "insert"} => \A u \in users' : u.id # r
             /\ stage'[r] = "reply" =>
                  \E u \in users' : u.id = r /\ u.email = payload'[r].email /\ u.phone = payload'[r].phone
  <2> USE DEF TypeOK, MadeOnce, SameAccount, Goto, Answer, Calls
  <2>1. CASE stage'[r] = stage[r] /\ answer'[r] = answer[r] /\ payload'[r] = payload[r]
    <3>1. ASSUME stage[r] \in {"idle", "check", "insert"}, NEW v \in users' PROVE v.id # r
      <4>1. ~ InsertUser(r)
        BY <2>1 DEF InsertUser
      <4>2. QED  BY <3>1, <4>1, AccountsComeFrom DEF NewUser
    <3>2. QED  BY <2>1, <3>1, AccountsStay
  <2>2. CASE Register(r) \/ CheckTaken(r)
    BY <2>2 DEF Register, CheckTaken
  <2>3. CASE InsertUser(r)
    <3>1. NewUser(r).id = r /\ NewUser(r).email = payload[r].email /\ NewUser(r).phone = payload[r].phone
      BY DEF NewUser
    <3>2. QED  BY <2>3, <3>1, InsertEnds
  <2>4. CASE ReplyRegistered(r) \/ Crash(r)
    BY <2>4 DEF ReplyRegistered, Crash
  <2>5. QED  BY <2>1, <2>2, <2>3, <2>4, RegistrantsGoOn
<1>3. QED  BY <1>1, <1>2 DEF MadeOnce

LEMMA AnswersStep == TypeOK /\ Posted /\ MadeOnce /\ AnswersAreTrue /\ [Next]_vars => AnswersAreTrue'
<1> SUFFICES ASSUME TypeOK, Posted, MadeOnce, AnswersAreTrue, [Next]_vars PROVE AnswersAreTrue'
  OBVIOUS
<1> DEFINE Told(r) ==
      /\ answer[r] = 200 => \E u \in users : u.id = r /\ u.email = payload[r].email /\ u.phone = payload[r].phone
      /\ answer[r] \in {400, 409, 500} => \A u \in users : u.id # r
      /\ answer[r] = 409 => Taken(payload[r])
<1>1. \A r \in Registrants : Told(r)
  BY DEF AnswersAreTrue, RegistrationsAnswerTruly
<1>2. ASSUME NEW r \in Registrants PROVE Told(r)'
  <2> USE DEF TypeOK, Posted, MadeOnce, Goto, Answer, Calls
  <2>1. ASSUME Taken(payload[r]), payload'[r] = payload[r] PROVE Taken(payload[r])'
    BY <2>1, AccountsStay DEF Taken, SameAccount
  <2>2. CASE stage'[r] = stage[r] /\ answer'[r] = answer[r] /\ payload'[r] = payload[r]
    <3>1. ASSUME answer[r] \in {400, 409, 500}, NEW v \in users' PROVE v.id # r
      <4>1. ~ InsertUser(r)
        BY <3>1, NoneIsNoCode DEF InsertUser
      <4>2. QED  BY <1>1, <3>1, <4>1, AccountsComeFrom DEF NewUser, SameAccount
    <3>2. QED  BY <1>1, <2>1, <2>2, <3>1, AccountsStay DEF SameAccount
  <2>3. CASE Register(r)
    BY <2>3, NoneIsNoCode DEF Register
  <2>4. CASE CheckTaken(r)
    <3>1. stage[r] = "check" /\ answer[r] = None /\ users' = users /\ payload' = payload
      BY <2>4 DEF CheckTaken
    <3>2. CASE answer' = answer
      BY <3>1, <3>2, NoneIsNoCode
    <3>3. CASE Answer(r, 400)
      BY <3>1, <3>3
    <3>4. CASE Answer(r, 409) /\ Taken(payload[r])
      BY <2>1, <3>1, <3>4
    <3>5. QED  BY <2>4, <3>2, <3>3, <3>4, CheckEnds
  <2>5. CASE InsertUser(r)
    <3>1. Collides(payload[r]) => Taken(payload[r])
      BY DEF Collides, Taken
    <3>2. stage[r] = "insert" /\ answer[r] = None /\ payload' = payload
      BY <2>5, InsertEnds
    <3>3. QED  BY <2>1, <2>5, <3>1, <3>2, InsertEnds, NoneIsNoCode
  <2>6. CASE ReplyRegistered(r)
    BY <2>6 DEF ReplyRegistered
  <2>7. CASE Crash(r)
    BY <2>7, KindsAreApart DEF Crash
  <2>8. QED  BY <2>2, <2>3, <2>4, <2>5, <2>6, <2>7, RegistrantsGoOn
<1>3. ASSUME NEW q \in Requesters PROVE answer'[q] \in {None, 0, 200}
  <2>0. answer[q] \in {None, 0, 200}
    BY DEF AnswersAreTrue, RequestsAnswerAlike
  <2> USE DEF TypeOK, Goto, Answer, Calls
  <2>1. ASSUME NEW r \in Registrants,
               Register(r) \/ CheckTaken(r) \/ InsertUser(r) \/ ReplyRegistered(r)
        PROVE  answer'[q] = answer[q]
    BY <2>1, KindsAreApart DEF Register, CheckTaken, InsertUser, ReplyRegistered
  <2>2. ASSUME NEW p \in Requesters, FindAccount(p) \/ SignLink(p) \/ Mail(p)
        PROVE  answer'[q] \in {answer[q], 200}
    BY <2>2 DEF FindAccount, SignLink, Mail
  <2>3. ASSUME NEW c \in Confirmers, LoadAccount(c) \/ RefuseLink(c) \/ SavePassword(c)
        PROVE  answer'[q] = answer[q]
    BY <2>3, KindsAreApart DEF LoadAccount, RefuseLink, SavePassword
  <2>4. ASSUME NEW m \in mailed, Expire(m.link) PROVE answer'[q] = answer[q]
    BY <2>4 DEF Expire
  <2>5. ASSUME NEW c \in Calls, Crash(c) PROVE answer'[q] \in {answer[q], 0}
    BY <2>5 DEF Crash
  <2>6. QED  BY <2>0, <2>1, <2>2, <2>3, <2>4, <2>5 DEF Next, vars
<1>4. QED  BY <1>2, <1>3 DEF AnswersAreTrue, RegistrationsAnswerTruly, RequestsAnswerAlike

-----------------------------------------------------------------------------
(* Reset links *)

LEMMA MailsComeFrom ==
  ASSUME [Next]_vars
  PROVE  /\ mailed \subseteq mailed'
         /\ \A m \in mailed' : \/ m \in mailed
                               \/ \E q \in Requesters : /\ Mail(q)
                                                        /\ m = [link |-> signed[q], to |-> Recipient(q)]
  BY DEF Next, vars, Register, CheckTaken, InsertUser, ReplyRegistered, FindAccount, SignLink, Mail,
         LoadAccount, RefuseLink, SavePassword, Expire, Crash

LEMMA LinksStep == TypeOK /\ LinksGoToTheirAccount /\ [Next]_vars => LinksGoToTheirAccount'
<1> SUFFICES ASSUME TypeOK, LinksGoToTheirAccount, [Next]_vars, NEW m \in mailed'
             PROVE  \E v \in users' : v.id = m.link.user /\ v.email = m.to
  BY DEF LinksGoToTheirAccount
<1>1. CASE m \in mailed
  BY <1>1, AccountsStay DEF LinksGoToTheirAccount, SameAccount
<1>2. ASSUME NEW q \in Requesters, Mail(q), m = [link |-> signed[q], to |-> Recipient(q)]
      PROVE  \E v \in users' : v.id = m.link.user /\ v.email = m.to
  <2>1. \E u \in users : u.id = signed[q].user
    BY <1>2 DEF TypeOK, Mail
  <2>2. PICK u \in users : u.id = signed[q].user /\ u.email = Recipient(q)
    BY <2>1 DEF Recipient
  <2>3. QED  BY <1>2, <2>2, AccountsStay DEF SameAccount
<1>3. QED  BY <1>1, <1>2, MailsComeFrom

\* What a successful confirmation does to the tables.
LEMMA SaveEnds ==
  ASSUME TypeOK, NEW c \in Confirmers, SavePassword(c)
  PROVE  /\ stage[c] = "save" /\ stage'[c] = "done" /\ answer'[c] = 200
         /\ \A d \in Confirmers \ {c} : answer'[d] = answer[d]
         /\ \A l \in outdated' : \/ l \in outdated
                                 \/ \E u \in users : u.id = link[c].user /\ u.id = l.user /\ l.hash = u.hash
  BY DEF TypeOK, SavePassword, Answer, Calls

\* A confirmation that has been answered 200 stays so.
LEMMA SavedStaySaved ==
  ASSUME TypeOK, Posted, [Next]_vars, NEW c \in Confirmers, answer'[c] # 200
  PROVE  answer[c] # 200
<1> SUFFICES ASSUME answer[c] = 200 PROVE FALSE
  OBVIOUS
<1>1. stage[c] = "done"
  BY NoneIsNoCode DEF Posted, Calls
<1>2. QED  BY <1>1, ConfirmersGoOn DEF LoadAccount, RefuseLink, SavePassword, Crash

LEMMA HashesStep == TypeOK /\ Posted /\ HashesAreNew /\ [Next]_vars => HashesAreNew'
<1> SUFFICES ASSUME TypeOK, Posted, HashesAreNew, [Next]_vars, NEW d \in Confirmers, answer'[d] # 200
             PROVE  (\A u \in users' : u.hash # d) /\ (\A l \in outdated' : l.hash # d)
  BY DEF HashesAreNew
<1>1. (\A u \in users : u.hash # d) /\ (\A l \in outdated : l.hash # d)
  BY SavedStaySaved DEF HashesAreNew
<1>2. CASE users' = users /\ outdated' = outdated
  BY <1>1, <1>2
<1>3. ASSUME NEW r \in Registrants, InsertUser(r)
      PROVE  (\A u \in users' : u.hash # d) /\ (\A l \in outdated' : l.hash # d)
  <2>1. NewUser(r).hash # d
    BY KindsAreApart DEF NewUser
  <2>2. QED  BY <1>1, <1>3, <2>1, InsertEnds DEF InsertUser, linkVars
<1>4. ASSUME NEW c \in Confirmers, SavePassword(c)
      PROVE  (\A u \in users' : u.hash # d) /\ (\A l \in outdated' : l.hash # d)
  <2>1. c # d
    BY <1>4, SaveEnds
  <2>2. QED  BY <1>1, <1>4, <2>1, SaveEnds, SavedRows
<1>5. QED  BY <1>2, <1>3, <1>4, TablesRest

LEMMA OutdatedStep ==
  TypeOK /\ Posted /\ MadeOnce /\ HashesAreNew /\ OutdatedAreStale /\ [Next]_vars => OutdatedAreStale'
<1> SUFFICES ASSUME TypeOK, Posted, MadeOnce, HashesAreNew, OutdatedAreStale, [Next]_vars,
                    NEW l \in outdated'
             PROVE  /\ \E u \in users' : u.id = l.user
                    /\ \A u \in users' : u.id = l.user => u.hash # l.hash
  BY DEF OutdatedAreStale
<1>1. CASE users' = users /\ outdated' = outdated
  BY <1>1 DEF OutdatedAreStale
<1>2. ASSUME NEW r \in Registrants, InsertUser(r)
      PROVE  /\ \E u \in users' : u.id = l.user
             /\ \A u \in users' : u.id = l.user => u.hash # l.hash
  <2>1. l \in outdated
    BY <1>2 DEF InsertUser, linkVars
  <2>2. \A u \in users : u.id # r
    BY <1>2 DEF MadeOnce, InsertUser
  <2>3. NewUser(r).id = r
    BY DEF NewUser
  <2>4. QED  BY <1>2, <2>1, <2>2, <2>3, InsertEnds DEF OutdatedAreStale
<1>3. ASSUME NEW c \in Confirmers, SavePassword(c)
      PROVE  /\ \E u \in users' : u.id = l.user
             /\ \A u \in users' : u.id = l.user => u.hash # l.hash
  <2>1. answer[c] # 200
    BY <1>3, NoneIsNoCode DEF Posted, SavePassword, Calls
  <2>2. \E u \in users : u.id = l.user
    BY <1>3, SaveEnds DEF OutdatedAreStale
  <2>3. l.hash # c
    BY <1>3, <2>1, SaveEnds DEF HashesAreNew
  <2>4. ASSUME NEW v \in users', v.id = l.user PROVE v.hash # l.hash
    <3>1. PICK u \in users : SameAccount(v, u) /\ (Owner(u, c) => v.hash = c) /\ (~Owner(u, c) => v = u)
      BY <1>3, SavedRows
    <3>2. CASE Owner(u, c)
      BY <2>3, <3>1, <3>2
    <3>3. CASE ~Owner(u, c)
      <4>1. v = u /\ l.user # link[c].user
        BY <2>4, <3>1, <3>3 DEF Owner, SameAccount
      <4>2. l \in outdated
        BY <1>3, <4>1, SaveEnds
      <4>3. QED  BY <2>4, <4>1, <4>2 DEF OutdatedAreStale
    <3>4. QED  BY <3>2, <3>3
  <2>5. QED  BY <2>2, <2>4, AccountsStay DEF SameAccount
<1>4. QED  BY <1>1, <1>2, <1>3, TablesRest

\* A confirmer that loads an outdated link finds it unusable.
LEMMA LateStep ==
  TypeOK /\ Posted /\ MadeOnce /\ OutdatedAreStale /\ LateAreRefused /\ [Next]_vars => LateAreRefused'
<1> SUFFICES ASSUME TypeOK, Posted, MadeOnce, OutdatedAreStale, LateAreRefused, [Next]_vars
             PROVE  LateAreRefused'
  OBVIOUS
<1> SUFFICES ASSUME NEW c \in Confirmers, c \in late' PROVE stage'[c] = "done" /\ answer'[c] # 200
  <2>1. TypeOK'
    BY TypeStep
  <2>2. late' \subseteq Confirmers
    BY <2>1 DEF TypeOK
  <2>3. QED  BY <2>2 DEF LateAreRefused
<1>1. CASE /\ stage'[c] = stage[c] /\ answer'[c] = answer[c] /\ link'[c] = link[c]
           /\ c \in late' => c \in late
  BY <1>1 DEF LateAreRefused
<1>2. CASE LoadAccount(c)
  <2>1. PICK m \in mailed, u \in users :
         /\ m.link.user = u.id
         /\ late' = late \cup {d \in {c} : m.link \in outdated}
         /\ \/ Usable(u, m.link) /\ Goto(c, "save")
            \/ Answer(c, 400)
    BY <1>2 DEF LoadAccount
  <2>2. c \notin late
    BY <1>2 DEF LateAreRefused, LoadAccount
  <2>3. m.link \in outdated
    BY <2>1, <2>2
  <2>4. ~Usable(u, m.link)
    BY <2>1, <2>3 DEF OutdatedAreStale, Usable
  <2>5. QED  BY <2>1, <2>4 DEF TypeOK, Answer, Calls
<1>3. CASE RefuseLink(c) \/ SavePassword(c) \/ Crash(c)
  <2>1. c \in late
    BY <1>3 DEF RefuseLink, SavePassword, Crash, linkVars
  <2>2. QED  BY <1>3, <2>1 DEF LateAreRefused, RefuseLink, SavePassword, Crash
<1>4. QED  BY <1>1, <1>2, <1>3, ConfirmersGoOn

LEMMA SavesStep == TypeOK /\ SavesFollowMail /\ [Next]_vars => SavesFollowMail'
<1> SUFFICES ASSUME TypeOK, SavesFollowMail, [Next]_vars, NEW c \in Confirmers, stage'[c] = "save"
             PROVE  \E m \in mailed : m.link = link'[c]
  BY MailsComeFrom DEF SavesFollowMail
<1>1. CASE LoadAccount(c)
  BY <1>1 DEF LoadAccount, TypeOK
<1>2. CASE RefuseLink(c) \/ SavePassword(c) \/ Crash(c)
  BY <1>2 DEF RefuseLink, SavePassword, Crash, Answer, TypeOK, Calls
<1>3. QED  BY <1>1, <1>2, ConfirmersGoOn DEF SavesFollowMail

-----------------------------------------------------------------------------
(* The theorems *)

LEMMA InitInv == Init => AccountsInv
  BY InitType, NoneIsNoCode, KindsAreApart
     DEF Init, AccountsInv, Posted, MadeOnce, AnswersAreTrue, RegistrationsAnswerTruly, RequestsAnswerAlike,
         LinksGoToTheirAccount, HashesAreNew, OutdatedAreStale, LateAreRefused, SavesFollowMail, Calls

LEMMA InvStep == AccountsInv /\ [Next]_vars => AccountsInv'
  BY TypeStep, PostedStep, MadeOnceStep, AnswersStep, LinksStep, HashesStep, OutdatedStep, LateStep,
     SavesStep
     DEF AccountsInv

\* AccountsInv holds of every behaviour, whatever is registered, requested and confirmed.
THEOREM AccountsInvariant == Spec => []AccountsInv
  BY InitInv, InvStep, PTL DEF Spec

\* Every variable keeps its shape, no two accounts share an address or a number although the
\* check and the INSERT of two registrations interleave, and a request that is about to mail
\* has an account to mail to.
THEOREM TypeCorrect == Spec => []TypeOK
  BY AccountsInvariant, PTL DEF AccountsInv

\* Registrations and reset requests are answered by what happened to them, whichever of two
\* registrations wins the race, and whether or not the address has an account.
THEOREM AnswersCorrect == Spec => []AnswersAreTrue
  BY AccountsInvariant, PTL DEF AccountsInv

\* A reset link reaches the owner of the account that it opens, and opens it no longer once
\* the password is another than the one it signed.
THEOREM LinksBound == Spec => []LinksAreBound
<1>1. AccountsInv => LinksAreBound
  BY DEF AccountsInv, LinksAreBound, LateAreRefused, OutdatedLinksAreRefused
<1>2. QED  BY <1>1, AccountsInvariant, PTL

\* No step changes a password but a confirmation of a link that was mailed to the account's
\* own address.
THEOREM PasswordsOwned == Spec => PasswordsNeedOwnLink
<1>1. ASSUME AccountsInv, [Next]_vars, NEW u \in users, NEW v \in users', u.id = v.id, u.hash # v.hash
      PROVE  \E c \in Confirmers : /\ v.hash = c /\ stage[c] = "save"
                                   /\ [link |-> link[c], to |-> u.email] \in mailed
  <2>1. CASE users' = users
    BY <1>1, <2>1 DEF AccountsInv, MadeOnce
  <2>2. ASSUME NEW r \in Registrants, InsertUser(r) PROVE FALSE
    <3>1. TypeOK /\ MadeOnce /\ stage[r] = "insert"
      BY <1>1, <2>2 DEF AccountsInv, InsertUser
    <3>2. v \in users \/ v.id = r
      BY <2>2, <3>1, InsertEnds DEF NewUser
    <3>3. QED  BY <1>1, <3>1, <3>2 DEF MadeOnce
  <2>3. ASSUME NEW c \in Confirmers, SavePassword(c)
        PROVE  v.hash = c /\ stage[c] = "save" /\ [link |-> link[c], to |-> u.email] \in mailed
    <3>1. PICK w \in users : SameAccount(v, w) /\ (Owner(w, c) => v.hash = c) /\ (~Owner(w, c) => v = w)
      BY <2>3, SavedRows
    <3>2. w = u
      BY <1>1, <3>1 DEF AccountsInv, MadeOnce, SameAccount
    <3>3. Owner(u, c) /\ v.hash = c
      BY <1>1, <3>1, <3>2
    <3>4. stage[c] = "save"
      BY <2>3 DEF SavePassword
    <3>5. PICK m \in mailed : m.link = link[c]
      BY <1>1, <3>4 DEF AccountsInv, SavesFollowMail
    <3>6. m.to = u.email
      BY <1>1, <3>3, <3>5 DEF AccountsInv, LinksGoToTheirAccount, MadeOnce, Owner
    <3>7. m = [link |-> link[c], to |-> u.email]
      BY <1>1, <3>5, <3>6 DEF AccountsInv, TypeOK, Mails
    <3>8. QED  BY <3>3, <3>4, <3>7
  <2>4. QED  BY <2>1, <2>2, <2>3, <1>1, TablesRest
<1>2. AccountsInv /\ [Next]_vars =>
        [\A u \in users : \A v \in users' : u.id = v.id /\ u.hash # v.hash =>
           \E c \in Confirmers : /\ v.hash = c /\ stage[c] = "save"
                                 /\ [link |-> link[c], to |-> u.email] \in mailed]_vars
  BY <1>1
<1>3. QED  BY <1>2, AccountsInvariant, PTL DEF Spec, PasswordsNeedOwnLink

=============================================================================
