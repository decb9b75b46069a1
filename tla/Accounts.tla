------------------------------ MODULE Accounts ------------------------------
(***************************************************************************)
(* Registration and password reset (apps/users/services.py).               *)
(*                                                                         *)
(* One action is one SQL statement with the checks up to the next one, or  *)
(* one mail.  A password hash is salted, so no two are equal: a hash is    *)
(* named by the call that stored it.  A reset link signs the hash of the   *)
(* account as it was read.  An e-mail address is a spelling; _taken and    *)
(* send_password_reset compare addresses without regard to case, the       *)
(* unique constraint does not.  Nothing in src/ deletes an account.        *)
(***************************************************************************)
EXTENDS Naturals

CONSTANTS
  Registrants,   \* POST /auth/register calls; an account has the id of the call that made it
  Requesters,    \* POST /auth/password/reset-request calls
  Confirmers,    \* POST /auth/password/reset-confirm calls
  Emails, Phones,
  Posts,         \* the payloads that registrants post
  Fold,          \* of each spelling of an address: what iexact compares
  None

Calls == Registrants \cup Requesters \cup Confirmers
\* sort: fit to register, with a password that validate_password refuses, or with a name too
\* long for its column
Payloads == [email : Emails, phone : Phones, sort : {"sound", "weak", "long"}]
Users == [id : Registrants, email : Emails, phone : Phones, hash : Registrants \cup Confirmers]
Links == [user : Registrants, hash : Registrants \cup Confirmers]
Mails == [link : Links, to : Emails]

ASSUME AccountsAssumption ==
  /\ Registrants \subseteq Nat   \* accounts are found in the order of their primary keys
  /\ Posts \subseteq Payloads
  /\ Registrants \cap Requesters = {} /\ Registrants \cap Confirmers = {}
  /\ Requesters \cap Confirmers = {}
  /\ Fold \in [Emails -> Emails] /\ \A e \in Emails : Fold[Fold[e]] = Fold[e]
  /\ None \notin Payloads \cup Emails \cup Users \cup Links \cup {0, 200, 400, 409, 500}

VARIABLES
  stage, answer,     \* of each call
  payload,           \* what each registrant posts
  asked, signed,     \* of each requester: the address, and the link it is about to mail
  link,              \* what each confirmer was sent
  users,             \* the users table
  mailed,            \* the reset mails that were sent
  expired,           \* the links whose PASSWORD_RESET_TIMEOUT is over
  outdated,          \* history: the links whose account has since been given another password
  late               \* history: the confirmers whose link was outdated when they loaded it

vars == <<stage, answer, payload, asked, signed, link, users, mailed, expired, outdated, late>>
requestVars == <<asked, signed>>
linkVars == <<link, expired, outdated, late>>

Init ==
  /\ stage = [c \in Calls |-> "idle"]
  /\ answer = [c \in Calls |-> None]
  /\ payload = [r \in Registrants |-> None]
  /\ asked = [q \in Requesters |-> None]
  /\ signed = [q \in Requesters |-> None]
  /\ link = [c \in Confirmers |-> None]
  /\ users = {} /\ mailed = {}
  /\ expired = {} /\ outdated = {} /\ late = {}

Goto(c, s) == stage' = [stage EXCEPT ![c] = s] /\ UNCHANGED answer

Answer(c, code) ==
  /\ stage' = [stage EXCEPT ![c] = "done"]
  /\ answer' = [answer EXCEPT ![c] = code]

-----------------------------------------------------------------------------
(* POST /auth/register *)

Register(r) ==
  /\ stage[r] = "idle" /\ r \in Registrants
  /\ \E p \in Posts : payload' = [payload EXCEPT ![r] = p]
  /\ Goto(r, "check")
  /\ UNCHANGED <<requestVars, users, mailed, linkVars>>

Taken(p) == \E u \in users : Fold[u.email] = Fold[p.email] \/ u.phone = p.phone

\* the advisory check, then validate_password
CheckTaken(r) ==
  /\ stage[r] = "check"
  /\ IF Taken(payload[r]) THEN Answer(r, 409)
     ELSE IF payload[r].sort = "weak" THEN Answer(r, 400)
     ELSE Goto(r, "insert")
  /\ UNCHANGED <<payload, requestVars, users, mailed, linkVars>>

\* the unique constraints of email and of phone_number, as the columns compare
Collides(p) == \E u \in users : u.email = p.email \/ u.phone = p.phone

NewUser(r) == [id |-> r, email |-> payload[r].email, phone |-> payload[r].phone, hash |-> r]

\* mutant: the table has no unique constraints
InsertUser_NoConstraint(r) ==
  /\ stage[r] = "insert"
  /\ IF payload[r].sort = "long" THEN Answer(r, 500) /\ UNCHANGED users
     ELSE users' = users \cup {NewUser(r)} /\ Goto(r, "reply")
  /\ UNCHANGED <<payload, requestVars, mailed, linkVars>>

\* mutant: a lost race is answered like a won one
InsertUser_LoserWins(r) ==
  /\ stage[r] = "insert"
  /\ IF payload[r].sort = "long" THEN Answer(r, 500) /\ UNCHANGED users
     ELSE /\ users' = users \cup {u \in {NewUser(r)} : ~Collides(payload[r])}
          /\ Goto(r, "reply")
  /\ UNCHANGED <<payload, requestVars, mailed, linkVars>>

\* User.objects.create_user in its own transaction: a collision is the 409 of the check, a
\* name that does not fit its column is an error nobody catches
InsertUser(r) ==
  /\ stage[r] = "insert"
  /\ IF payload[r].sort = "long" THEN Answer(r, 500) /\ UNCHANGED users
     ELSE IF Collides(payload[r]) THEN Answer(r, 409) /\ UNCHANGED users
     ELSE users' = users \cup {NewUser(r)} /\ Goto(r, "reply")
  /\ UNCHANGED <<payload, requestVars, mailed, linkVars>>

ReplyRegistered(r) ==
  /\ stage[r] = "reply"
  /\ Answer(r, 200)
  /\ UNCHANGED <<payload, requestVars, users, mailed, linkVars>>

-----------------------------------------------------------------------------
(* POST /auth/password/reset-request *)

Matching(e) == {u \in users : Fold[u.email] = Fold[e]}

\* filter(email__iexact=...).first(), in primary-key order
FindAccount(q) ==
  /\ stage[q] = "idle" /\ q \in Requesters
  /\ \E e \in Emails :
       /\ asked' = [asked EXCEPT ![q] = e]
       /\ IF Matching(e) = {}
          THEN Answer(q, 200) /\ UNCHANGED signed
          ELSE \E u \in Matching(e) :
                 /\ \A v \in Matching(e) : u.id <= v.id
                 /\ signed' = [signed EXCEPT ![q] = [user |-> u.id, hash |-> u.hash]]
                 /\ Goto(q, "sign")
  /\ UNCHANGED <<payload, users, mailed, linkVars>>

\* the task reads the account again, by its key, and signs what it reads
SignLink(q) ==
  /\ stage[q] = "sign"
  /\ \E u \in users :
       /\ u.id = signed[q].user
       /\ signed' = [signed EXCEPT ![q] = [user |-> u.id, hash |-> u.hash]]
  /\ Goto(q, "mail")
  /\ UNCHANGED <<payload, asked, users, mailed, linkVars>>

Recipient(q) == (CHOOSE u \in users : u.id = signed[q].user).email

\* send_mail may fail: apply(throw=False) swallows it
Mail(q) ==
  /\ stage[q] = "mail"
  /\ mailed' = mailed \/ mailed' = mailed \cup {[link |-> signed[q], to |-> Recipient(q)]}
  /\ Answer(q, 200)
  /\ UNCHANGED <<payload, requestVars, users, linkVars>>

-----------------------------------------------------------------------------
(* POST /auth/password/reset-confirm *)

\* mutant: the link does not sign the password
Usable_AnyPassword(u, l) == l \notin expired

Usable(u, l) == l.hash = u.hash /\ l \notin expired

\* the account is read, the link checked against what was read, the password validated
LoadAccount(c) ==
  /\ stage[c] = "idle" /\ c \in Confirmers
  /\ \E m \in mailed, u \in users :
       /\ m.link.user = u.id
       /\ link' = [link EXCEPT ![c] = m.link]
       /\ late' = late \cup {d \in {c} : m.link \in outdated}
       /\ \/ Usable(u, m.link) /\ Goto(c, "save")
          \/ Answer(c, 400)   \* the link is unusable, or the new password too weak
  /\ UNCHANGED <<payload, requestVars, users, mailed, expired, outdated>>

\* a link that names no account
RefuseLink(c) ==
  /\ stage[c] = "idle" /\ c \in Confirmers
  /\ Answer(c, 400)
  /\ UNCHANGED <<payload, requestVars, users, mailed, linkVars>>

\* mutant: the password of every account
Owner_Everyone(u, c) == TRUE

Owner(u, c) == u.id = link[c].user

WithPassword(u, c) == [id |-> u.id, email |-> u.email, phone |-> u.phone, hash |-> c]

\* save(update_fields=["password"]): an UPDATE by primary key, whatever it has become
SavePassword(c) ==
  /\ stage[c] = "save"
  /\ users' = {IF Owner(u, c) THEN WithPassword(u, c) ELSE u : u \in users}
  /\ outdated' = outdated \cup {l \in Links : \E u \in users : u.id = link[c].user /\ u.id = l.user
                                                                /\ l.hash = u.hash}
  /\ Answer(c, 200)
  /\ UNCHANGED <<payload, requestVars, mailed, link, expired, late>>

-----------------------------------------------------------------------------
Expire(l) ==
  /\ expired' = expired \cup {l}
  /\ UNCHANGED <<stage, answer, payload, requestVars, users, mailed, link, outdated, late>>

\* the worker dies: what was committed or mailed stays
Crash(c) ==
  /\ stage[c] \notin {"idle", "done"}
  /\ Answer(c, 0)
  /\ UNCHANGED <<payload, requestVars, users, mailed, linkVars>>

Next ==
  \/ \E r \in Registrants : Register(r) \/ CheckTaken(r) \/ InsertUser(r) \/ ReplyRegistered(r)
  \/ \E q \in Requesters : FindAccount(q) \/ SignLink(q) \/ Mail(q)
  \/ \E c \in Confirmers : LoadAccount(c) \/ RefuseLink(c) \/ SavePassword(c)
  \/ \E m \in mailed : Expire(m.link)
  \/ \E c \in Calls : Crash(c)

Spec == Init /\ [][Next]_vars

-----------------------------------------------------------------------------
\* No two accounts share a spelling of an address or a phone number, although the check and
\* the INSERT of two registrations interleave.
IdentitiesAreUnique ==
  \A u, v \in users : u.email = v.email \/ u.phone = v.phone => u = v

\* Every variable keeps its shape; a call that is about to mail has an account to mail to,
\* and accounts are told apart by their address and by their number.
TypeOK ==
  /\ stage \in [Calls -> {"idle", "check", "insert", "reply", "sign", "mail", "save", "done"}]
  /\ answer \in [Calls -> {None, 0, 200, 400, 409, 500}]
  /\ payload \in [Registrants -> Payloads \cup {None}]
  /\ asked \in [Requesters -> Emails \cup {None}]
  /\ signed \in [Requesters -> Links \cup {None}]
  /\ \A q \in Requesters : stage[q] \in {"sign", "mail"} => \E u \in users : u.id = signed[q].user
  /\ link \in [Confirmers -> Links \cup {None}]
  /\ users \subseteq Users /\ mailed \subseteq Mails
  /\ expired \subseteq Links /\ outdated \subseteq Links /\ late \subseteq Confirmers
  /\ IdentitiesAreUnique

\* Of every interleaving of registrations and crashes: a 200 has its account, a 400 or 500 has
\* none, and a 409 has none and another account holds the address or the number.
RegistrationsAnswerTruly ==
  \A r \in Registrants :
    LET own == {u \in users : u.id = r} IN
    /\ answer[r] = 200 => \E u \in own : u.email = payload[r].email /\ u.phone = payload[r].phone
    /\ answer[r] \in {400, 409, 500} => own = {}
    /\ answer[r] = 409 => Taken(payload[r])

\* A reset link is mailed to the address of the account that it opens, however the requester
\* spelled the address and whichever accounts were registered meanwhile.
LinksGoToTheirAccount ==
  \A m \in mailed : \E u \in users : u.id = m.link.user /\ u.email = m.to

\* A link is of no use once its account has another password than the one it signed: a
\* confirmation that loads the account after that change does not save.
OutdatedLinksAreRefused == \A c \in late : stage[c] # "save" /\ answer[c] # 200

\* A reset link is good for one account and one password only: it goes to that account's
\* owner, and opens it no longer once the password is another.
LinksAreBound == LinksGoToTheirAccount /\ OutdatedLinksAreRefused

\* An account gets a password only by a confirmation with a link that was mailed to that
\* account's own address.
PasswordsNeedOwnLink ==
  [][\A u \in users : \A v \in users' : u.id = v.id /\ u.hash # v.hash =>
       \E c \in Confirmers : /\ v.hash = c /\ stage[c] = "save"
                             /\ [link |-> link[c], to |-> u.email] \in mailed]_vars

\* The answer to a reset request does not depend on the account or on the mail (services.py:67-75).
RequestsAnswerAlike == \A q \in Requesters : answer[q] \in {None, 0, 200}

\* What a registration or a reset request is answered is so, and a reset request is not
\* answered more than that it was received.
AnswersAreTrue == RegistrationsAnswerTruly /\ RequestsAnswerAlike

\* services.py:29-31: "two concurrent registrations can both pass it [the check] -- so the
\* IntegrityError from the database constraint is caught and reported the same way. The
\* constraint is the real gate."  So no two accounts have an address that the check calls taken.
ConstraintIsTheGate == \A u, v \in users : Fold[u.email] = Fold[v.email] => u = v
=============================================================================
