----------------------------- MODULE MCAccounts -----------------------------
(* Two registrations that may share an address, its spelling or a number, two reset         *)
(* requests, and two confirmations that may have the same link.                             *)
EXTENDS Accounts

CONSTANTS reset1, reset2, confirm1, confirm2, upper, lower, phone1, phone2

MCFold == [e \in Emails |-> IF e = upper THEN lower ELSE e]

Post(e, p, s) == [email |-> e, phone |-> p, sort |-> s]

MCPosts == { Post(upper, phone1, "sound"), Post(lower, phone2, "sound"), Post(lower, phone1, "sound"),
             Post(lower, phone2, "weak"), Post(upper, phone2, "long") }
=============================================================================
