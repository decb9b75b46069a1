------------------------------ MODULE MCInbox ------------------------------
(* Three orders in flight at two stores, a client that breaks ties and sees every status,  *)
(* and one that polls for one status by timestamp alone.  A millisecond has two ticks.       *)
EXTENDS Inbox

CONSTANTS all, fresh, zita, gloria

MCStoreOf == [o \in Orders |-> IF o = 4 THEN gloria ELSE zita]
MCStoreAt == [p \in Pollers |-> zita]
MCFilter == [p \in Pollers |-> IF p = fresh THEN "new" ELSE None]
=============================================================================
