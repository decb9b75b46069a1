---------------------------- MODULE MCFulfilment ----------------------------
(* A status change and an announcement, while one shared phone registers twice, for two     *)
(* customers and at two stores, is unsubscribed and expires.                                *)
EXTENDS Fulfilment, TLC

CONSTANTS patch1, announce, sub1, sub2, order1, zita, gloria, aline, bea, phone

MCStoreOf == [o \in Orders |-> zita]
MCCustomerOf == [o \in Orders |-> aline]

MCRegistrations ==
  { [store |-> zita, endpoint |-> phone, user |-> aline],
    [store |-> zita, endpoint |-> phone, user |-> bea],
    [store |-> gloria, endpoint |-> phone, user |-> bea] }

SubscriberSymmetry == Permutations(Subscribers)
=============================================================================
