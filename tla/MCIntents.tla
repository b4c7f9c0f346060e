------------------------------ MODULE MCIntents ------------------------------
(***************************************************************************)
(* Intent creation on small instances: operations that are sent under one  *)
(* key, the case the key is there for, some with payment ids the gateway   *)
(* makes and some with ids of their own.                                   *)
(***************************************************************************)
EXTENDS PaymentIntents, TLC

CONSTANTS o2, k1, b1, b2, own

MCKeyOf == [o \in Operation |-> k1]

\* o1 lets the gateway choose its payment id.
MCOwnId == [o \in Operation |-> IF o = o2 THEN own ELSE None]

\* o2 wants something else under the shared key.
MCBodyOf == [o \in Operation |-> IF o = o2 THEN b2 ELSE b1]

\* The ids the gateway makes are alike, and so are handlers.
MCSymmetry == Permutations(PaymentId \ {own}) \cup Permutations(Handler)
=============================================================================
