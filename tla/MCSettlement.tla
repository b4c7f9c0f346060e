----------------------------- MODULE MCSettlement -----------------------------
(***************************************************************************)
(* The settlement service on small instances.  The deadlines that matter   *)
(* fall inside the time the model runs; the distant ones do not.           *)
(***************************************************************************)
EXTENDS SettlementService

CONSTANT c1

\* All payments draw on one channel.
MCSameChannel == [p \in Payment |-> c1]

\* Each payment may be submitted up to time 1, before its channel expires.
MCNearDeadline == [p \in Payment |-> 1]

MCNearExpiry == [c \in Channel |-> 1]

\* Everything can be done before time 2, and time goes on after it.
MCLaterDeadline == [p \in Payment |-> 2]

MCLaterExpiry == [c \in Channel |-> 2]

\* No deadline or expiry passes while the model runs.
MCDistantDeadline == [p \in Payment |-> MaxTime]

MCDistantExpiry == [c \in Channel |-> MaxTime]
===============================================================================
