-------------------------- MODULE IdempotencyRegister --------------------------
(***************************************************************************)
(* What creating payments under idempotency keys promises                  *)
(* (spec/PROTOCOL_REFERENCE.md:126-131): a key stands for exactly one      *)
(* payment, what it is for never changes, and whoever is told of a payment *)
(* for a key and a body is told of that one.                               *)
(***************************************************************************)
CONSTANTS Key, PaymentId, Body

VARIABLES
  held,  \* the payments there are
  told   \* what requesters were told of

Entry == [key : Key, id : PaymentId, body : Body]

Init == held = {} /\ told = {}

Store(entry) ==
  /\ \A other \in held : other.key # entry.key /\ other.id # entry.id
  /\ held' = held \cup {entry}
  /\ UNCHANGED told

Tell(entry) ==
  /\ entry \in held
  /\ told' = told \cup {entry}
  /\ UNCHANGED held

Next == \E entry \in Entry : Store(entry) \/ Tell(entry)

Spec == Init /\ [][Next]_<<held, told>>
================================================================================
