----------------------------- MODULE MCEndpoints -----------------------------
(***************************************************************************)
(* A merchant with two paid paths; its first payment may expire while the  *)
(* model runs.                                                             *)
(***************************************************************************)
EXTENDS PaidEndpoints

CONSTANTS x1, x2, p1

MCPrice == [x \in Path |-> IF x = x1 THEN 1 ELSE 2]

MCDeadline == [p \in Payment |-> IF p = p1 THEN 1 ELSE MaxTime + 1]

\* The first payment is on the merchant's terms; the second names no route
\* and, for its request, too little.
MCIntents ==
  [p \in Payment |->
    IF p = p1 THEN {[route |-> x1, asked |-> None, amount |-> None]}
              ELSE {[route |-> None, asked |-> x2, amount |-> 1]}]
===============================================================================
