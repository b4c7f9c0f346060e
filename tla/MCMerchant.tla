------------------------------ MODULE MCMerchant ------------------------------
(***************************************************************************)
(* A merchant with one route and one plan, and two brands.                 *)
(***************************************************************************)
EXTENDS MerchantConfig

CONSTANTS r1, pl1, b1

MCDefault ==
  [brand |-> b1, routes |-> [r \in {r1} |-> [price |-> 1, enabled |-> TRUE]],
   plans |-> [p \in {} |-> TRUE]]
===============================================================================
