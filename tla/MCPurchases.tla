----------------------------- MODULE MCPurchases -----------------------------
(***************************************************************************)
(* Purchases on a small instance: two agents on one wallet, a cheap route  *)
(* of a trusted merchant and one of a merchant the policy blocks.          *)
(***************************************************************************)
EXTENDS BuyerPurchases

CONSTANTS good, bad, o1, o2, a1

MCSellerOf == [o \in Offer |-> IF o = o2 THEN bad ELSE good]

MCListed == [o \in Offer |-> IF o = o2 THEN 2 ELSE 1]

MCMaxTries == [a \in Agent |-> 1]

MCTypicalUnits == [o \in Offer |-> 1]

MCSuggested == [o \in Offer |-> IF o = o2 THEN 0 ELSE None]

MCBonus == [o \in Offer |-> 0]

MCPolicy ==
  [blocked |-> {bad}, trusted |-> {good}, approveUntrusted |-> TRUE,
   perPurchase |-> 1, approveAbove |-> None, daily |-> None]

MCRequest(via, how, wanted, budget, allowed, drive) ==
  [via |-> via, how |-> how, wanted |-> wanted, units |-> None,
   budget |-> budget, allowed |-> allowed, execute |-> TRUE, drive |-> drive]

\* a1 buys, by itself, or over the market; a2 prepares and follows the
\* hints, or calls a paid resource.
MCRequests ==
  [a \in Agent |->
    IF a = a1
      THEN {MCRequest("client", "buy", {o1, o2}, None, FALSE, "finalize"),
            MCRequest("market", "buy", {o1, o2}, 1, FALSE, "none")}
      ELSE {MCRequest("runtime", "prepare", {o1}, 1, TRUE, "hints"),
            MCRequest("runtime", "resource", {o1}, None, FALSE, "none")}]
===============================================================================
