---------------------------- MODULE ChannelEscrow ----------------------------
(***************************************************************************)
(* What the payment channel contract promises to the rest of the system:   *)
(* opening a channel locks a deposit, and an open channel is ended exactly *)
(* once, either by a claim that pays the seller out of that deposit or by  *)
(* a refund of all of it.  Accounts, tokens, the clock and signatures are  *)
(* left out.  AimiMicropayChannel implements this module.                  *)
(***************************************************************************)
EXTENDS Naturals

CONSTANT Channels

VARIABLES
  phase,  \* where each channel is in its life
  held,   \* the deposit locked in each channel
  paid    \* what the latest opening of each channel paid its seller

escrowVars == <<phase, held, paid>>

Phases == {"unopened", "open", "claimed", "refunded"}

TypeOK ==
  /\ phase \in [Channels -> Phases]
  /\ held \in [Channels -> Nat]
  /\ paid \in [Channels -> Nat]

Init ==
  /\ phase = [c \in Channels |-> "unopened"]
  /\ held = [c \in Channels |-> 0]
  /\ paid = [c \in Channels |-> 0]

\* A channel id may be opened again once its previous opening has ended.
Open(c) ==
  /\ phase[c] # "open"
  /\ phase' = [phase EXCEPT ![c] = "open"]
  /\ held'[c] > 0
  /\ held' = [held EXCEPT ![c] = held'[c]]
  /\ paid' = [paid EXCEPT ![c] = 0]

\* The seller redeems a voucher of at most the deposit; the channel is spent.
Claim(c) ==
  /\ phase[c] = "open"
  /\ phase' = [phase EXCEPT ![c] = "claimed"]
  /\ paid'[c] \in 1 .. held[c]
  /\ paid' = [paid EXCEPT ![c] = paid'[c]]
  /\ held' = [held EXCEPT ![c] = 0]

\* The buyer takes the deposit back: after expiry, or earlier by agreement.
Refund(c) ==
  /\ phase[c] = "open"
  /\ phase' = [phase EXCEPT ![c] = "refunded"]
  /\ held' = [held EXCEPT ![c] = 0]
  /\ UNCHANGED paid

Next == \E c \in Channels : Open(c) \/ Claim(c) \/ Refund(c)

Spec == Init /\ [][Next]_escrowVars
=============================================================================
