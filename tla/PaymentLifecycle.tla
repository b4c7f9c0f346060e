--------------------------- MODULE PaymentLifecycle ---------------------------
(***************************************************************************)
(* What the payment status flow promises (spec/PROTOCOL_REFERENCE.md:86-92 *)
(* and shared/protocol.py): a payment is submitted once it is authorized,  *)
(* becomes settled only when the chain has paid it, and a settled, finally *)
(* failed or expired payment never changes again.  A channel pays one of   *)
(* its payments at most.                                                   *)
(***************************************************************************)
CONSTANTS Payment, ChannelOf

VARIABLES
  status,  \* of each payment; "retryable" is a failure that is safe to retry
  paid     \* the payments the chain has paid

States == {"absent", "authorized", "submitted", "settled", "failed",
           "retryable", "expired"}

Init ==
  /\ status = [p \in Payment |-> "absent"]
  /\ paid = {}

Move(p, from, to) ==
  /\ status[p] \in from
  /\ status' = [status EXCEPT ![p] = to]
  /\ UNCHANGED paid

Unsettled == {"authorized", "retryable"}

\* A payment enters the flow authorized, or already submitted.
Create(p) == Move(p, {"absent"}, "authorized") \/ Move(p, {"absent"}, "submitted")

Submit(p) == Move(p, Unsettled, "submitted")

SubmissionFails(p) == Move(p, Unsettled, "retryable")

Expire(p) == Move(p, Unsettled, "expired")

Fail(p) == Move(p, {"submitted"}, "failed")

Settle(p) ==
  /\ p \in paid
  /\ Move(p, {"submitted"}, "settled")

\* The chain pays a payment that is in the flow, whatever the records say of it.
Pay(p) ==
  /\ status[p] # "absent"
  /\ \A q \in paid : ChannelOf[q] # ChannelOf[p]
  /\ paid' = paid \cup {p}
  /\ UNCHANGED status

Next ==
  \E p \in Payment :
    \/ Create(p) \/ Submit(p) \/ SubmissionFails(p) \/ Expire(p)
    \/ Fail(p) \/ Settle(p) \/ Pay(p)

Spec == Init /\ [][Next]_<<status, paid>>
===============================================================================
