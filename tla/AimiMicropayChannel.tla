------------------------ MODULE AimiMicropayChannel ------------------------
(***************************************************************************)
(* The channel contract, contracts/AimiMicropayChannel.sol, together with  *)
(* the parts of the world it reads: the block clock, the TRC-20 token it   *)
(* moves and the signatures buyers and sellers have produced.              *)
(*                                                                         *)
(* A call that reverts changes nothing, so only successful calls are       *)
(* actions.  A signature is membership in "vouchers" or "cancellations":   *)
(* the digest covers every field of the signed record, and the signer of a *)
(* voucher is the buyer named by its channel id.  Hashes are collision     *)
(* free: a channel id is the tuple that is hashed.                         *)
(***************************************************************************)
EXTENDS Naturals, FiniteSets, Functions

CONSTANTS
  Buyer,      \* addresses that open channels
  Seller,     \* addresses that channels are opened to
  Token,      \* TRC-20 contracts
  Salt,       \* non-zero channel salts
  Amount,     \* deposits and voucher amounts, in atomic units
  Nonce,      \* voucher nonces in use
  Supply,     \* what each account owns of each token at the start
  MaxTime,    \* bound: the block clock stops here
  MaxSigned   \* bound: how many signatures of each kind are ever produced

ASSUME ChannelAssumption ==
  /\ IsFiniteSet(Buyer) /\ IsFiniteSet(Seller)
  /\ IsFiniteSet(Token) /\ IsFiniteSet(Salt)
  /\ Amount \subseteq Nat \ {0}
  /\ Nonce \subseteq Nat
  /\ Supply \in Nat
  /\ MaxTime \in Nat
  /\ MaxSigned \in Nat

VARIABLES
  now,            \* block.timestamp
  channels,       \* paymentChannels
  wallet,         \* token balance of each account
  escrow,         \* token balance of the contract itself
  allowance,      \* what the contract may still pull from each buyer
  vouchers,       \* vouchers signed by buyers
  cancellations,  \* cancel digests signed by buyers and sellers
  ledger          \* history: where the deposit of the latest opening went

chainVars == <<channels, wallet, escrow, allowance, ledger>>
signatureVars == <<vouchers, cancellations>>
vars == <<now, channels, wallet, escrow, allowance, vouchers, cancellations,
          ledger>>

Time == 0 .. MaxTime

Account == Buyer \cup Seller

channelIdOf(buyer, seller, token, channelSalt) ==
  [buyer |-> buyer, seller |-> seller, token |-> token, salt |-> channelSalt]

ChannelId == [buyer : Buyer, seller : Seller, token : Token, salt : Salt]

\* buyer, seller, token and salt of a struct are those of its id.
PaymentChannel ==
  [totalDeposit : Nat, nonce : Nat, expiresAt : Nat, isActive : BOOLEAN]

EmptyChannel ==
  [totalDeposit |-> 0, nonce |-> 0, expiresAt |-> 0, isActive |-> FALSE]

Voucher ==
  [channelId : ChannelId, amount : Amount, nonce : Nonce,
   expiresAt : Time, requestDeadline : Time]

Cancellation ==
  [signer : Account, channelId : ChannelId, totalDeposit : Nat,
   expiresAt : Nat]

-----------------------------------------------------------------------------

Init ==
  /\ now = 0
  /\ channels = [id \in ChannelId |-> EmptyChannel]
  /\ wallet = [t \in Token |-> [a \in Account |-> Supply]]
  /\ escrow = [t \in Token |-> 0]
  /\ allowance = [t \in Token |-> [a \in Buyer |-> 0]]
  /\ vouchers = {}
  /\ cancellations = {}
  /\ ledger = [id \in ChannelId |->
                 [deposited |-> 0, toSeller |-> 0, toBuyer |-> 0]]

\* Blocks arrive.
Tick ==
  /\ now < MaxTime
  /\ now' = now + 1
  /\ UNCHANGED <<channels, wallet, escrow, allowance, vouchers,
                 cancellations, ledger>>

\* TRC-20 approve: the new allowance replaces the old one.
approve(owner, token, amount) ==
  /\ allowance' = [allowance EXCEPT ![token][owner] = amount]
  /\ UNCHANGED <<now, channels, wallet, escrow, vouchers, cancellations,
                 ledger>>

\* The buyer signs a voucher for a channel it has open, as
\* build_payment_voucher.js does for the amount, nonce and deadline it is given.
signVoucher(v) ==
  /\ channels[v.channelId].isActive
  /\ v.expiresAt = channels[v.channelId].expiresAt
  /\ now <= v.requestDeadline
  /\ Cardinality(vouchers) < MaxSigned
  /\ vouchers' = vouchers \cup {v}
  /\ UNCHANGED <<now, channels, wallet, escrow, allowance, cancellations,
                 ledger>>

\* A party signs the cancel digest of the channel's present deposit and expiry.
signCancel(signer, id) ==
  /\ channels[id].isActive
  /\ signer \in {id.buyer, id.seller}
  /\ Cardinality(cancellations) < MaxSigned
  /\ cancellations' = cancellations \cup
       {[signer |-> signer, channelId |-> id,
         totalDeposit |-> channels[id].totalDeposit,
         expiresAt |-> channels[id].expiresAt]}
  /\ UNCHANGED <<now, channels, wallet, escrow, allowance, vouchers, ledger>>

-----------------------------------------------------------------------------

initializeChannel(sender, seller, token, totalDeposit, expiresAt, salt) ==
  LET id == channelIdOf(sender, seller, token, salt) IN
  /\ seller # sender
  /\ totalDeposit # 0
  /\ expiresAt > now
  /\ ~channels[id].isActive
  /\ wallet[token][sender] >= totalDeposit
  /\ allowance[token][sender] >= totalDeposit
  /\ wallet' = [wallet EXCEPT ![token][sender] = @ - totalDeposit]
  /\ allowance' = [allowance EXCEPT ![token][sender] = @ - totalDeposit]
  /\ escrow' = [escrow EXCEPT ![token] = @ + totalDeposit]
  /\ channels' = [channels EXCEPT ![id] =
       [totalDeposit |-> totalDeposit, nonce |-> 0,
        expiresAt |-> expiresAt, isActive |-> TRUE]]
  /\ ledger' = [ledger EXCEPT ![id] =
       [deposited |-> totalDeposit, toSeller |-> 0, toBuyer |-> 0]]
  /\ UNCHANGED <<now, vouchers, cancellations>>

\* Mutation of Payout: the refund is sent twice and the escrow not checked.
PayoutTwice(id, toSeller, toBuyer) ==
  /\ escrow' = [escrow EXCEPT ![id.token] = @ - (toSeller + 2 * toBuyer)]
  /\ wallet' = [wallet EXCEPT ![id.token] =
       [a \in Account |-> @[a] + (IF a = id.seller THEN toSeller ELSE 0)
                               + (IF a = id.buyer THEN 2 * toBuyer ELSE 0)]]
  /\ ledger' = [ledger EXCEPT ![id] =
       [deposited |-> @.deposited, toSeller |-> @.toSeller + toSeller,
        toBuyer |-> @.toBuyer + 2 * toBuyer]]

\* The contract ends the opening of id and pays its two parties out of escrow.
\* The token transfers revert, and with them the call, when escrow is short.
Payout(id, toSeller, toBuyer) ==
  /\ escrow[id.token] >= toSeller + toBuyer
  /\ escrow' = [escrow EXCEPT ![id.token] = @ - (toSeller + toBuyer)]
  /\ wallet' = [wallet EXCEPT ![id.token] =
       [a \in Account |-> @[a] + (IF a = id.seller THEN toSeller ELSE 0)
                               + (IF a = id.buyer THEN toBuyer ELSE 0)]]
  /\ ledger' = [ledger EXCEPT ![id] =
       [deposited |-> @.deposited, toSeller |-> @.toSeller + toSeller,
        toBuyer |-> @.toBuyer + toBuyer]]

\* Mutations of Ended: the deposit is not cleared, or the channel stays active.
EndedKeepsDeposit(channel, nonce) ==
  [channel EXCEPT !.nonce = nonce, !.isActive = FALSE]

EndedStillActive(channel, nonce) ==
  [channel EXCEPT !.nonce = nonce, !.totalDeposit = 0]

\* The struct of a channel whose opening has ended.
Ended(channel, nonce) ==
  [totalDeposit |-> 0, nonce |-> nonce, expiresAt |-> channel.expiresAt,
   isActive |-> FALSE]

\* Mutation of claimPayment: the buyer's signature is not checked.
claimUnsigned(sender, v) ==
  LET id == v.channelId
      channel == channels[id] IN
  /\ channel.isActive
  /\ sender = id.seller
  /\ v.nonce > channel.nonce
  /\ v.expiresAt = channel.expiresAt
  /\ now <= channel.expiresAt
  /\ now <= v.requestDeadline
  /\ v.amount <= channel.totalDeposit
  /\ channels' = [channels EXCEPT ![id] = Ended(@, v.nonce)]
  /\ Payout(id, v.amount, channel.totalDeposit - v.amount)
  /\ UNCHANGED <<now, allowance, vouchers, cancellations>>

claimPayment(sender, v) ==
  LET id == v.channelId
      channel == channels[id] IN
  /\ channel.isActive
  /\ sender = id.seller
  /\ v.nonce > channel.nonce
  /\ v.expiresAt = channel.expiresAt
  /\ now <= channel.expiresAt
  /\ now <= v.requestDeadline
  /\ v.amount <= channel.totalDeposit
  /\ v \in vouchers
  /\ channels' = [channels EXCEPT ![id] = Ended(@, v.nonce)]
  /\ Payout(id, v.amount, channel.totalDeposit - v.amount)
  /\ UNCHANGED <<now, allowance, vouchers, cancellations>>

\* Mutation of closeChannel: not yet at the expiry itself.
closeAfterExpiry(sender, id) ==
  /\ channels[id].isActive
  /\ sender = id.buyer
  /\ now > channels[id].expiresAt
  /\ channels' = [channels EXCEPT ![id] = Ended(@, @.nonce)]
  /\ Payout(id, 0, channels[id].totalDeposit)
  /\ UNCHANGED <<now, allowance, vouchers, cancellations>>

closeChannel(sender, id) ==
  /\ channels[id].isActive
  /\ sender = id.buyer
  /\ now >= channels[id].expiresAt
  /\ channels' = [channels EXCEPT ![id] = Ended(@, @.nonce)]
  /\ Payout(id, 0, channels[id].totalDeposit)
  /\ UNCHANGED <<now, allowance, vouchers, cancellations>>

\* Both parties have signed the digest of the present deposit and expiry.
CancelSignedBy(signer, id) ==
  [signer |-> signer, channelId |-> id,
   totalDeposit |-> channels[id].totalDeposit,
   expiresAt |-> channels[id].expiresAt] \in cancellations

\* Mutation of cancelChannel: the caller's own signature is enough.
cancelAlone(sender, id) ==
  /\ channels[id].isActive
  /\ sender \in {id.buyer, id.seller}
  /\ CancelSignedBy(sender, id)
  /\ channels' = [channels EXCEPT ![id] = Ended(@, @.nonce)]
  /\ Payout(id, 0, channels[id].totalDeposit)
  /\ UNCHANGED <<now, allowance, vouchers, cancellations>>

cancelChannel(sender, id) ==
  /\ channels[id].isActive
  /\ sender \in {id.buyer, id.seller}
  /\ CancelSignedBy(id.buyer, id)
  /\ CancelSignedBy(id.seller, id)
  /\ channels' = [channels EXCEPT ![id] = Ended(@, @.nonce)]
  /\ Payout(id, 0, channels[id].totalDeposit)
  /\ UNCHANGED <<now, allowance, vouchers, cancellations>>

Next ==
  \/ Tick
  \/ \E a \in Buyer, t \in Token, amount \in Amount : approve(a, t, amount)
  \/ \E v \in Voucher : signVoucher(v)
  \/ \E a \in Account, id \in ChannelId : signCancel(a, id)
  \/ \E a \in Buyer, s \in Seller, t \in Token, d \in Amount,
        e \in Time, x \in Salt :
       initializeChannel(a, s, t, d, e, x)
  \/ \E a \in Account, v \in Voucher : claimPayment(a, v)
  \/ \E a \in Account, id \in ChannelId : closeChannel(a, id)
  \/ \E a \in Account, id \in ChannelId : cancelChannel(a, id)

Spec == Init /\ [][Next]_vars

\* Blocks keep arriving, and a buyer closes a channel that has expired.
FairSpec ==
  /\ Spec
  /\ WF_vars(Tick)
  /\ \A id \in ChannelId : WF_vars(closeChannel(id.buyer, id))

-----------------------------------------------------------------------------

\* Type invariant.
TypeOK ==
  /\ now \in Time
  /\ channels \in [ChannelId -> PaymentChannel]
  /\ wallet \in [Token -> [Account -> Nat]]
  /\ escrow \in [Token -> Nat]
  /\ allowance \in [Token -> [Buyer -> Nat]]
  /\ vouchers \subseteq Voucher
  /\ cancellations \subseteq Cancellation
  /\ ledger \in [ChannelId -> [deposited : Nat, toSeller : Nat, toBuyer : Nat]]

\* Every opening is accounted for on its own: what was deposited is either
\* still locked in the channel or has been paid out to its two parties, so no
\* channel is ever paid from another channel's deposit.
FundsAccounted ==
  \A id \in ChannelId :
    /\ ledger[id].deposited =
         channels[id].totalDeposit + ledger[id].toSeller + ledger[id].toBuyer
    /\ channels[id].isActive =>
         /\ channels[id].totalDeposit > 0
         /\ ledger[id].toSeller + ledger[id].toBuyer = 0
    /\ ~channels[id].isActive => channels[id].totalDeposit = 0

\* What is locked in each channel.
Deposits == [id \in ChannelId |-> channels[id].totalDeposit]

\* The contract owns exactly the deposits of its open channels, and calls to
\* it neither create nor destroy tokens.
FundsConserved ==
  \A t \in Token :
    /\ escrow[t] = SumFunctionOnSet(Deposits, {id \in ChannelId : id.token = t})
    /\ escrow[t] + SumFunctionOnSet(wallet[t], Account)
         = Supply * Cardinality(Account)

\* What a seller has received from a channel is the amount of one voucher its
\* buyer signed for that channel and its expiry, the one whose nonce the
\* channel now carries: repeated claims and other channels' vouchers add
\* nothing.
SellerPaidAsSigned ==
  \A id \in ChannelId :
    ledger[id].toSeller > 0 =>
      \E v \in vouchers :
        /\ v.channelId = id
        /\ v.amount = ledger[id].toSeller
        /\ v.expiresAt = channels[id].expiresAt
        /\ v.nonce = channels[id].nonce

\* Before a channel's expiry its buyer gets the deposit back only through a
\* claim that paid the seller or with both parties' signatures on a cancel
\* digest of that deposit and expiry.
EarlyRefundIsAgreed ==
  \A id \in ChannelId :
    /\ ledger[id].toBuyer > 0
    /\ now < channels[id].expiresAt
    => \/ ledger[id].toSeller > 0
       \/ \A signer \in {id.buyer, id.seller} :
            [signer |-> signer, channelId |-> id,
             totalDeposit |-> ledger[id].deposited,
             expiresAt |-> channels[id].expiresAt] \in cancellations

\* From its expiry on, the buyer of an open channel can always close it: the
\* other channels' payouts have never left the contract short of this deposit.
RefundAlwaysAvailable ==
  \A id \in ChannelId :
    /\ channels[id].isActive
    /\ now >= channels[id].expiresAt
    => ENABLED closeChannel(id.buyer, id)

\* Every deposit leaves the contract again.
DepositsReleased ==
  \A id \in ChannelId : channels[id].isActive ~> ~channels[id].isActive

\* The abstract channel seen through this one.
PhaseOf(id) ==
  CASE channels[id].isActive -> "open"
    [] ~channels[id].isActive /\ ledger[id].toSeller > 0 -> "claimed"
    [] ~channels[id].isActive /\ ledger[id].toBuyer > 0
         /\ ledger[id].toSeller = 0 -> "refunded"
    [] OTHER -> "unopened"

Escrow == INSTANCE ChannelEscrow WITH
  Channels <- ChannelId,
  phase <- [id \in ChannelId |-> PhaseOf(id)],
  held <- [id \in ChannelId |-> channels[id].totalDeposit],
  paid <- [id \in ChannelId |-> ledger[id].toSeller]

\* The contract keeps the promise of ChannelEscrow: one ending per opening,
\* a claim within the deposit, a refund of all of it.
ImplementsEscrow == Escrow!Spec
=============================================================================
