---------------------- MODULE AimiMicropayChannelProofs ----------------------
(***************************************************************************)
(* Theorems about the channel contract, for any number of parties, tokens, *)
(* salts and amounts.                                                      *)
(***************************************************************************)
EXTENDS AimiMicropayChannel, SetSums, TLAPS

\* A payout keeps token balances natural numbers and adds to the history of
\* its own channel only.
LEMMA PayoutEffect ==
  ASSUME TypeOK, NEW id \in ChannelId, NEW toSeller \in Nat, NEW toBuyer \in Nat,
         Payout(id, toSeller, toBuyer)
  PROVE  /\ escrow' \in [Token -> Nat]
         /\ wallet' \in [Token -> [Account -> Nat]]
         /\ ledger' = [ledger EXCEPT ![id] =
              [deposited |-> ledger[id].deposited,
               toSeller |-> ledger[id].toSeller + toSeller,
               toBuyer |-> ledger[id].toBuyer + toBuyer]]
         /\ ledger' \in [ChannelId ->
              [deposited : Nat, toSeller : Nat, toBuyer : Nat]]
<1>1. id.token \in Token
  BY DEF ChannelId
<1>2. escrow' \in [Token -> Nat]
  BY <1>1 DEF Payout, TypeOK
<1>3. wallet' \in [Token -> [Account -> Nat]]
  BY <1>1 DEF Payout, TypeOK
<1>4. ledger[id] \in [deposited : Nat, toSeller : Nat, toBuyer : Nat]
  BY DEF TypeOK
<1>5. QED
  BY <1>2, <1>3, <1>4 DEF Payout, TypeOK

\* An ended opening leaves a well-formed, inactive channel without a deposit.
LEMMA EndedChannel ==
  ASSUME TypeOK, NEW id \in ChannelId, NEW n \in Nat
  PROVE  Ended(channels[id], n) \in PaymentChannel
  BY DEF TypeOK, PaymentChannel, Ended

LEMMA InitIInv == Init => TypeOK /\ FundsAccounted
  BY ChannelAssumption DEF Init, TypeOK, FundsAccounted, PaymentChannel,
     EmptyChannel, Time

-----------------------------------------------------------------------------

\* The three ways an opening ends have this in common: the deposit is paid out
\* in full, in two parts, and nothing else about the channels changes.
LEMMA EndingStep ==
  ASSUME TypeOK, FundsAccounted, SellerPaidAsSigned,
         NEW id \in ChannelId, channels[id].isActive,
         NEW n \in Nat, NEW toSeller \in Nat, NEW toBuyer \in Nat,
         toSeller + toBuyer = channels[id].totalDeposit,
         channels' = [channels EXCEPT ![id] = Ended(@, n)],
         Payout(id, toSeller, toBuyer),
         UNCHANGED <<now, allowance, vouchers, cancellations>>,
         toSeller > 0 =>
           \E v \in vouchers :
             /\ v.channelId = id
             /\ v.amount = toSeller
             /\ v.expiresAt = channels[id].expiresAt
             /\ v.nonce = n
  PROVE  TypeOK' /\ FundsAccounted' /\ SellerPaidAsSigned'
<1>1. channels' = [channels EXCEPT ![id] = Ended(channels[id], n)]
  OBVIOUS
<1>2. Ended(channels[id], n) \in PaymentChannel
  BY EndedChannel
<1>3. /\ escrow' \in [Token -> Nat]
      /\ wallet' \in [Token -> [Account -> Nat]]
      /\ ledger' = [ledger EXCEPT ![id] =
           [deposited |-> ledger[id].deposited,
            toSeller |-> ledger[id].toSeller + toSeller,
            toBuyer |-> ledger[id].toBuyer + toBuyer]]
      /\ ledger' \in [ChannelId ->
           [deposited : Nat, toSeller : Nat, toBuyer : Nat]]
  BY PayoutEffect
<1>4. TypeOK'
  BY <1>1, <1>2, <1>3 DEF TypeOK
<1>5. /\ ledger[id] \in [deposited : Nat, toSeller : Nat, toBuyer : Nat]
      /\ ledger[id].toSeller = 0 /\ ledger[id].toBuyer = 0
      /\ ledger[id].deposited = channels[id].totalDeposit
      /\ channels[id].totalDeposit \in Nat
  BY DEF TypeOK, FundsAccounted, PaymentChannel
<1>6. FundsAccounted'
  <2> SUFFICES ASSUME NEW c \in ChannelId
               PROVE  /\ ledger'[c].deposited =
                           channels'[c].totalDeposit + ledger'[c].toSeller
                             + ledger'[c].toBuyer
                      /\ channels'[c].isActive =>
                           /\ channels'[c].totalDeposit > 0
                           /\ ledger'[c].toSeller + ledger'[c].toBuyer = 0
                      /\ ~channels'[c].isActive => channels'[c].totalDeposit = 0
    BY DEF FundsAccounted
  <2>1. CASE c = id
    <3>1. channels'[c] = Ended(channels[id], n)
      BY <1>1, <2>1 DEF TypeOK
    <3>2. ledger'[c] = [deposited |-> ledger[id].deposited,
                        toSeller |-> ledger[id].toSeller + toSeller,
                        toBuyer |-> ledger[id].toBuyer + toBuyer]
      BY <1>3, <2>1 DEF TypeOK
    <3>3. QED
      BY <1>5, <3>1, <3>2 DEF Ended
  <2>2. CASE c # id
    <3>1. channels'[c] = channels[c] /\ ledger'[c] = ledger[c]
      BY <1>1, <1>3, <2>2 DEF TypeOK
    <3>2. QED
      BY <3>1 DEF FundsAccounted
  <2>3. QED
    BY <2>1, <2>2
<1>7. SellerPaidAsSigned'
  <2> SUFFICES ASSUME NEW c \in ChannelId, ledger'[c].toSeller > 0
               PROVE  \E v \in vouchers :
                        /\ v.channelId = c
                        /\ v.amount = ledger'[c].toSeller
                        /\ v.expiresAt = channels'[c].expiresAt
                        /\ v.nonce = channels'[c].nonce
    BY DEF SellerPaidAsSigned
  <2>1. CASE c = id
    <3>1. /\ channels'[c].expiresAt = channels[id].expiresAt
          /\ channels'[c].nonce = n
          /\ ledger'[c].toSeller = toSeller
      BY <1>1, <1>3, <1>5, <2>1 DEF TypeOK, Ended
    <3>2. QED
      BY <2>1, <3>1
  <2>2. CASE c # id
    <3>1. channels'[c] = channels[c] /\ ledger'[c] = ledger[c]
      BY <1>1, <1>3, <2>2 DEF TypeOK
    <3>2. QED
      BY <3>1 DEF SellerPaidAsSigned
  <2>3. QED
    BY <2>1, <2>2
<1>8. QED
  BY <1>4, <1>6, <1>7

LEMMA InitializeStep ==
  ASSUME TypeOK, FundsAccounted, SellerPaidAsSigned,
         NEW a \in Buyer, NEW s \in Seller, NEW t \in Token, NEW d \in Amount,
         NEW e \in Time, NEW x \in Salt,
         initializeChannel(a, s, t, d, e, x)
  PROVE  TypeOK' /\ FundsAccounted' /\ SellerPaidAsSigned'
<1> DEFINE id == channelIdOf(a, s, t, x)
           struct == [totalDeposit |-> d, nonce |-> 0, expiresAt |-> e,
                      isActive |-> TRUE]
           entry == [deposited |-> d, toSeller |-> 0, toBuyer |-> 0]
<1>1. /\ id \in ChannelId
      /\ a \in Account
      /\ d \in Nat /\ d > 0
      /\ e \in Nat
  BY ChannelAssumption DEF channelIdOf, ChannelId, Account, Time
<1>2. /\ channels' = [channels EXCEPT ![id] = struct]
      /\ ledger' = [ledger EXCEPT ![id] = entry]
      /\ wallet[t][a] >= d
      /\ allowance[t][a] >= d
      /\ wallet' = [wallet EXCEPT ![t][a] = @ - d]
      /\ allowance' = [allowance EXCEPT ![t][a] = @ - d]
      /\ escrow' = [escrow EXCEPT ![t] = @ + d]
      /\ UNCHANGED <<now, vouchers, cancellations>>
  BY DEF initializeChannel
<1> HIDE DEF id
<1>3. struct \in PaymentChannel
  BY <1>1 DEF PaymentChannel
<1>4. entry \in [deposited : Nat, toSeller : Nat, toBuyer : Nat]
  BY <1>1
<1>5. TypeOK'
  <2>1. /\ channels' \in [ChannelId -> PaymentChannel]
        /\ ledger' \in [ChannelId ->
             [deposited : Nat, toSeller : Nat, toBuyer : Nat]]
    BY <1>1, <1>2, <1>3, <1>4 DEF TypeOK
  <2>2. wallet' \in [Token -> [Account -> Nat]]
    BY <1>1, <1>2 DEF TypeOK
  <2>3. allowance' \in [Token -> [Buyer -> Nat]]
    BY <1>1, <1>2 DEF TypeOK
  <2>4. escrow' \in [Token -> Nat]
    BY <1>1, <1>2 DEF TypeOK
  <2>5. QED
    BY <1>2, <2>1, <2>2, <2>3, <2>4 DEF TypeOK
<1>6. channels'[id] = struct /\ ledger'[id] = entry
  BY <1>1, <1>2 DEF TypeOK
<1>7. \A c \in ChannelId \ {id} :
        channels'[c] = channels[c] /\ ledger'[c] = ledger[c]
  BY <1>2 DEF TypeOK
<1>8. FundsAccounted'
  <2> SUFFICES ASSUME NEW c \in ChannelId
               PROVE  /\ ledger'[c].deposited =
                           channels'[c].totalDeposit + ledger'[c].toSeller
                             + ledger'[c].toBuyer
                      /\ channels'[c].isActive =>
                           /\ channels'[c].totalDeposit > 0
                           /\ ledger'[c].toSeller + ledger'[c].toBuyer = 0
                      /\ ~channels'[c].isActive => channels'[c].totalDeposit = 0
    BY DEF FundsAccounted
  <2>1. CASE c = id
    BY <1>1, <1>6, <2>1
  <2>2. CASE c # id
    BY <1>7, <2>2 DEF FundsAccounted
  <2>3. QED
    BY <2>1, <2>2
<1>9. SellerPaidAsSigned'
  <2> SUFFICES ASSUME NEW c \in ChannelId, ledger'[c].toSeller > 0
               PROVE  \E v \in vouchers :
                        /\ v.channelId = c
                        /\ v.amount = ledger'[c].toSeller
                        /\ v.expiresAt = channels'[c].expiresAt
                        /\ v.nonce = channels'[c].nonce
    BY <1>2 DEF SellerPaidAsSigned
  <2>1. c # id
    BY <1>6
  <2>2. QED
    BY <1>7, <2>1 DEF SellerPaidAsSigned
<1>10. QED
  BY <1>5, <1>8, <1>9

\* Claims, closes and cancels are endings.
LEMMA ClaimStep ==
  ASSUME TypeOK, FundsAccounted, SellerPaidAsSigned,
         NEW a \in Account, NEW v \in Voucher, claimPayment(a, v)
  PROVE  TypeOK' /\ FundsAccounted' /\ SellerPaidAsSigned'
<1> DEFINE id == v.channelId
           refund == channels[id].totalDeposit - v.amount
<1>1. /\ id \in ChannelId
      /\ v.nonce \in Nat
      /\ v.amount \in Nat
  BY ChannelAssumption DEF Voucher
<1>2. /\ channels[id].isActive
      /\ v.expiresAt = channels[id].expiresAt
      /\ v.amount <= channels[id].totalDeposit
      /\ v \in vouchers
      /\ channels' = [channels EXCEPT ![id] = Ended(@, v.nonce)]
      /\ Payout(id, v.amount, refund)
      /\ UNCHANGED <<now, allowance, vouchers, cancellations>>
  BY DEF claimPayment
<1>3. channels[id].totalDeposit \in Nat
  BY <1>1 DEF TypeOK, PaymentChannel
<1>4. refund \in Nat /\ v.amount + refund = channels[id].totalDeposit
  BY <1>1, <1>2, <1>3
<1> HIDE DEF id, refund
<1>5. \E w \in vouchers : /\ w.channelId = id
                          /\ w.amount = v.amount
                          /\ w.expiresAt = channels[id].expiresAt
                          /\ w.nonce = v.nonce
  BY <1>2 DEF id
<1>6. QED
  BY <1>1, <1>2, <1>4, <1>5, EndingStep

LEMMA FullRefundStep ==
  ASSUME TypeOK, FundsAccounted, SellerPaidAsSigned,
         NEW id \in ChannelId, channels[id].isActive,
         channels' = [channels EXCEPT ![id] = Ended(@, @.nonce)],
         Payout(id, 0, channels[id].totalDeposit),
         UNCHANGED <<now, allowance, vouchers, cancellations>>
  PROVE  TypeOK' /\ FundsAccounted' /\ SellerPaidAsSigned'
<1> DEFINE deposit == channels[id].totalDeposit
           nonce == channels[id].nonce
<1>1. /\ deposit \in Nat /\ nonce \in Nat
      /\ 0 \in Nat /\ 0 + deposit = channels[id].totalDeposit
  BY DEF TypeOK, PaymentChannel
<1>2. /\ Payout(id, 0, deposit)
      /\ channels' = [channels EXCEPT ![id] = Ended(@, nonce)]
  OBVIOUS
<1> HIDE DEF deposit, nonce
<1>3. ~(0 > 0)
  OBVIOUS
<1>4. QED
  BY <1>1, <1>2, <1>3, EndingStep

\* Everything else leaves the channels and their history alone.
LEMMA QuietStep ==
  ASSUME TypeOK, FundsAccounted, SellerPaidAsSigned,
         UNCHANGED <<channels, wallet, escrow, ledger>>,
         now' \in Time,
         allowance' \in [Token -> [Buyer -> Nat]],
         vouchers \subseteq vouchers', vouchers' \subseteq Voucher,
         cancellations' \subseteq Cancellation
  PROVE  TypeOK' /\ FundsAccounted' /\ SellerPaidAsSigned'
<1>1. TypeOK'
  BY DEF TypeOK
<1>2. FundsAccounted'
  BY DEF FundsAccounted
<1>3. SellerPaidAsSigned'
  <2> SUFFICES ASSUME NEW c \in ChannelId, ledger[c].toSeller > 0
               PROVE  \E v \in vouchers' :
                        /\ v.channelId = c
                        /\ v.amount = ledger[c].toSeller
                        /\ v.expiresAt = channels[c].expiresAt
                        /\ v.nonce = channels[c].nonce
    BY DEF SellerPaidAsSigned
  <2>1. PICK v \in vouchers : /\ v.channelId = c
                              /\ v.amount = ledger[c].toSeller
                              /\ v.expiresAt = channels[c].expiresAt
                              /\ v.nonce = channels[c].nonce
    BY DEF SellerPaidAsSigned
  <2>2. QED
    BY <2>1
<1>4. QED
  BY <1>1, <1>2, <1>3

\* A cancel signature copies the deposit and the expiry of a channel struct.
LEMMA SignCancelStep ==
  ASSUME TypeOK, FundsAccounted, SellerPaidAsSigned,
         NEW a \in Account, NEW id \in ChannelId, signCancel(a, id)
  PROVE  TypeOK' /\ FundsAccounted' /\ SellerPaidAsSigned'
<1>1. channels[id] \in PaymentChannel
  BY DEF TypeOK
<1>2. [signer |-> a, channelId |-> id,
       totalDeposit |-> channels[id].totalDeposit,
       expiresAt |-> channels[id].expiresAt] \in Cancellation
  BY <1>1 DEF Cancellation, PaymentChannel
<1>3. QED
  BY <1>2, QuietStep DEF signCancel, TypeOK

LEMMA NextStep ==
  TypeOK /\ FundsAccounted /\ SellerPaidAsSigned /\ [Next]_vars
    => TypeOK' /\ FundsAccounted' /\ SellerPaidAsSigned'
<1> SUFFICES ASSUME TypeOK, FundsAccounted, SellerPaidAsSigned, [Next]_vars
             PROVE  TypeOK' /\ FundsAccounted' /\ SellerPaidAsSigned'
  OBVIOUS
<1>1. CASE Tick
  <2>1. now' \in Time
    BY <1>1, ChannelAssumption DEF Tick, TypeOK, Time
  <2>2. QED
    BY <1>1, <2>1, QuietStep DEF Tick, TypeOK
<1>2. ASSUME NEW a \in Buyer, NEW t \in Token, NEW amount \in Amount,
             approve(a, t, amount)
      PROVE  TypeOK' /\ FundsAccounted' /\ SellerPaidAsSigned'
  <2>1. allowance' \in [Token -> [Buyer -> Nat]]
    BY <1>2, ChannelAssumption DEF approve, TypeOK
  <2>2. QED
    BY <1>2, <2>1, QuietStep DEF approve, TypeOK
<1>3. ASSUME NEW v \in Voucher, signVoucher(v)
      PROVE  TypeOK' /\ FundsAccounted' /\ SellerPaidAsSigned'
  BY <1>3, QuietStep DEF signVoucher, TypeOK
<1>4. ASSUME NEW a \in Account, NEW id \in ChannelId, closeChannel(a, id)
      PROVE  TypeOK' /\ FundsAccounted' /\ SellerPaidAsSigned'
  BY <1>4, FullRefundStep DEF closeChannel
<1>5. ASSUME NEW a \in Account, NEW id \in ChannelId, cancelChannel(a, id)
      PROVE  TypeOK' /\ FundsAccounted' /\ SellerPaidAsSigned'
  BY <1>5, FullRefundStep DEF cancelChannel
<1>6. CASE UNCHANGED vars
  BY <1>6, QuietStep DEF vars, TypeOK
<1>7. QED
  BY <1>1, <1>2, <1>3, <1>4, <1>5, <1>6, SignCancelStep, InitializeStep,
     ClaimStep DEF Next

LEMMA Invariance == Spec => [](TypeOK /\ FundsAccounted /\ SellerPaidAsSigned)
<1>1. Init => TypeOK /\ FundsAccounted /\ SellerPaidAsSigned
  BY InitIInv DEF Init, SellerPaidAsSigned
<1>2. QED
  BY <1>1, NextStep, PTL DEF Spec

\* The variables of the contract keep their types.
THEOREM TypeCorrect == Spec => []TypeOK
  BY Invariance, PTL

\* Each opening of each channel is accounted for on its own: claimPayment,
\* closeChannel and cancelChannel together pay out what initializeChannel
\* took in, no more and no less, and an ended channel keeps nothing.
THEOREM EveryOpeningAccounted == Spec => []FundsAccounted
  BY Invariance, PTL

\* A seller is never paid anything but the amount of one voucher its buyer
\* signed for that channel and expiry.
THEOREM PaidOnlyAsSigned == Spec => []SellerPaidAsSigned
  BY Invariance, PTL

-----------------------------------------------------------------------------

\* An ending that pays the seller, comes at the expiry or is signed by both is
\* an agreed one.
LEMMA EarlyEnding ==
  ASSUME TypeOK, FundsAccounted, EarlyRefundIsAgreed,
         NEW id \in ChannelId, channels[id].isActive,
         NEW n \in Nat, NEW toSeller \in Nat, NEW toBuyer \in Nat,
         channels' = [channels EXCEPT ![id] = Ended(@, n)],
         Payout(id, toSeller, toBuyer), UNCHANGED <<now, cancellations>>,
         \/ toSeller > 0
         \/ now >= channels[id].expiresAt
         \/ CancelSignedBy(id.buyer, id) /\ CancelSignedBy(id.seller, id)
  PROVE  EarlyRefundIsAgreed'
<1>1. /\ ledger' = [ledger EXCEPT ![id] =
           [deposited |-> ledger[id].deposited,
            toSeller |-> ledger[id].toSeller + toSeller,
            toBuyer |-> ledger[id].toBuyer + toBuyer]]
      /\ channels' = [channels EXCEPT ![id] = Ended(channels[id], n)]
  BY PayoutEffect
<1>2. /\ ledger[id].toSeller = 0 /\ ledger[id].deposited = channels[id].totalDeposit
      /\ channels[id].expiresAt \in Nat /\ now \in Nat
  BY ChannelAssumption DEF TypeOK, FundsAccounted, PaymentChannel, Time
<1> SUFFICES ASSUME NEW c \in ChannelId, ledger'[c].toBuyer > 0, now < channels'[c].expiresAt
             PROVE  \/ ledger'[c].toSeller > 0
                    \/ \A signer \in {c.buyer, c.seller} :
                         [signer |-> signer, channelId |-> c,
                          totalDeposit |-> ledger'[c].deposited,
                          expiresAt |-> channels'[c].expiresAt] \in cancellations
  BY DEF EarlyRefundIsAgreed
<1>3. CASE c = id
  <2>1. /\ channels'[c].expiresAt = channels[id].expiresAt
        /\ ledger'[c].toSeller = toSeller /\ ledger'[c].deposited = channels[id].totalDeposit
    BY <1>1, <1>2, <1>3 DEF TypeOK, Ended
  <2>2. toSeller > 0 \/ (CancelSignedBy(id.buyer, id) /\ CancelSignedBy(id.seller, id))
    BY <1>2, <2>1
  <2> QED
    BY <1>3, <2>1, <2>2 DEF CancelSignedBy
<1>4. CASE c # id
  <2>1. channels'[c] = channels[c] /\ ledger'[c] = ledger[c]
    BY <1>1, <1>4 DEF TypeOK
  <2> QED
    BY <2>1 DEF EarlyRefundIsAgreed
<1> QED
  BY <1>3, <1>4

\* Time only passes, and signatures are only added.
LEMMA EarlyQuiet ==
  ASSUME TypeOK, EarlyRefundIsAgreed, UNCHANGED <<channels, ledger>>,
         now' \in Nat, now <= now', cancellations \subseteq cancellations'
  PROVE  EarlyRefundIsAgreed'
<1>1. \A c \in ChannelId : channels[c].expiresAt \in Nat
  BY DEF TypeOK, PaymentChannel
<1>2. now \in Nat
  BY ChannelAssumption DEF TypeOK, Time
<1> QED
  BY <1>1, <1>2 DEF EarlyRefundIsAgreed

LEMMA EarlyStep ==
  ASSUME TypeOK, FundsAccounted, EarlyRefundIsAgreed, [Next]_vars
  PROVE  EarlyRefundIsAgreed'
<1>1. now \in Nat
  BY ChannelAssumption DEF TypeOK, Time
<1>2. CASE Tick \/ UNCHANGED vars
  BY <1>1, <1>2, EarlyQuiet DEF Tick, vars
<1>3. CASE \/ \E a \in Buyer, t \in Token, amount \in Amount : approve(a, t, amount)
           \/ \E v \in Voucher : signVoucher(v)
           \/ \E a \in Account, id \in ChannelId : signCancel(a, id)
  BY <1>1, <1>3, EarlyQuiet DEF approve, signVoucher, signCancel
<1>4. ASSUME NEW a \in Buyer, NEW s \in Seller, NEW t \in Token, NEW d \in Amount,
             NEW e \in Time, NEW x \in Salt, initializeChannel(a, s, t, d, e, x)
      PROVE  EarlyRefundIsAgreed'
  <2> DEFINE id == channelIdOf(a, s, t, x)
           struct == [totalDeposit |-> d, nonce |-> 0, expiresAt |-> e, isActive |-> TRUE]
  <2>1. id \in ChannelId
    BY DEF channelIdOf, ChannelId
  <2>2. /\ ledger' = [ledger EXCEPT ![id] = [deposited |-> d, toSeller |-> 0, toBuyer |-> 0]]
        /\ channels' = [channels EXCEPT ![id] = struct]
        /\ UNCHANGED <<now, cancellations>>
    BY <1>4 DEF initializeChannel
  <2> HIDE DEF id, struct
  <2>3. /\ ledger'[id].toBuyer = 0
        /\ \A c \in ChannelId \ {id} : ledger'[c] = ledger[c] /\ channels'[c] = channels[c]
    BY <2>1, <2>2 DEF TypeOK
  <2> QED
    BY <2>2, <2>3 DEF EarlyRefundIsAgreed
<1>5. ASSUME NEW a \in Account, NEW v \in Voucher, claimPayment(a, v)
      PROVE  EarlyRefundIsAgreed'
  <2> DEFINE id == v.channelId
             refund == channels[id].totalDeposit - v.amount
  <2>1. id \in ChannelId /\ v.nonce \in Nat /\ v.amount \in Nat /\ v.amount > 0
    <3>1. id \in ChannelId /\ v.nonce \in Nat /\ v.amount \in Nat \ {0}
      BY ChannelAssumption DEF Voucher
    <3> QED
      BY <3>1
  <2>2. /\ channels[id].isActive /\ v.amount <= channels[id].totalDeposit
        /\ channels' = [channels EXCEPT ![id] = Ended(@, v.nonce)]
        /\ Payout(id, v.amount, refund) /\ UNCHANGED <<now, cancellations>>
    BY <1>5 DEF claimPayment
  <2>3. refund \in Nat
    BY <2>1, <2>2 DEF TypeOK, PaymentChannel
  <2> HIDE DEF id, refund
  <2> QED
    BY <2>1, <2>2, <2>3, EarlyEnding
<1>6. ASSUME NEW a \in Account, NEW id \in ChannelId,
             closeChannel(a, id) \/ cancelChannel(a, id)
      PROVE  EarlyRefundIsAgreed'
  <2> DEFINE deposit == channels[id].totalDeposit
             nonce == channels[id].nonce
  <2>1. deposit \in Nat /\ nonce \in Nat /\ 0 \in Nat
    BY DEF TypeOK, PaymentChannel
  <2>2. /\ channels[id].isActive /\ Payout(id, 0, deposit)
        /\ channels' = [channels EXCEPT ![id] = Ended(@, nonce)]
        /\ UNCHANGED <<now, cancellations>>
        /\ \/ now >= channels[id].expiresAt
           \/ CancelSignedBy(id.buyer, id) /\ CancelSignedBy(id.seller, id)
    BY <1>6 DEF closeChannel, cancelChannel
  <2> HIDE DEF deposit, nonce
  <2> QED
    BY <2>1, <2>2, EarlyEnding
<1> QED
  BY <1>2, <1>3, <1>4, <1>5, <1>6 DEF Next

\* Before the expiry the buyer gets the deposit back only beside a claim, or with
\* both signatures on the digest of that deposit and expiry (cancelChannel,
\* closeChannel).
THEOREM EarlyRefundsAreAgreed == Spec => []EarlyRefundIsAgreed
<1>1. Init => EarlyRefundIsAgreed
  BY DEF Init, EarlyRefundIsAgreed
<1> QED
  BY <1>1, EarlyStep, Invariance, PTL DEF Spec

-----------------------------------------------------------------------------

\* The abstract channel does not see steps that keep structs and history.
LEMMA QuietRefines ==
  ASSUME UNCHANGED <<channels, ledger>>
  PROVE  UNCHANGED Escrow!escrowVars
  BY DEF Escrow!escrowVars, PhaseOf

\* An initialization is an abstract Open.
LEMMA InitializeRefines ==
  ASSUME TypeOK, FundsAccounted,
         NEW a \in Buyer, NEW s \in Seller, NEW t \in Token, NEW d \in Amount,
         NEW e \in Time, NEW x \in Salt,
         initializeChannel(a, s, t, d, e, x)
  PROVE  \E id \in ChannelId : Escrow!Open(id)
<1> DEFINE id == channelIdOf(a, s, t, x)
           struct == [totalDeposit |-> d, nonce |-> 0, expiresAt |-> e,
                      isActive |-> TRUE]
           entry == [deposited |-> d, toSeller |-> 0, toBuyer |-> 0]
<1>1. /\ id \in ChannelId
      /\ d \in Nat /\ d > 0
  BY ChannelAssumption DEF channelIdOf, ChannelId
<1>2. /\ ~channels[id].isActive
      /\ channels' = [channels EXCEPT ![id] = struct]
      /\ ledger' = [ledger EXCEPT ![id] = entry]
  BY DEF initializeChannel
<1> HIDE DEF id
<1>3. channels'[id] = struct /\ ledger'[id] = entry
  BY <1>1, <1>2 DEF TypeOK
<1>4. \A c \in ChannelId \ {id} :
        channels'[c] = channels[c] /\ ledger'[c] = ledger[c]
  BY <1>2 DEF TypeOK
<1>5. PhaseOf(id) # "open" /\ PhaseOf(id)' = "open"
  BY <1>2, <1>3 DEF PhaseOf
<1>6. \A c \in ChannelId \ {id} : PhaseOf(c)' = PhaseOf(c)
  BY <1>4 DEF PhaseOf
<1>7. [c \in ChannelId |-> PhaseOf(c)]'
        = [[c \in ChannelId |-> PhaseOf(c)] EXCEPT ![id] = "open"]
  BY <1>5, <1>6
<1>8. [c \in ChannelId |-> channels[c].totalDeposit]'
        = [[c \in ChannelId |-> channels[c].totalDeposit] EXCEPT ![id] = d]
  <2>1. \A c \in ChannelId :
          channels'[c].totalDeposit = IF c = id THEN d
                                      ELSE channels[c].totalDeposit
    BY <1>3, <1>4
  <2>2. QED
    BY <2>1, Zenon
<1>9. [c \in ChannelId |-> ledger[c].toSeller]'
        = [[c \in ChannelId |-> ledger[c].toSeller] EXCEPT ![id] = 0]
  <2>1. \A c \in ChannelId :
          ledger'[c].toSeller = IF c = id THEN 0 ELSE ledger[c].toSeller
    BY <1>3, <1>4
  <2>2. QED
    BY <2>1, Zenon
<1>10. Escrow!Open(id)
  BY <1>1, <1>3, <1>5, <1>7, <1>8, <1>9 DEF Escrow!Open
<1>11. QED
  BY <1>1, <1>10

\* An ending is an abstract Claim when the seller is paid, a Refund otherwise.
LEMMA EndingRefines ==
  ASSUME TypeOK, FundsAccounted,
         NEW id \in ChannelId, channels[id].isActive,
         NEW n \in Nat, NEW toSeller \in Nat, NEW toBuyer \in Nat,
         toSeller + toBuyer = channels[id].totalDeposit,
         channels' = [channels EXCEPT ![id] = Ended(@, n)],
         Payout(id, toSeller, toBuyer)
  PROVE  Escrow!Claim(id) \/ Escrow!Refund(id)
<1>1. channels'[id] = Ended(channels[id], n)
  BY DEF TypeOK
<1>2. ledger' = [ledger EXCEPT ![id] =
         [deposited |-> ledger[id].deposited,
          toSeller |-> ledger[id].toSeller + toSeller,
          toBuyer |-> ledger[id].toBuyer + toBuyer]]
  BY PayoutEffect
<1>3. /\ ledger[id] \in [deposited : Nat, toSeller : Nat, toBuyer : Nat]
      /\ ledger[id].toSeller = 0 /\ ledger[id].toBuyer = 0
      /\ channels[id].totalDeposit \in Nat /\ channels[id].totalDeposit > 0
  BY DEF TypeOK, FundsAccounted, PaymentChannel
<1>4. ledger'[id].toSeller = toSeller /\ ledger'[id].toBuyer = toBuyer
  BY <1>2, <1>3 DEF TypeOK
<1>5. \A c \in ChannelId \ {id} :
        channels'[c] = channels[c] /\ ledger'[c] = ledger[c]
  BY <1>2 DEF TypeOK
<1>6. \A c \in ChannelId \ {id} : PhaseOf(c)' = PhaseOf(c)
  BY <1>5 DEF PhaseOf
<1>7. PhaseOf(id) = "open" /\ channels'[id].totalDeposit = 0
  BY <1>1 DEF PhaseOf, Ended
<1>8. [c \in ChannelId |-> channels[c].totalDeposit]'
        = [[c \in ChannelId |-> channels[c].totalDeposit] EXCEPT ![id] = 0]
  <2>1. \A c \in ChannelId :
          channels'[c].totalDeposit = IF c = id THEN 0
                                      ELSE channels[c].totalDeposit
    BY <1>5, <1>7
  <2>2. QED
    BY <2>1, Zenon
<1>9. CASE toSeller > 0
  <2>1. PhaseOf(id)' = "claimed"
    BY <1>1, <1>4, <1>9 DEF PhaseOf, Ended
  <2>2. toSeller \in 1 .. channels[id].totalDeposit
    BY <1>3, <1>9
  <2>3. [c \in ChannelId |-> PhaseOf(c)]'
          = [[c \in ChannelId |-> PhaseOf(c)] EXCEPT ![id] = "claimed"]
    BY <1>6, <2>1
  <2>4. [c \in ChannelId |-> ledger[c].toSeller]'
          = [[c \in ChannelId |-> ledger[c].toSeller] EXCEPT ![id] = toSeller]
    BY <1>4, <1>5
  <2>5. Escrow!Claim(id)
    BY <1>4, <1>7, <2>2, <2>3, <2>4, <1>8 DEF Escrow!Claim
  <2>6. QED
    BY <2>5
<1>10. CASE toSeller = 0
  <2>1. PhaseOf(id)' = "refunded"
    BY <1>1, <1>3, <1>4, <1>10 DEF PhaseOf, Ended
  <2>2. [c \in ChannelId |-> PhaseOf(c)]'
          = [[c \in ChannelId |-> PhaseOf(c)] EXCEPT ![id] = "refunded"]
    BY <1>6, <2>1
  <2>3. \A c \in ChannelId : ledger'[c].toSeller = ledger[c].toSeller
    BY <1>3, <1>4, <1>5, <1>10
  <2>4. UNCHANGED [c \in ChannelId |-> ledger[c].toSeller]
    BY <2>3
  <2>5. Escrow!Refund(id)
    BY <1>7, <1>8, <2>2, <2>4 DEF Escrow!Refund
  <2>6. QED
    BY <2>5
<1>11. QED
  BY <1>9, <1>10

LEMMA StepRefines ==
  ASSUME TypeOK, FundsAccounted, [Next]_vars
  PROVE  [Escrow!Next]_(Escrow!escrowVars)
<1>1. CASE Tick
  BY <1>1, QuietRefines DEF Tick
<1>2. ASSUME NEW a \in Buyer, NEW t \in Token, NEW amount \in Amount,
             approve(a, t, amount)
      PROVE  UNCHANGED Escrow!escrowVars
  BY <1>2, QuietRefines DEF approve
<1>3. ASSUME NEW v \in Voucher, signVoucher(v)
      PROVE  UNCHANGED Escrow!escrowVars
  BY <1>3, QuietRefines DEF signVoucher
<1>4. ASSUME NEW a \in Account, NEW id \in ChannelId, signCancel(a, id)
      PROVE  UNCHANGED Escrow!escrowVars
  BY <1>4, QuietRefines DEF signCancel
<1>5. ASSUME NEW id \in ChannelId, channels[id].isActive,
             channels' = [channels EXCEPT ![id] = Ended(@, @.nonce)],
             Payout(id, 0, channels[id].totalDeposit)
      PROVE  Escrow!Next
  <2> DEFINE deposit == channels[id].totalDeposit
             nonce == channels[id].nonce
  <2>1. /\ deposit \in Nat /\ nonce \in Nat
        /\ 0 \in Nat /\ 0 + deposit = channels[id].totalDeposit
    BY DEF TypeOK, PaymentChannel
  <2>2. /\ Payout(id, 0, deposit)
        /\ channels' = [channels EXCEPT ![id] = Ended(@, nonce)]
    BY <1>5
  <2> HIDE DEF deposit, nonce
  <2>3. Escrow!Claim(id) \/ Escrow!Refund(id)
    BY <1>5, <2>1, <2>2, EndingRefines
  <2>4. QED
    BY <2>3 DEF Escrow!Next
<1>6. ASSUME NEW a \in Account, NEW v \in Voucher, claimPayment(a, v)
      PROVE  Escrow!Next
  <2> DEFINE id == v.channelId
             refund == channels[id].totalDeposit - v.amount
  <2>1. /\ id \in ChannelId
        /\ v.nonce \in Nat
        /\ v.amount \in Nat
    BY ChannelAssumption DEF Voucher
  <2>2. /\ channels[id].isActive
        /\ v.amount <= channels[id].totalDeposit
        /\ channels' = [channels EXCEPT ![id] = Ended(@, v.nonce)]
        /\ Payout(id, v.amount, refund)
    BY <1>6 DEF claimPayment
  <2>3. channels[id].totalDeposit \in Nat
    BY <2>1 DEF TypeOK, PaymentChannel
  <2>4. refund \in Nat /\ v.amount + refund = channels[id].totalDeposit
    BY <2>1, <2>2, <2>3
  <2> HIDE DEF id, refund
  <2>5. Escrow!Claim(id) \/ Escrow!Refund(id)
    BY <2>1, <2>2, <2>4, EndingRefines
  <2>6. QED
    BY <2>1, <2>5 DEF Escrow!Next
<1>7. CASE UNCHANGED vars
  BY <1>7, QuietRefines DEF vars
<1>8. ASSUME NEW a \in Account, NEW id \in ChannelId,
             closeChannel(a, id) \/ cancelChannel(a, id)
      PROVE  Escrow!Next
  BY <1>5, <1>8 DEF closeChannel, cancelChannel
<1>9. ASSUME NEW a \in Buyer, NEW s \in Seller, NEW t \in Token, NEW d \in Amount,
             NEW e \in Time, NEW x \in Salt,
             initializeChannel(a, s, t, d, e, x)
      PROVE  Escrow!Next
  BY <1>9, InitializeRefines DEF Escrow!Next
<1>10. QED
  BY <1>1, <1>2, <1>3, <1>4, <1>6, <1>7, <1>8, <1>9 DEF Next

\* The contract implements the abstract escrow: whatever calls arrive, in
\* whatever order, each opening ends at most once, by a claim within its
\* deposit or by a refund of all of it.
THEOREM ContractImplementsEscrow == Spec => ImplementsEscrow
<1>1. Init => Escrow!Init
  BY DEF Init, Escrow!Init, PhaseOf, EmptyChannel
<1>2. QED
  BY <1>1, StepRefines, Invariance, PTL DEF Spec, ImplementsEscrow, Escrow!Spec

-----------------------------------------------------------------------------

\* Sums over the channels of a token and over all accounts are finite.
LEMMA FiniteSums ==
  /\ IsFiniteSet(Account)
  /\ IsFiniteSet(ChannelId)
  /\ \A t \in Token : IsFiniteSet({id \in ChannelId : id.token = t})
<1> DEFINE P == ((Buyer \X Seller) \X Token) \X Salt
           f == [id \in ChannelId |->
                   <<<<<<id.buyer, id.seller>>, id.token>>, id.salt>>]
<1>1. IsFiniteSet(Account)
  BY ChannelAssumption, FS_Union DEF Account
<1>2. IsFiniteSet(P)
  <2>1. IsFiniteSet(Buyer \X Seller)
    BY ChannelAssumption, FS_Product
  <2>2. IsFiniteSet((Buyer \X Seller) \X Token)
    BY <2>1, ChannelAssumption, FS_Product
  <2>3. QED
    BY <2>2, ChannelAssumption, FS_Product
<1>3. f \in Injection(ChannelId, P)
  <2>1. f \in [ChannelId -> P]
    BY DEF ChannelId
  <2>2. \A c, d \in ChannelId : f[c] = f[d] => c = d
    BY DEF ChannelId
  <2>3. QED
    BY <2>1, <2>2 DEF Injection, IsInjective
<1>4. IsFiniteSet(ChannelId)
  <2> HIDE DEF f, P
  <2>1. QED
    BY <1>2, <1>3, FS_Injection
<1>5. QED
  BY <1>1, <1>4, FS_Subset

\* The two things that the sums are taken over.
LEMMA SummedTypes ==
  ASSUME TypeOK
  PROVE  /\ \A id \in ChannelId : Deposits[id] \in Nat
         /\ \A t \in Token : \A a \in Account : wallet[t][a] \in Nat
         /\ \A t \in Token : escrow[t] \in Nat
  BY DEF TypeOK, Deposits, PaymentChannel

\* A token whose channels, balances and escrow stay is conserved.
LEMMA UntouchedToken ==
  ASSUME TypeOK, FundsConserved, NEW t \in Token,
         escrow'[t] = escrow[t], \A a \in Account : wallet'[t][a] = wallet[t][a],
         \A id \in ChannelId :
           id.token = t => channels'[id].totalDeposit = channels[id].totalDeposit
  PROVE  /\ escrow'[t] = SumFunctionOnSet(Deposits', {id \in ChannelId : id.token = t})
         /\ escrow'[t] + SumFunctionOnSet(wallet'[t], Account)
              = Supply * Cardinality(Account)
<1> DEFINE S == {id \in ChannelId : id.token = t}
<1>1. SumFunctionOnSet(Deposits', S) = SumFunctionOnSet(Deposits, S)
  <2>1. \A id \in S : Deposits'[id] = Deposits[id]
    BY DEF Deposits
  <2>2. IsFiniteSet(S)
    BY FiniteSums
  <2> HIDE DEF S
  <2>3. QED
    BY <2>1, <2>2, SumEqual
<1>2. SumFunctionOnSet(wallet'[t], Account) = SumFunctionOnSet(wallet[t], Account)
  BY FiniteSums, SumEqual
<1>3. QED
  BY <1>1, <1>2 DEF FundsConserved

\* The sum of the deposits of a token follows the one channel that changes.
LEMMA OneDepositChanges ==
  ASSUME TypeOK, TypeOK', NEW id \in ChannelId,
         \A c \in ChannelId \ {id} : channels'[c] = channels[c]
  PROVE  SumFunctionOnSet(Deposits', {c \in ChannelId : c.token = id.token})
             + channels[id].totalDeposit
           = SumFunctionOnSet(Deposits, {c \in ChannelId : c.token = id.token})
             + channels'[id].totalDeposit
<1> DEFINE S == {c \in ChannelId : c.token = id.token}
           f == Deposits
           g == Deposits'
<1>1. IsFiniteSet(S)
  <2>1. id.token \in Token
    BY DEF ChannelId
  <2>2. QED
    BY <2>1, FiniteSums
<1>2. id \in S
  OBVIOUS
<1>3. \A c \in S : f[c] \in Nat /\ g[c] \in Nat
  BY DEF TypeOK, Deposits, PaymentChannel
<1>4. \A c \in S : c # id => g[c] = f[c]
  BY DEF Deposits
<1>5. f[id] = channels[id].totalDeposit /\ g[id] = channels'[id].totalDeposit
  BY DEF Deposits
<1>6. SumFunctionOnSet(g, S) + f[id] = SumFunctionOnSet(f, S) + g[id]
  <2> HIDE DEF S, f, g
  <2>1. QED
    BY <1>1, <1>2, <1>3, <1>4, SumChange
<1>7. QED
  BY <1>5, <1>6

\* An ending pays the deposit to two accounts, which may be the same one.
LEMMA EndingConserves ==
  ASSUME TypeOK, TypeOK', FundsConserved, NEW id \in ChannelId,
         NEW n \in Nat, NEW toSeller \in Nat, NEW toBuyer \in Nat,
         toSeller + toBuyer = channels[id].totalDeposit,
         channels' = [channels EXCEPT ![id] = Ended(@, n)],
         Payout(id, toSeller, toBuyer)
  PROVE  FundsConserved'
<1> DEFINE mid == [a \in Account |-> wallet[id.token][a]
                     + (IF a = id.seller THEN toSeller ELSE 0)]
           old == wallet[id.token]
           new == wallet'[id.token]
<1>1. id.token \in Token /\ id.buyer \in Account /\ id.seller \in Account
  BY DEF ChannelId, Account
<1>2. /\ \A c \in ChannelId \ {id} : channels'[c] = channels[c]
      /\ channels'[id].totalDeposit = 0
  BY DEF TypeOK, Ended
<1>3. /\ \A t \in Token \ {id.token} : escrow'[t] = escrow[t] /\ wallet'[t] = wallet[t]
      /\ escrow'[id.token] = escrow[id.token] - (toSeller + toBuyer)
      /\ \A a \in Account :
           new[a] = old[a] + (IF a = id.seller THEN toSeller ELSE 0)
                           + (IF a = id.buyer THEN toBuyer ELSE 0)
  BY <1>1 DEF TypeOK, Payout
<1>4. /\ \A a \in Account : old[a] \in Nat /\ mid[a] \in Nat /\ new[a] \in Nat
      /\ escrow[id.token] \in Nat
      /\ channels[id].totalDeposit \in Nat
  BY <1>1, <1>3, SummedTypes DEF TypeOK, PaymentChannel
<1>5. SumFunctionOnSet(mid, Account) = SumFunctionOnSet(old, Account) + toSeller
  <2>1. /\ \A a \in Account : a # id.seller => mid[a] = old[a]
        /\ mid[id.seller] = old[id.seller] + toSeller
    BY <1>1, <1>4
  <2>2. SumFunctionOnSet(old, Account) \in Nat /\ SumFunctionOnSet(mid, Account) \in Nat
    <3> HIDE DEF mid, old, new
    <3>1. QED
      BY <1>4, FiniteSums, SumType
  <2>3. SumFunctionOnSet(mid, Account) + old[id.seller]
          = SumFunctionOnSet(old, Account) + mid[id.seller]
    <3> HIDE DEF mid, old, new
    <3>1. QED
      BY <1>1, <1>4, <2>1, FiniteSums, SumChange
  <2> HIDE DEF mid, old, new
  <2>4. QED
    BY <1>1, <1>4, <2>1, <2>2, <2>3
<1>6. SumFunctionOnSet(new, Account) = SumFunctionOnSet(mid, Account) + toBuyer
  <2>1. /\ \A a \in Account : a # id.buyer => new[a] = mid[a]
        /\ new[id.buyer] = mid[id.buyer] + toBuyer
    BY <1>1, <1>3, <1>4
  <2>2. SumFunctionOnSet(new, Account) \in Nat /\ SumFunctionOnSet(mid, Account) \in Nat
    <3> HIDE DEF mid, old, new
    <3>1. QED
      BY <1>4, FiniteSums, SumType
  <2>3. SumFunctionOnSet(new, Account) + mid[id.buyer]
          = SumFunctionOnSet(mid, Account) + new[id.buyer]
    <3> HIDE DEF mid, old, new
    <3>1. QED
      BY <1>1, <1>4, <2>1, FiniteSums, SumChange
  <2> HIDE DEF mid, old, new
  <2>4. QED
    BY <1>1, <1>4, <2>1, <2>2, <2>3
<1>7. SUFFICES ASSUME NEW t \in Token
      PROVE  /\ escrow'[t] = SumFunctionOnSet(Deposits', {c \in ChannelId : c.token = t})
             /\ escrow'[t] + SumFunctionOnSet(wallet'[t], Account)
                  = Supply * Cardinality(Account)
  BY DEF FundsConserved
<1>8. CASE t # id.token
  <2>1. /\ escrow'[t] = escrow[t]
        /\ \A a \in Account : wallet'[t][a] = wallet[t][a]
        /\ \A c \in ChannelId :
             c.token = t => channels'[c].totalDeposit = channels[c].totalDeposit
    BY <1>2, <1>3, <1>8
  <2>2. QED
    BY <2>1, UntouchedToken
<1>9. CASE t = id.token
  <2> DEFINE before == SumFunctionOnSet(Deposits, {c \in ChannelId : c.token = id.token})
             after == SumFunctionOnSet(Deposits', {c \in ChannelId : c.token = id.token})
  <2>1. after + channels[id].totalDeposit = before + channels'[id].totalDeposit
    BY <1>2, OneDepositChanges
  <2>2. /\ escrow[id.token] = before
        /\ escrow[id.token] + SumFunctionOnSet(old, Account) = Supply * Cardinality(Account)
    BY <1>1 DEF FundsConserved
  <2>3. after \in Nat
    <3>1. \A c \in {d \in ChannelId : d.token = id.token} : Deposits'[c] \in Nat
      BY DEF TypeOK, Deposits, PaymentChannel
    <3>2. QED
      BY <1>1, <3>1, FiniteSums, SumType
  <2>4. SumFunctionOnSet(old, Account) \in Nat
    <3> HIDE DEF mid, old, new
    <3>1. QED
      BY <1>4, FiniteSums, SumType
  <2> HIDE DEF before, after, mid, old, new
  <2>5. escrow'[id.token] = after
    BY <1>2, <1>3, <1>4, <2>1, <2>2, <2>3
  <2>6. escrow'[id.token] + SumFunctionOnSet(new, Account) = Supply * Cardinality(Account)
    BY <1>3, <1>4, <1>5, <1>6, <2>2, <2>4
  <2>7. QED
    BY <1>9, <2>5, <2>6 DEF after, new
<1>10. QED
  BY <1>8, <1>9

\* An opening moves its deposit from the buyer's balance into the escrow.
LEMMA InitializeConserves ==
  ASSUME TypeOK, TypeOK', FundsConserved,
         NEW a \in Buyer, NEW s \in Seller, NEW k \in Token, NEW d \in Amount,
         NEW e \in Time, NEW x \in Salt, FundsAccounted,
         initializeChannel(a, s, k, d, e, x)
  PROVE  FundsConserved'
<1> DEFINE id == channelIdOf(a, s, k, x)
           old == wallet[k]
           new == wallet'[k]
<1>1. id \in ChannelId /\ id.token = k /\ a \in Account
  BY DEF channelIdOf, ChannelId, Account
<1>2. /\ channels' = [channels EXCEPT ![id] =
           [totalDeposit |-> d, nonce |-> 0, expiresAt |-> e, isActive |-> TRUE]]
      /\ ~channels[id].isActive
      /\ wallet[k][a] >= d
      /\ wallet' = [wallet EXCEPT ![k][a] = @ - d]
      /\ escrow' = [escrow EXCEPT ![k] = @ + d]
  BY DEF initializeChannel
<1> HIDE DEF id
<1>3. /\ \A c \in ChannelId \ {id} : channels'[c] = channels[c]
      /\ channels'[id].totalDeposit = d
      /\ channels[id].totalDeposit = 0
  BY <1>1, <1>2 DEF TypeOK, FundsAccounted
<1>4. /\ \A t \in Token \ {k} : escrow'[t] = escrow[t] /\ wallet'[t] = wallet[t]
      /\ escrow'[k] = escrow[k] + d
      /\ \A b \in Account : b # a => new[b] = old[b]
      /\ new[a] = old[a] - d
  BY <1>1, <1>2 DEF TypeOK
<1>5. /\ \A b \in Account : old[b] \in Nat /\ new[b] \in Nat
      /\ escrow[k] \in Nat /\ d \in Nat
  BY ChannelAssumption DEF TypeOK
<1>6. SumFunctionOnSet(new, Account) + d = SumFunctionOnSet(old, Account)
  <2> HIDE DEF old, new
  <2>1. SumFunctionOnSet(new, Account) \in Nat /\ SumFunctionOnSet(old, Account) \in Nat
    BY <1>5, FiniteSums, SumType
  <2>2. SumFunctionOnSet(new, Account) + old[a] = SumFunctionOnSet(old, Account) + new[a]
    BY <1>1, <1>4, <1>5, FiniteSums, SumChange
  <2>3. QED
    BY <1>1, <1>4, <1>5, <2>1, <2>2
<1>7. SUFFICES ASSUME NEW t \in Token
      PROVE  /\ escrow'[t] = SumFunctionOnSet(Deposits', {c \in ChannelId : c.token = t})
             /\ escrow'[t] + SumFunctionOnSet(wallet'[t], Account)
                  = Supply * Cardinality(Account)
  BY DEF FundsConserved
<1>8. CASE t # k
  <2>1. /\ escrow'[t] = escrow[t]
        /\ \A b \in Account : wallet'[t][b] = wallet[t][b]
        /\ \A c \in ChannelId :
             c.token = t => channels'[c].totalDeposit = channels[c].totalDeposit
    BY <1>1, <1>3, <1>4, <1>8
  <2>2. QED
    BY <2>1, UntouchedToken
<1>9. CASE t = k
  <2> DEFINE before == SumFunctionOnSet(Deposits, {c \in ChannelId : c.token = k})
             after == SumFunctionOnSet(Deposits', {c \in ChannelId : c.token = k})
  <2>1. after + channels[id].totalDeposit = before + channels'[id].totalDeposit
    BY <1>1, <1>3, OneDepositChanges
  <2>2. /\ escrow[k] = before
        /\ escrow[k] + SumFunctionOnSet(old, Account) = Supply * Cardinality(Account)
    BY DEF FundsConserved
  <2>3. after \in Nat
    <3>1. \A c \in {b \in ChannelId : b.token = k} : Deposits'[c] \in Nat
      BY DEF TypeOK, Deposits, PaymentChannel
    <3>2. QED
      BY <3>1, FiniteSums, SumType
  <2>4. SumFunctionOnSet(new, Account) \in Nat
    <3> HIDE DEF old, new
    <3>1. QED
      BY <1>5, FiniteSums, SumType
  <2> HIDE DEF before, after, old, new
  <2>5. escrow'[k] = after
    BY <1>3, <1>4, <1>5, <2>1, <2>2, <2>3
  <2>6. escrow'[k] + SumFunctionOnSet(new, Account) = Supply * Cardinality(Account)
    BY <1>4, <1>5, <1>6, <2>2, <2>4
  <2>7. QED
    BY <1>9, <2>5, <2>6 DEF after, new
<1>10. QED
  BY <1>8, <1>9

LEMMA StepConserves ==
  ASSUME TypeOK, TypeOK', FundsAccounted, FundsConserved, [Next]_vars
  PROVE  FundsConserved'
<1>1. CASE UNCHANGED <<channels, wallet, escrow>>
  BY <1>1 DEF FundsConserved, Deposits
<1>2. CASE Tick \/ UNCHANGED vars
  BY <1>1, <1>2 DEF Tick, vars
<1>3. CASE \/ \E a \in Buyer, t \in Token, amount \in Amount : approve(a, t, amount)
           \/ \E v \in Voucher : signVoucher(v)
           \/ \E a \in Account, id \in ChannelId : signCancel(a, id)
  BY <1>1, <1>3 DEF approve, signVoucher, signCancel
<1>4. ASSUME NEW a \in Account, NEW v \in Voucher, claimPayment(a, v)
      PROVE  FundsConserved'
  <2> DEFINE id == v.channelId
             refund == channels[id].totalDeposit - v.amount
  <2>1. id \in ChannelId /\ v.nonce \in Nat /\ v.amount \in Nat
    BY ChannelAssumption DEF Voucher
  <2>2. /\ v.amount <= channels[id].totalDeposit
        /\ channels' = [channels EXCEPT ![id] = Ended(@, v.nonce)]
        /\ Payout(id, v.amount, refund)
    BY <1>4 DEF claimPayment
  <2>3. channels[id].totalDeposit \in Nat
    BY <2>1 DEF TypeOK, PaymentChannel
  <2>4. refund \in Nat /\ v.amount + refund = channels[id].totalDeposit
    BY <2>1, <2>2, <2>3
  <2> HIDE DEF id, refund
  <2>5. QED
    BY <2>1, <2>2, <2>4, EndingConserves
<1>5. ASSUME NEW a \in Account, NEW id \in ChannelId,
             closeChannel(a, id) \/ cancelChannel(a, id)
      PROVE  FundsConserved'
  <2> DEFINE deposit == channels[id].totalDeposit
             nonce == channels[id].nonce
  <2>1. /\ deposit \in Nat /\ nonce \in Nat
        /\ 0 \in Nat /\ 0 + deposit = channels[id].totalDeposit
    BY DEF TypeOK, PaymentChannel
  <2>2. /\ Payout(id, 0, deposit)
        /\ channels' = [channels EXCEPT ![id] = Ended(@, nonce)]
    BY <1>5 DEF closeChannel, cancelChannel
  <2> HIDE DEF deposit, nonce
  <2>3. QED
    BY <2>1, <2>2, EndingConserves
<1>6. QED
  BY <1>2, <1>3, <1>4, <1>5, InitializeConserves DEF Next

LEMMA InitConserves == Init => FundsConserved
<1>1. SUFFICES ASSUME Init, NEW t \in Token
      PROVE  /\ escrow[t] = SumFunctionOnSet(Deposits, {c \in ChannelId : c.token = t})
             /\ escrow[t] + SumFunctionOnSet(wallet[t], Account)
                  = Supply * Cardinality(Account)
  BY DEF FundsConserved
<1> DEFINE S == {c \in ChannelId : c.token = t}
<1>2. IsFiniteSet(S) /\ Cardinality(S) \in Nat
  BY FiniteSums, FS_CardinalityType
<1>3. SumFunctionOnSet(Deposits, S) = 0 * Cardinality(S)
  <2>1. \A c \in S : Deposits[c] = 0
    BY <1>1 DEF Init, Deposits, EmptyChannel
  <2> HIDE DEF S
  <2>2. QED
    BY <1>2, <2>1, SumConstant
<1>4. SumFunctionOnSet(wallet[t], Account) = Supply * Cardinality(Account)
  <2>1. \A a \in Account : wallet[t][a] = Supply
    BY <1>1 DEF Init
  <2>2. QED
    BY <2>1, ChannelAssumption, FiniteSums, SumConstant
<1>5. escrow[t] = 0 /\ 0 * Cardinality(S) = 0
  BY <1>1, <1>2 DEF Init
<1>6. Supply * Cardinality(Account) \in Nat
  <2>1. Cardinality(Account) \in Nat
    BY FiniteSums, FS_CardinalityType
  <2>2. \A m, n \in Nat : m * n \in Nat
    OBVIOUS
  <2>3. QED
    BY <2>1, <2>2, ChannelAssumption
<1> HIDE DEF S
<1>7. 0 + Supply * Cardinality(Account) = Supply * Cardinality(Account)
  BY <1>6
<1>8. QED
  BY <1>3, <1>4, <1>5, <1>7 DEF S

\* The contract owns exactly the deposits of its open channels of each token,
\* and what the accounts and the contract own together never changes, for any
\* number of accounts, channels and tokens (initializeChannel, claimPayment,
\* closeChannel, cancelChannel).
THEOREM FundsAreConserved == Spec => []FundsConserved
<1>1. TypeOK /\ FundsAccounted /\ FundsConserved /\ [Next]_vars /\ TypeOK'
        => FundsConserved'
  BY StepConserves
<1>2. QED
  BY <1>1, InitConserves, Invariance, PTL DEF Spec

\* The transfer in an ending never lacks funds: whatever the other channels
\* have been paid, the contract owns at least this channel's deposit, so the
\* only things a buyer's closeChannel waits for are its channel and its expiry.
THEOREM RefundsAreCovered ==
  Spec => [](\A id \in ChannelId : escrow[id.token] >= channels[id].totalDeposit)
<1> DEFINE Covered == \A id \in ChannelId : escrow[id.token] >= channels[id].totalDeposit
<1>1. TypeOK /\ FundsConserved => Covered
  <2>1. SUFFICES ASSUME TypeOK, FundsConserved, NEW id \in ChannelId
        PROVE  escrow[id.token] >= channels[id].totalDeposit
    OBVIOUS
  <2> DEFINE S == {c \in ChannelId : c.token = id.token}
  <2>2. id.token \in Token
    BY DEF ChannelId
  <2>3. IsFiniteSet(S) /\ id \in S /\ \A c \in S : Deposits[c] \in Nat
    BY <2>1, <2>2, FiniteSums, SummedTypes
  <2>4. escrow[id.token] = SumFunctionOnSet(Deposits, S)
    BY <2>1, <2>2 DEF FundsConserved
  <2>5. Deposits[id] <= SumFunctionOnSet(Deposits, S)
    <3> HIDE DEF S
    <3>1. QED
      BY <2>3, SumBounds
  <2>6. Deposits[id] = channels[id].totalDeposit /\ Deposits[id] \in Nat
    BY <2>1, SummedTypes DEF Deposits
  <2>7. escrow[id.token] \in Nat
    BY <2>1, <2>2, SummedTypes
  <2>8. QED
    BY <2>4, <2>5, <2>6, <2>7
<1> HIDE DEF Covered
<1>2. Spec => []Covered
  BY <1>1, TypeCorrect, FundsAreConserved, PTL
<1>3. QED
  BY <1>2 DEF Covered
=============================================================================
