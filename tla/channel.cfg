SPECIFICATION FairSpec
CONSTANTS
  Buyer = {buyer}
  Seller = {seller}
  Token = {usdt}
  Salt = {s1, s2}
  Amount = {1, 2}
  Nonce = {1}
  Supply = 2
  MaxTime = 2
  MaxSigned = 2
  buyer = buyer
  seller = seller
  usdt = usdt
  s1 = s1
  s2 = s2
INVARIANTS
  TypeOK
  FundsAccounted
  FundsConserved
  SellerPaidAsSigned
  EarlyRefundIsAgreed
  RefundAlwaysAvailable
PROPERTIES
  ImplementsEscrow
  DepositsReleased
CHECK_DEADLOCK FALSE
