SPECIFICATION FairSpec
CONSTANTS
  Agent = {a1, a2}
  Seller = {good, bad}
  Offer = {o1, o2}
  SellerOf <- MCSellerOf
  Prices = {0, 1, 2}
  NeedsHuman = {}
  TypicalUnits <- MCTypicalUnits
  Suggested <- MCSuggested
  Bonus <- MCBonus
  DefaultDeposit = 2
  Requests <- MCRequests
  Policy <- MCPolicy
  Funds = 3
  Faults = {"http", "slow", "executor_error"}
  MaxAttempts = 2
  MaxTries <- MCMaxTries
  Listed <- MCListed
  MaxChanges = 1
  MaxFailures = 1
  None = none
  none = none
  good = good
  bad = bad
  o1 = o1
  o2 = o2
  a1 = a1
  a2 = a2
INVARIANTS
  TypeOK
  SessionIsFunded
  AllowanceIsPending
  UnapprovedWithinLimits
  PreparedPaymentKnown
PROPERTIES
  PurchaseEnds
CHECK_DEADLOCK FALSE
