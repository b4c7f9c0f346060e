SPECIFICATION Spec
CONSTANTS
  Payment = {p1, p2}
  Channel = {c1}
  ChannelOf <- MCSameChannel
  Deadline <- MCDistantDeadline
  Expiry <- MCDistantExpiry
  Worker = {w1}
  Handler = {h1}
  Requests = {"execute", "reconcile", "operator"}
  Faults = {"answer_lost", "slow"}
  TTL = 1
  MaxAttempts = 1
  MaxRetryable = 1
  MaxTx = 1
  MaxTime = 1
  Nobody = nobody
  nobody = nobody
  c1 = c1
  p1 = p1
  p2 = p2
  w1 = w1
  h1 = h1
INVARIANTS
  TypeOK
  SettledIsClaimed
  ChannelSettlesOnce
CHECK_DEADLOCK FALSE
