SPECIFICATION Spec
CONSTANTS
  Payment = {p1}
  Channel = {c1}
  ChannelOf <- MCSameChannel
  Deadline <- MCDistantDeadline
  Expiry <- MCDistantExpiry
  Worker = {w1}
  Handler = {h1, h2}
  Requests = {"reconcile", "record"}
  Faults = {"executor_error", "tx_dropped", "slow"}
  TTL = 1
  MaxAttempts = 2
  MaxRetryable = 1
  MaxTx = 2
  MaxTime = 3
  Nobody = nobody
  nobody = nobody
  c1 = c1
  p1 = p1
  w1 = w1
  h1 = h1
  h2 = h2
INVARIANTS
  PaidIsNotFailed
CHECK_DEADLOCK FALSE
