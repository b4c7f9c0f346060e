SPECIFICATION Spec
CONSTANTS
  Payment = {p1}
  Channel = {c1}
  ChannelOf <- MCSameChannel
  Deadline <- MCLaterDeadline
  Expiry <- MCLaterExpiry
  Worker = {w1}
  Handler = {h1, h2}
  Requests = {"get", "reconcile", "record"}
  Faults = {"executor_error", "answer_lost", "confirm_error", "tx_dropped", "crash"}
  TTL = 2
  MaxAttempts = 2
  MaxRetryable = 1
  MaxTx = 2
  MaxTime = 3
  Nobody = nobody
  nobody = nobody
  c1 = c1
  p1 = p1
  w1 = w1
  h1 = h1
  h2 = h2
INVARIANTS
  OneProcessPerPayment
PROPERTIES
  SettledIsKept
CHECK_DEADLOCK FALSE
