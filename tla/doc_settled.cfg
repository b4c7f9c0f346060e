SPECIFICATION Spec
CONSTANTS
  Payment = {p1}
  Channel = {c1}
  ChannelOf <- MCSameChannel
  Deadline <- MCDistantDeadline
  Expiry <- MCDistantExpiry
  Worker = {w1, w2}
  Handler = {}
  Requests = {}
  Faults = {"executor_error"}
  TTL = 2
  MaxAttempts = 2
  MaxRetryable = 1
  MaxTx = 2
  MaxTime = 1
  Nobody = nobody
  nobody = nobody
  c1 = c1
  p1 = p1
  w1 = w1
  w2 = w2
PROPERTIES
  SettledIsTerminal
CHECK_DEADLOCK FALSE
