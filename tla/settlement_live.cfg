SPECIFICATION FairSpec
CONSTANTS
  Payment = {p1, p2}
  Channel = {c1}
  ChannelOf <- MCSameChannel
  Deadline <- MCNearDeadline
  Expiry <- MCNearExpiry
  Worker = {w1}
  Handler = {}
  Requests = {}
  Faults = {"executor_error", "answer_lost", "confirm_error", "crash", "slow"}
  TTL = 1
  MaxAttempts = 1
  MaxRetryable = 1
  MaxTx = 1
  MaxTime = 2
  Nobody = nobody
  nobody = nobody
  c1 = c1
  p1 = p1
  p2 = p2
  w1 = w1
PROPERTIES
  EveryPaymentEnds
  FollowsLifecycle
CHECK_DEADLOCK FALSE
