SPECIFICATION FairSpec
CONSTANTS
  Payment = {p1, p2}
  Target = {t1}
  Kept = 2
  Limit = 1
  MaxEvents = 3
  MaxOutages = 1
  Path = {x1, x2}
  Price <- MCPrice
  Intents <- MCIntents
  Deadline <- MCDeadline
  Client = {c1}
  MaxTime = 2
  MaxOps = 1
  MaxCrashes = 1
  None = none
  x1 = x1
  x2 = x2
  p1 = p1
INVARIANTS
  TypeOK
  
  
  GrossIsItemised
PROPERTIES
  EventsAreDelivered
CHECK_DEADLOCK FALSE
