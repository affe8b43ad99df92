\* Two rows, ticks of two processes that overlap, faults of every kind.
CONSTANTS
  p1 = p1
  p2 = p2
  t1 = t1
  t2 = t2
  t3 = t3
  Events = {1, 2}
  Processes = {p1, p2}
  Ticks = {t1, t3}
  HostOf <- MCHostOf
  Limit = 2
  MaxCrashes = 1
  MaxDisconnects = 1
  MaxErrors = 1
SPECIFICATION LiveSpec
INVARIANTS
  TypeOK
  TicksAreDisjoint
  SentArrives
  CopiesArePaid
PROPERTIES
  ImplementsDelivery
  OutboxDrains
CHECK_DEADLOCK FALSE
