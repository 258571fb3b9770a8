\* Two replicas that crash and restart and whose live claims may expire, two events with handlers and one without.
CONSTANTS
  r1 = r1
  r2 = r2
  r3 = r3
  Nobody = Nobody
  Event = {1, 2, 3}
  Subscribed = {1, 3}
  Replica = {r1, r2}
  PollSize = 2
  MaxAttempts = 2
  MaxPauses = 1
  MaxCrashes = 1
  MaxRequeues = 1
SPECIFICATION RelayFairSpec
CHECK_DEADLOCK FALSE
INVARIANTS
  ExclusiveWhileRenewed
PROPERTIES
  EventuallySettled
