\* Two replicas; the claim of a live replica expires.
CONSTANTS
  r1 = r1
  r2 = r2
  r3 = r3
  Nobody = Nobody
  Event = {1, 2}
  Subscribed = {1}
  Replica = {r1, r2}
  PollSize = 2
  MaxAttempts = 2
  MaxPauses = 1
  MaxCrashes = 0
  MaxRequeues = 1
SPECIFICATION RelaySpec
CHECK_DEADLOCK FALSE
SYMMETRY Replicas
INVARIANTS
  OneLeasedDispatcher
