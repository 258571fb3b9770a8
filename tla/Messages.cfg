\* A poisoned, an automatic and a gated message, a replica and a request; operators resolve
\* with or without stopping the sender.
CONSTANTS
  u1 = u1
  u2 = u2
  c1 = c1
  d1 = d1
  Nobody = Nobody
  User = {u1, u2}
  Message = {1, 2, 3}
  Automatic = {1, 2}
  Poison = {1}
  Caller = {c1}
  Dispatcher = {d1}
  BatchSize = 2
  MaxRecoveries = 1
  MaxCrashes = 1
  MaxRequests = 4
SPECIFICATION FairSpec
CHECK_DEADLOCK FALSE
INVARIANTS
  AtMostOneDelivery
  RecordMatchesProvider
  OneClaimPerAuthorization
PROPERTIES
  StagedIsHandled
