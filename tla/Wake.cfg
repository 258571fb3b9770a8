\* An approval, two replicas that crash and whose live claims may expire, people who order and cancel, and a key that is deleted.
CONSTANTS
  r1 = r1
  r2 = r2
  q1 = q1
  Nobody = Nobody
  Event = {1}
  Subscribed = {1}
  Replica = {r1, r2}
  PollSize = 2
  MaxAttempts = 1
  MaxPauses = 1
  MaxCrashes = 1
  MaxRequeues = 1
  Requisition = {q1}
  RequisitionOf <- OneRequisition
  MaxManual = 1
  MaxPrunes = 1
SPECIFICATION WakeFairSpec
CHECK_DEADLOCK FALSE
INVARIANTS
  OneOrderPerStoredResult
PROPERTIES
  EventuallyAnswered
