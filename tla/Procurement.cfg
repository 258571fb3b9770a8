\* One requisition, a qualified vendor and one that is not, two buyers, two sweeps
\* for overdue approvals.
CONSTANTS
  q1 = q1
  v1 = v1
  v2 = v2
  b1 = b1
  b2 = b2
  s1 = s1
  s2 = s2
  Nobody = Nobody
  Requisition = {q1}
  Vendor = {v1, v2}
  Unqualified = {v1}
  Buyer = {b1, b2}
  MaxOffers = 2
  MaxOrders = 2
  MaxQualifications = 1
  Sweeper = {s1, s2}
  Slow = {v1}
  MaxSweeps = 2
SPECIFICATION Spec
CHECK_DEADLOCK FALSE
SYMMETRY Peers
INVARIANTS
  StatusFollowsApproval
  OneLiveOrder
  OneAward
  OrderedAsAwarded
PROPERTIES
  EscalatedOnce
