\* A mail, a file that the agent cannot read and that carries the same invoice; a poller that is
\* called on its service and one that the timer calls, a clerk, a fault.
CONSTANTS
  m1 = m1
  d1 = d1
  s1 = s1
  k1 = k1
  w1 = w1
  w2 = w2
  a1 = a1
  c1 = c1
  Nothing = Nothing
  Message = {m1}
  Document = {d1, s1}
  ContentOf <- Contents
  Structured = {s1}
  Unreadable = {s1}
  InvoiceNo = {k1}
  NumberOf <- Numbers
  Poller = {w1, w2}
  Timer = {w2}
  Autorun = TRUE
  Agent = {a1}
  Clerk = {c1}
  BatchSize = 2
  MaxAttempts = 1
  MaxRequests = 3
  MaxFaults = 1
SPECIFICATION FairSpec
CHECK_DEADLOCK FALSE
INVARIANTS
  SeenIsStored
  ReceivedOnce
  ResultMatchesStatus
PROPERTIES
  DocumentIsHandled
