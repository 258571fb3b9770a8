\* A command, a call that reuses its key for another input, a command of its own; the first may fail
\* and its row grow old; an audit trail that is harmed once, pages of two entries.
CONSTANTS
  c1 = c1
  c2 = c2
  c3 = c3
  k1 = k1
  k2 = k2
  NoCall = NoCall
  Call = {c1, c2, c3}
  Key = {k1, k2}
  KeyOf <- Keys
  InputOf <- Inputs
  PageSize = 2
  FaultyCall = {c1}
  MaxFaults = 1
  MaxExpiries <- Expiries
  MaxHarms = 1
SPECIFICATION FairSpec
CHECK_DEADLOCK FALSE
INVARIANTS
  KeyRunsOnce
  ChainIsLinear
  VerdictIsTrue
PROPERTIES
  CallIsAnswered
