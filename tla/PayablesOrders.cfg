\* Three orders of two requisitions share a budget; the invoices of one compete for its goods and its tolerance, another is billed exactly and paid.
CONSTANTS
  p1 = p1
  p2 = p2
  p3 = p3
  p4 = p4
  i1 = i1
  i2 = i2
  i3 = i3
  i4 = i4
  c1 = c1
  c2 = c2
  c3 = c3
  u1 = u1
  u2 = u2
  b1 = b1
  NoUser = NoUser
  NoRun = NoRun
  MatchToleranceBps = 500
  VerifiedVendors = {"v1"}
  ReqBudget <- OneBudget
  User = {u1, u2}
  Budget = {b1}
  PO = {p1, p2, p3}
  Invoice = {i2, i3, i4}
  Receipt = {c1, c3}
  Run = {1}
  PoDoc <- MatchPoDoc
  InvoiceDoc <- MatchInvoiceDoc
  ReceiptDoc <- MatchReceiptDoc
  BudgetLimit <- MatchLimit
SPECIFICATION Spec
SYMMETRY UserSymmetry
CHECK_DEADLOCK FALSE
INVARIANTS
  ReservedWithinCover
  WaitingMeansNoGoods
  NoPaymentOfCancelledOrder
  CommitmentIsOpenOrders
