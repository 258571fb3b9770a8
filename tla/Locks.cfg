\* Two overlapping plans, a registration, a receipt, both corrections and two settlements.
CONSTANTS
  plan1 = plan1
  plan2 = plan2
  uncover = uncover
  cancel = cancel
  record = record
  register = register
  settle1 = settle1
  settle2 = settle2
  Nobody = Nobody
  OrderRow = OrderRow
  RunRow = RunRow
  Invoice = {1, 2, 3}
  Cover = 2
  Planner = {plan1, plan2}
  ReceiptCanceller = {uncover}
  OrderCanceller = {cancel}
  Recorder = {record}
  Registrar = {register}
  Registers <- Registrations
  Reconciler = {settle1, settle2}
  Decides <- Reconciliations
  PlanOf <- Plans
  Arrival <- ArrivalDoc
SPECIFICATION Spec
INVARIANTS
  EligibleIsCovered
  ClosedWithLastLine
  CyclesNeedAReceipt
PROPERTIES
  PlansAreAtomic
  CorrectionsAreAtomic
