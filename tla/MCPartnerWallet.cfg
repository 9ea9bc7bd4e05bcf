CONSTANTS
  p1 = p1
  p2 = p2
  Credits = {k1, k2}
  Payouts = {p1, p2}
  Approvals = {a1, a2}
  AmountOf <- MCAmountOf
  Overrides = {0, 1}
  DefaultRate = 2
  PaisePerRupee = 2
  None = None
SPECIFICATION Spec
INVARIANTS
  LockstepUnlessStale
  
  PayoutsWereEarned
CHECK_DEADLOCK FALSE
