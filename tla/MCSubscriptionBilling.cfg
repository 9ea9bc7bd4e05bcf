CONSTANTS
  Orders = {o1}
  Deliveries = {d1, d2, d3}
  Refunds = {r1, r2}
  Period = 2
  RefundWindow = 1
  Offers <- MCOffers
  CouponStock <- MCCouponStock
  MaxEdits = 2
  MaxTime = 3
  None = None
SPECIFICATION Spec
SYMMETRY Symmetry
INVARIANTS
  
  DuplicatesExtendOnce
PROPERTIES
  CaptureSurvivesFailure
CHECK_DEADLOCK FALSE
