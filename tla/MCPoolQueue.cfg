CONSTANTS
  r1 = r1
  r2 = r2
  r3 = r3
  r4 = r4
  Request <- FourRequests
  MaxConns = 2
SPECIFICATION Spec
INVARIANTS NobodyWaitsIdle HoldsNothing
PROPERTIES LiveAnswers WaitersServed
