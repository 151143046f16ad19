\* Two further windows; two routed requests and one exact-model request over two nodes.
SPECIFICATION CapacitySpec
CONSTANTS
  r1 = r1
  r2 = r2
  r3 = r3
  r4 = r4
  n1 = n1
  n2 = n2
  q1 = q1
  q2 = q2
  q3 = q3
  Request <- const_Request
  Dimension <- const_Dimension
  Windowed <- const_Windowed
  limit <- const_limit
  amount <- const_amount
  MaxWindows = 2
  Owner <- const_Owner
  Call <- const_Call
  ExactModel <- const_ExactModel
  MaxStages = 2
  Period = 2
SYMMETRY Symmetry
CHECK_DEADLOCK FALSE
INVARIANTS CountsExactly MarksAccountedFor
