CONSTANTS
  Sizes = {2, 4}
  Addrs = {a}
  Values = {v, w}
  MaxInstr = 3
  MaxPlay = 3
  ResetFirst = TRUE
  ForwardWhileLive = FALSE
SYMMETRY Interchangeable
SPECIFICATION Spec
INVARIANTS TypeOK
PROPERTIES ImplementsTimeline
