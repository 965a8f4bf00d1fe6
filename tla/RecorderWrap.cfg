CONSTANTS
  Sizes = {3}
  Addrs = {a}
  Values = {v, w}
  MaxInstr = 4
  MaxPlay = 3
  ResetFirst = TRUE
  ForwardWhileLive = FALSE
SPECIFICATION Spec
PROPERTIES ImplementsTimeline
