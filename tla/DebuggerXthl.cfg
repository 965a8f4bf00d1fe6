CONSTANTS
  Addrs = {0, 1}
  Base = 2
  Pcs = {p}
  Nowhere = nowhere
  MaxCounter = 2
  Watches <- SomeWatches
  Edits <- SomeEdits
  MaxRequests = 3
  UpdateWrap = 3
  Xthl = TRUE
SPECIFICATION Spec
PROPERTIES ReadonlyHeld
