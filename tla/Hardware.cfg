CONSTANTS
  Cycles = {1}
  MaxTicks = 2
  MaxStops = 3
SPECIFICATION Spec
INVARIANTS TypeOK CountersAccounted LastRunLatched 
CHECK_DEADLOCK FALSE
