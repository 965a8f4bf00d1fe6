CONSTANTS
  Producers = {p1, p2}
  Consumer = c
  MaxLength = 1
  MaxSent = 5
SPECIFICATION Spec
INVARIANTS TypeOK FifoOrder NoLostWakeup
PROPERTIES WaiterServed
CHECK_DEADLOCK FALSE
