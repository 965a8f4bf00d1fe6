CONSTANTS
  MaxLength = 10
  ClientRequests = {"STOP"}
  Conns = 1
  MaxMessages = 1
  Posix = FALSE
  StoreAtomic = FALSE
SPECIFICATION Spec
PROPERTIES SignalEndsProgram
