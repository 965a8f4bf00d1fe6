CONSTANTS
  MaxLength = 10
  ClientRequests = {"GET_MEM_BAD"}
  Conns = 2
  MaxMessages = 1
  Posix = FALSE
  StoreAtomic = TRUE
SPECIFICATION Spec
PROPERTIES ImplementsExecution ExitEndsProgram SignalEndsProgram
