CONSTANTS
  MaxLength = 10
  ClientRequests = {"GET_MEM_BAD"}
  Conns = 2
  MaxMessages = 2
  Posix = TRUE
  StoreAtomic = FALSE
SPECIFICATION Spec
INVARIANTS TypeOK AnswersInOrder
