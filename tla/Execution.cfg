CONSTANTS
  MaxLength = 10
  HasDebugger = TRUE
  GraceSuffices = TRUE
SPECIFICATION Spec
INVARIANTS TypeOK Conversation NothingRunsAfterExit
PROPERTIES OwnResult ExitIsFinal EveryRequestReturns ShutdownCompletes
