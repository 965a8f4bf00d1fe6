INIT CpuInit
NEXT CpuNext
CONSTANTS
  ByteSize = 2
  RstSpacing = 1
  Program = {117}
PROPERTIES
  ImplementsIsa
