CONSTANTS
  Byte = {x, y}
  io_buffer_size = 3
  SNDBUF = 2
  MaxSent = 3
  Pipelined <- MCPipelined
SPECIFICATION RelaySpec
SYMMETRY ByteSymmetry
INVARIANTS RelayTypeOK NothingIsLost EndIsForwardedLast ClosedOnlyWhenBothEnded
CHECK_DEADLOCK FALSE
PROPERTIES BothAreStreams
