CONSTANTS
  Byte = {x}
  io_buffer_size = 2
  SNDBUF = 1
  MaxSent = 3
  Pipelined <- MCPipelined
SPECIFICATION RelayFairSpec
PROPERTIES OriginIsHeard OriginEndIsForwarded
CHECK_DEADLOCK FALSE
