SPECIFICATION Socks5FairSpec
CONSTANTS
  ITEMS_MAX_SIZE = 3
  RLIMIT_NOFILE = 4
  Conns = {c1}
  Listener = Listener
  Data = {c1, Listener}
  NoData = NoData
  Workers = {w1}
  MAX_POOL = 1
  MAX_ADDRS = 1
  Errnos = {"ECONNREFUSED"}
  Offers = {{"NO_AUTH"}}
  Requests = {"malformed", "bind", "literal", "name"}
  Leftovers = {"empty"}
  Fills = {"part"}
  AuthModes = {FALSE}
  BufferSizes = {s1}
  MaxSignals = 2
  MallocMayFail = FALSE
PROPERTIES
  ResolutionEnds
  ShutdownExits
