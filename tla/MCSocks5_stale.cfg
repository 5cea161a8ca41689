SPECIFICATION Socks5Spec
CONSTANTS
  ITEMS_MAX_SIZE = 5
  RLIMIT_NOFILE = 5
  Conns = {c1, c2, c3}
  Listener = Listener
  Data = {c1, c2, c3, Listener}
  NoData = NoData
  Workers = {w1}
  MAX_POOL = 1
  MAX_ADDRS = 1
  Errnos = {"ECONNREFUSED"}
  Offers = {{"NO_AUTH"}}
  Requests = {"literal"}
  Leftovers = {"part"}
  Fills = {}
  AuthModes = {FALSE}
  BufferSizes = {s1}
  MaxSignals = 0
  MallocMayFail = FALSE
SYMMETRY Symmetry
INVARIANTS
  SuccessMeansConnected
