SPECIFICATION Socks5Spec
CONSTANTS
  ITEMS_MAX_SIZE = 3
  RLIMIT_NOFILE = 4
  Conns = {c1, c2}
  Listener = Listener
  Data = {c1, c2, Listener}
  NoData = NoData
  Workers = {w1, w2}
  MAX_POOL = 1
  MAX_ADDRS = 1
  Errnos = {"ECONNREFUSED"}
  Offers = {{"NO_AUTH"}}
  Requests = {"name", "literal"}
  Leftovers = {"empty"}
  Fills = {}
  AuthModes = {FALSE}
  BufferSizes = {s1, s2}
  MaxSignals = 1
  MallocMayFail = FALSE
SYMMETRY Symmetry
INVARIANTS
  ReferencesAreRegistrations
  OpenIsRegistered
  PoolIsSound
  CurrentCountsLive
  JobsFindTheirConnection
  NoConnectionStranded
