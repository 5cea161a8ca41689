SPECIFICATION Socks5Spec
CONSTANTS
  ITEMS_MAX_SIZE = 3
  RLIMIT_NOFILE = 4
  Conns = {c1}
  Listener = Listener
  Data = {c1, Listener}
  NoData = NoData
  Workers = {w1, w2}
  MAX_POOL = 1
  MAX_ADDRS = 2
  Errnos = {"ECONNREFUSED", "EMFILE"}
  Offers = {{}, {"NO_AUTH"}, {"USERPASS"}, {"NO_AUTH", "USERPASS"}}
  Requests = {"malformed", "bind", "literal", "name"}
  Leftovers = {"empty", "part", "full"}
  Fills = {"part", "full"}
  AuthModes = {TRUE, FALSE}
  BufferSizes = {s1}
  MaxSignals = 2
  MallocMayFail = TRUE
SYMMETRY Symmetry
INVARIANTS
  Socks5TypeOK
  ReplyMatchesOrigin
  EventsHaveHandlers
  ResolverOwnsItsMemory
  KeyIsFresh
