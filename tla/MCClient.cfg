CONSTANTS
  raw = raw
  cli = cli
  MConns <- MCConns
  Programs <- MCPrograms
  Scenarios <- MCScenarios
  MaxGone = 2
  CommandLines <- MCCommandLines
  ADMIN <- Admin
  USERS_MAX = 2
  USERS_MAX_NAME = 2
  USERS_MAX_PASS = 2
  DEFAULT_BUFFER = 20
  CONFIG_ADMIN_MAX = 2
  CONFIG_MIN_BUFFER = 10
  CONFIG_MAX_BUFFER = 40
  BYTE = 64
  U64 = 1
  MGMT_RBUF = 12
  MGMT_WBUF = 14
  SendCuts = {3}
  RecvCuts = {1, 2, 3, 4, 5, 6}
  Names <- MCNames
  Passwords <- MCPasswords
SPECIFICATION ClientSpec
INVARIANTS AnswersFollowRequests ExitCodeIsTrue
PROPERTIES OnlyTheAdministrator RepliesAreTruthful TableIsADirectory EndedForCause
  ProgramsExit PipelinedAreAnswered
CHECK_DEADLOCK FALSE
