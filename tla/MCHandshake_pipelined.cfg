CONSTANTS
  ADMIN <- Admin
  USERS_MAX = 2
  USERS_MAX_NAME = 3
  USERS_MAX_PASS = 3
  CONFIG_ADMIN_MAX = 3
  DEFAULT_BUFFER = 10
  IPV4_LEN = 2
  IPV6_LEN = 3
  BOUND = 77
  RecvCuts = {1, 2, 3, 4, 5, 6, 7, 8, 9}
  SendCuts = {1, 4}
  Failures = {1, 4}
  MaxChanges = 2
  Changes <- MCChanges
  CommandLines <- MCCommandLines
  Dialogues <- MCDialogues
SPECIFICATION HandshakeSpec
PROPERTY CompleteHandshakeIsServed
CHECK_DEADLOCK FALSE
