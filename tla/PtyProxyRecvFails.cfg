SPECIFICATION FairSpec
CONSTANTS
  Clients = {c1}
  Addrs = {a1}
  Lines = {l1}
  Nil = Nil
  Builds = {TRUE}
  Env = {"recv_fd"}
  MaxQueue = 3
  MaxTokens = 1
CHECK_DEADLOCK FALSE
PROPERTIES
  DestroyReturns
