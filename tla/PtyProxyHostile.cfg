SPECIFICATION FairSpec
CONSTANTS
  Clients = {c1, c2}
  Addrs = {a1}
  Lines = {l1}
  Nil = Nil
  Builds = {TRUE}
  Env = {"send_fd", "recv_fd", "kill_client", "kill_helper", "copy"}
  MaxQueue = 3
  MaxTokens = 1
PROPERTIES
  HelperCleansUp
  HelperDeathUnblocks
