SPECIFICATION Spec
CONSTANTS
  Clients = {c1, c2, c3}
  Addrs = {a1, a2}
  Lines = {l1, l2}
  Nil = Nil
  Builds = {TRUE}
  Env = {"send_fd", "recv_fd", "kill_client", "kill_helper"}
  MaxQueue = 3
  MaxTokens = 1
SYMMETRY Symmetry
INVARIANTS
  TypeOK
  MutualExclusion
  TokenMeansQuiet
  OwnsItsPty
  NothingLeaks
