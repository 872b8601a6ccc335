SPECIFICATION Spec
CONSTANTS
  Clients = {c1, c2}
  Addrs = {a1, a2}
  Lines = {l1, l2}
  Nil = Nil
  Builds = {TRUE}
  Env = {"eintr"}
  MaxQueue = 3
  MaxTokens = 1
INVARIANTS
  MutualExclusion
