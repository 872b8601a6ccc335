SPECIFICATION Spec
CONSTANTS
  Clients = {c1}
  Addrs = {a1, a2}
  Lines = {l1, l2}
  Nil = Nil
  Builds = {TRUE}
  Env = {"eintr", "send_fd", "recv_fd"}
  MaxQueue = 3
  MaxTokens = 1
SYMMETRY Symmetry
CHECK_DEADLOCK FALSE
INVARIANTS
  SessionsTracked
