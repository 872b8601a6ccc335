SPECIFICATION FairSpec
CONSTANTS
  Clients = {c1, c2}
  Addrs = {a1, a2}
  Lines = {l1, l2}
  Nil = Nil
  Builds = {TRUE, FALSE}
  Env = {}
  MaxQueue = 2
  MaxTokens = 1
INVARIANTS
  CommandsReachOwner
PROPERTIES
  CallsReturn
  ImplementsService
