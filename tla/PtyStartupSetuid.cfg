SPECIFICATION Spec
CONSTANTS
  Nil = Nil
  MaxFd = 6
  Inherited = {0, 1, 2}
  CloseLimit = 6
  Reentrant = FALSE
  Setids = {"setuid"}
INVARIANT DropsCompletely
