SPECIFICATION Spec
CONSTANTS
  Nil = Nil
  MaxFd = 8
  Inherited = {0, 1, 2, 3}
  CloseLimit = 8
  Reentrant = TRUE
  Setids = {"setresuid", "setreuid", "setuid"}
INVARIANTS
  TypeOK
  HelperUsable
  HelperSeesEof
  HelperKeepsPrivileges
  PrivilegesGone
PROPERTIES
  StdioKept
  OneHelper
