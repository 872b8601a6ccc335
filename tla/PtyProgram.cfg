SPECIFICATION FairSpec
CONSTANTS
  Top = 7
  MaxOut = 2
INVARIANTS
  TypeOK
  ShellHasItsTty
  StdinKept
PROPERTIES
  EverybodyEnds
  HelperLogsOut
CHECK_DEADLOCK FALSE
