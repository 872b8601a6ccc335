SPECIFICATION MCSpec
CONSTANTS
  Values = {0, 1}
  Default = 0
  Raw = Raw
  Bad = Bad
  Width = 4
  MaxArg = 2
  MaxSent = 5
INVARIANTS
  SizesFit
  ObjectsAreElements
  ActsAsSequence
  OnlyExtrasLeak
  IdsApart
