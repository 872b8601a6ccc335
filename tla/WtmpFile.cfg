SPECIFICATION FairSpec
CONSTANTS
  Writers = {w1, w2}
  Other = other
  Tries = 2
  MaxSize = 5
INVARIANTS
  TypeOK
  OneWriter
  Aligned
PROPERTIES
  ImplementsLog
  CallsEnd
