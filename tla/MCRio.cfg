SPECIFICATION Spec
CONSTANTS
  Length = 4
  Newlines = {2}
  RIO_BUFSIZE = 2
  Sizes = {1, 3}
  Interrupts = 1
  Room = 4
CHECK_DEADLOCK FALSE
INVARIANTS
  TypeOK
  NothingLost
  ShortMeansEnd
  LinesAreWhole
  WrittenWhole
PROPERTY
  CallsReturn
