CONSTANTS
  FirstCap = 1
  MaxStdin = 4
  MaxSent = 6
SPECIFICATION LiveSpec
INVARIANTS
  TypeOK
  AcceptedIsWhole
  TooLargeIsTrue
  AtMostOneLateRead
  OnlyCopiesStay
PROPERTIES
  Returns
