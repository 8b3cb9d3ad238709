CONSTANTS
  FirstCap = 1
  MaxStdin = 4
  MaxSent = 6
SPECIFICATION Spec
INVARIANTS
  FailureLeaksNothing
