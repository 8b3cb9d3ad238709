CONSTANTS
  Payloads <- SmallPayloads
  Capacity = 2
SPECIFICATION LiveSpec
INVARIANTS
  TypeOK
  ZeroIsEarned
  StartedIsTrue
  ChildIsOver
  Survives
PROPERTIES
  Returns
