CONSTANTS
  MaxName = 9
  MaxCanon = 44
  MaxPackages = 2
  Native <- x
  Worlds <- MachineStates
  Requests <- Asked
SPECIFICATION Spec
CHECK_DEADLOCK FALSE
INVARIANT OwnedIsNeverHeld
