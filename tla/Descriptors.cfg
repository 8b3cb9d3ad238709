CONSTANTS
  Last = 6
  FrameSize = 3
SPECIFICATION Spec
INVARIANTS
  TypeOK
  ChildIsIsolated
  OnlyTheFrame
  ZeroIsDelivered
