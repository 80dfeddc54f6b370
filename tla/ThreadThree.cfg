CONSTANTS
  Conns = {c1, c2, c3}
  Resets = {c1, c2, c3}
  FdMax = 2
  Quota <- MoreFromResets
  NoConn = none
  TsMax = 2
  Starts <- AnyStart
  MaxLine = 1
  CreateFails = TRUE
  SigPipe = TRUE
SPECIFICATION Spec
CHECK_DEADLOCK FALSE
SYMMETRY ConnSymmetry
INVARIANTS OwnConnection DescriptorsOwned
PROPERTY ImplementsEchoService
