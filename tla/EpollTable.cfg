CONSTANTS
  MaxEvents = 2
  ScanLen = 1
  IdleMax = 0
  BufLen = 1
  LowByte = 1
  FdMax = 3
  Conns = {c1, c2, c3}
  InFlight = 1
  SigPipe = TRUE
  PartialSends = FALSE
  NoConn = noconn
SPECIFICATION Spec
SYMMETRY ConnSymmetry
INVARIANTS TableMatchesKernel DescriptorsOwned BatchFresh
PROPERTY ImplementsEchoService
