CONSTANTS
  MaxEvents = 2
  ScanLen = 1
  IdleMax = 0
  BufLen = 2
  LowByte = 2
  FdMax = 1
  Conns = {c1, c2}
  InFlight = 2
  SigPipe = TRUE
  PartialSends = TRUE
  NoConn = noconn
SPECIFICATION FairSpec
PROPERTIES BacklogServed Answered
