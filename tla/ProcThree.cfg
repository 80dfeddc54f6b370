CONSTANTS
  Conns = {c1, c2, c3}
  Resets = {c1}
  FdMax = 2
  Quota <- OnlyFromResets
  NoConn = none
  Server = server
  BufSiz = 1
  ForkFails = TRUE
  SigPipe = TRUE
SPECIFICATION FairSpec
CHECK_DEADLOCK FALSE
INVARIANT HeldByChild
PROPERTY Reaped
