CONSTANTS
  Conns = {c1, c2, c3}
  Resets = {c1}
  FdMax = 2
  Quota <- MoreFromResets
  NoConn = none
  OpenMax = 3
  MaxLine = 2
  SigPipe = TRUE
SPECIFICATION FairSpec
CHECK_DEADLOCK FALSE
INVARIANTS WatchedAll ReadsOnlyReady
PROPERTIES ImplementsEchoService Answered
