CONSTANTS
  MinThr = 2
  MaxThr = 2
  QueueMax = 1
  MinWaitTask = 1
  ThreadVary = 2
  Clients = {c1, c2}
  Tasks = {t1, t2}
  Null = null
  Junk = junk
  FreshArgs = {null}
  FreshWaitExit <- AnyWaitExit
  KillSeesExit = TRUE
  DestroyAfterAdds = TRUE
SPECIFICATION FairSpec
CHECK_DEADLOCK FALSE
INVARIANTS NoUseAfterFree NoStuckTask
PROPERTIES EveryTaskServed BlockedAddReturns DestroyReturnsUnlessLate
