CONSTANTS
  MinThr = 1
  MaxThr = 2
  QueueMax = 2
  MinWaitTask = 1
  ThreadVary = 2
  Clients = {c1, c2}
  Tasks = {t1, t2, t3}
  Null = null
  Junk = junk
  FreshArgs = {null, junk}
  FreshWaitExit <- AnyWaitExit
  KillSeesExit = TRUE
  DestroyAfterAdds = FALSE
SPECIFICATION Spec
CHECK_DEADLOCK FALSE
INVARIANTS RunsOnlyAdded LiveBounds LiveCount SleepsOnlyIfLate
SYMMETRY Symmetry
