CONSTANTS
  MinThr = 1
  MaxThr = 3
  QueueMax = 2
  MinWaitTask = 1
  ThreadVary = 1
  Clients = {c1, c2}
  Tasks = {t1, t2, t3}
  Null = null
  Junk = junk
  FreshArgs = {null}
  FreshWaitExit <- AnyWaitExit
  KillSeesExit = FALSE
  DestroyAfterAdds = TRUE
SPECIFICATION Spec
CHECK_DEADLOCK FALSE
INVARIANTS JoinTargetsExist FreedWereTaken
PROPERTY ImplementsTaskQueue
SYMMETRY Symmetry
