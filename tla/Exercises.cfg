CONSTANTS
  Consumers = {k1, k2, k3}
  MsgMax = 5
  Spurious = TRUE
  Nothing = nothing
  CustomerNum = 4
  Windows = 2
  Unknown = 99
  Forks = 5
  Objects = {s1, s2, s3}
  Addresses = {a1, a2, a3, a4}
  Texts <- ShortTexts
  Nowhere = nowhere
  Variables = {x1, x2}
  Doubles <- SmallDoubles
  Bound = 4
SPECIFICATION ExercisesSpec
CHECK_DEADLOCK FALSE
INVARIANTS NodesPreserved OwnBuffers ArithmeticConsistent
PROPERTIES ConsumingGoesOn ServedInTurn AllReaped
