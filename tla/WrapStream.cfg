CONSTANTS
  N = 3
  Frames = 2
  Capacity = 2
  BufLen = 2
  MaxLen = 4
SPECIFICATION StreamSpec
CHECK_DEADLOCK FALSE
INVARIANTS Lossless CallsAsPromised
PROPERTY AllArrive
