CONSTANTS
  Files = {f, g}
  Pipes = {}
  Fifos = {}
  Fds = {0, 1, 2, 3}
  Std = {0, 1}
  Paths = {"teleop"}
  CopiesInvalid = TRUE
  MaxOpens = 4
SPECIFICATION Spec
INVARIANT Exclusive
CHECK_DEADLOCK FALSE
