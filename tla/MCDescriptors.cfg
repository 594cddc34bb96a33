CONSTANTS
  Files = {f, g}
  Pipes = {p, q}
  Fifos = {x, y}
  Fds = {0, 1, 2, 3}
  Std = {0, 1}
  Paths = {"teleop"}
  CopiesInvalid = FALSE
  MaxOpens = 4
SPECIFICATION Spec
INVARIANTS TypeOK Exclusive NotStale NoLeak LabelTrue
SYMMETRY ClassSymmetry
CHECK_DEADLOCK FALSE
