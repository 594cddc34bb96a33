CONSTANTS
  NSig = 1
  Uncatchable = {}
  Args = {1, 2}
  Objects = {a}
  Threads = {main, other}
  Main = main
  Fds = {3, 4}
  PipeCap = 2
  BufSize = 2
  MaxSignals = 2
SPECIFICATION Spec
INVARIANT WritesToOwnPipe
CHECK_DEADLOCK FALSE
