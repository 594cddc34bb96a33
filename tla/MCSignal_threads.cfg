CONSTANTS
  NSig = 2
  Uncatchable = {}
  Args = {1, 2}
  Objects = {a, b}
  Threads = {main, other}
  Main = main
  Fds = {3, 4, 5}
  PipeCap = 2
  BufSize = 2
  MaxSignals = 2
SPECIFICATION Spec
INVARIANTS NoLostSignal HandlerFdFresh
PROPERTY ImplementsNotification
CHECK_DEADLOCK FALSE
