CONSTANTS
  NSig = 3
  Uncatchable = {3}
  Args = {0, 1, 2, 3, 4}
  Objects = {a, b}
  Threads = {main}
  Main = main
  Fds = {3, 4, 5, 6}
  PipeCap = 3
  BufSize = 2
  MaxSignals = 3
SPECIFICATION FairSpec
INVARIANTS TypeOK NoLostSignal OneOwner NoFdLeak
PROPERTIES ImplementsNotification CallsReturn
CHECK_DEADLOCK FALSE
