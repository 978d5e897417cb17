\* Three tasks, safety only.
CONSTANTS
  t1 = t1
  t2 = t2
  t3 = t3
  Reader = {t1, t2}
  Writer = {t3}
  Byte = {0, 1}
  Junk = Junk
  PIPE_SIZE = 2
  EVENTFD_MAX = 2
  Waiter = {t1, t2}
  Waker = {t3}
  cond = cond
  lock = lock
  Addr = {cond, lock}
  Cond = {cond}
  Timed = {t1}
  MaxForks = 0
  Target = {t3}
SPECIFICATION Spec
INVARIANTS TypeOK NoLostWakeup NothingLost NoMissedStore WokenIsAwake
PROPERTIES ImplementsStream WakeWins
\* Every task may close its end of the pipe and leave.
CHECK_DEADLOCK FALSE
