\* One task on each side, signals for one, one fork.
CONSTANTS
  t1 = t1
  t2 = t2
  Reader = {t1}
  Writer = {t2}
  Byte = {0, 1}
  Junk = Junk
  PIPE_SIZE = 2
  EVENTFD_MAX = 2
  Waiter = {t1}
  Waker = {t2}
  cond = cond
  lock = lock
  Addr = {cond, lock}
  Cond = {cond}
  Timed = {t1}
  MaxForks = 1
  Target = {t1}
SPECIFICATION FairSpec
PROPERTIES CallsFinish
\* Every task may close its end of the pipe and leave.
CHECK_DEADLOCK FALSE
