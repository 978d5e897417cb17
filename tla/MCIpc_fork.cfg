\* One task on each side, and a fork while futexes are in use (aarch64).
CONSTANTS
  t1 = t1
  t2 = t2
  Reader = {t1}
  Writer = {t2}
  Byte = {0, 1}
  Junk = Junk
  PIPE_SIZE = 2
  EVENTFD_MAX = 2
  Waiter = {t1}
  Waker = {t2}
  cond = cond
  lock = lock
  Addr = {cond, lock}
  Cond = {cond}
  Timed = {t1}
  MaxForks = 1
  Target = {t1}
SPECIFICATION Spec
INVARIANT NoMissedStore
\* Every task may close its end of the pipe and leave.
CHECK_DEADLOCK FALSE
