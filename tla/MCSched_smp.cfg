\* Two CPUs, three tasks, nobody stopped.
CONSTANTS
  t1 = t1 t2 = t2 t3 = t3 c1 = c1 c2 = c2
  Task = {t1, t2, t3}
  Cpu = {c1, c2}
  Stoppable = {}
  TimeSlice = 1
SPECIFICATION Spec
SYMMETRY Symmetry
INVARIANTS TypeOK RunQueueIntact OneCpuPerTask IdleNeverParkedWithLock ReapedOnce
PROPERTIES ZombieStaysDead
