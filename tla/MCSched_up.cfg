\* One CPU, three tasks, one of them under job control.  Fairness of the timer
\* and the idle loop only; liveness, so no symmetry.
CONSTANTS
  t1 = t1 t2 = t2 t3 = t3 c1 = c1
  Task = {t1, t2, t3}
  Cpu = {c1}
  Stoppable = {t1}
  TimeSlice = 1
SPECIFICATION FairSpec
INVARIANTS  CpuRunsRunnable
PROPERTIES ImplementsInterface NoStarvation
