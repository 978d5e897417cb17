\* Two CPUs and job control: task_stop() lets go of sched_lock before it yields.
CONSTANTS
  t1 = t1 t2 = t2 c1 = c1 c2 = c2
  Task = {t1, t2}
  Cpu = {c1, c2}
  Stoppable = {t1, t2}
  TimeSlice = 1
SPECIFICATION Spec
SYMMETRY Symmetry
INVARIANT OneCpuPerTask
