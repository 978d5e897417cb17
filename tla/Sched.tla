------------------------------- MODULE Sched -------------------------------
(***************************************************************************)
(* kernel/proc/sched.c: a preemptive round-robin scheduler, one global run *)
(* queue under sched_lock.  Every action below is one critical section of  *)
(* that lock (or of the heap's), executed by the task a CPU is running or  *)
(* by an interrupt on that CPU.                                            *)
(*                                                                         *)
(* The idle task of a CPU never leaves it, so it is named by the CPU.      *)
(***************************************************************************)
EXTENDS Naturals, Sequences, FiniteSets

CONSTANTS Task,         \* every task that can exist, idle tasks excepted
          Cpu,          \* the CPUs; also the names of their idle tasks
          Stoppable,    \* the tasks some stop signal is ever sent to
          TimeSlice     \* TIME_SLICE, in ticks

ASSUME TaskAssumption == IsFiniteSet(Task)
ASSUME CpuAssumption == Task \cap Cpu = {}
ASSUME StoppableAssumption == Stoppable \subseteq Task
ASSUME TimeSliceAssumption == TimeSlice \in Nat \ {0}

VARIABLES
  state,        \* struct task.state; FREE is a task that is not allocated
  rq,           \* rq_head .. rq_tail
  current,      \* struct cpu.current
  wake_pending, \* struct task.wake_pending
  slice_left,   \* slice_left of each CPU's current task: schedule() sets it
                \* before the task can look at it
  at,           \* where in the kernel a task is, between critical sections
  dead,         \* task_reap_zombies' list of unlinked tasks, per caller
  heap_lock     \* who holds the heap's lock, or Nobody

vars == <<state, rq, current, wake_pending, slice_left, at, dead, heap_lock>>

AnyTask == Task \cup Cpu
Nobody == "nobody"
ASSUME NobodyAssumption == Nobody \notin AnyTask

State == {"FREE", "READY", "RUNNING", "SLEEPING", "BLOCKED", "STOPPED", "ZOMBIE"}

(* "run" is anywhere outside the functions modelled in several steps. *)
TaskAt == {"run", "free", "stop_wake", "stop_yield"}
IdleAt == {"reap", "free", "check", "yield", "wait"}

Waiting == {t \in Task : state[t] \in {"SLEEPING", "BLOCKED"}}

(* all_tasks: allocated and not yet unlinked by a reaper. *)
Unlinked == UNION {dead[x] : x \in AnyTask}
\* Mutant: a reaper frees the zombies without unlinking them first.
all_tasks_never_unlinked == {t \in Task : state[t] # "FREE"}
all_tasks == {t \in Task : state[t] # "FREE"} \ Unlinked

(* The task that CPU c runs is executing kernel code outside sched_lock. *)
Running(c, place) == at[current[c]] = place
TaskRuns(c, place) == current[c] \in Task /\ Running(c, place)
IdleRuns(c, place) == current[c] = c /\ Running(c, place)

-----------------------------------------------------------------------------
(* The order in which a walk of all_tasks meets the tasks of S.  The list  *)
(* is ordered by creation, which the model does not keep: any order.       *)
Walks(S) ==
  {w \in [1..Cardinality(S) -> S] :
     /\ \A i, j \in DOMAIN w : w[i] = w[j] => i = j
     /\ \A t \in S : \E i \in DOMAIN w : w[i] = t}

(* rq_push on each task of the sequence w, in order, in the state st. *)
Pushed(st, w) == [t \in AnyTask |-> IF \E i \in DOMAIN w : w[i] = t THEN "READY" ELSE st[t]]

rq_push(w) ==
  /\ state' = Pushed(state, w)
  /\ rq' = rq \o w

\* Mutant: the idle task that is switched out stays RUNNING.
schedule_idle_kept_running(c, st) ==
  LET prev == current[c]
      next == IF rq = <<>> THEN c ELSE Head(rq)
      rest == IF rq = <<>> THEN <<>> ELSE Tail(rq)
      back == IF st[prev] = "RUNNING" /\ prev \in Task THEN <<prev>> ELSE <<>>
      off  == [st EXCEPT ![prev] = IF @ = "RUNNING" /\ prev \in Task THEN "READY" ELSE @]
  IN  IF rq = <<>> /\ st[prev] = "RUNNING"
      THEN /\ state' = st
           /\ UNCHANGED <<rq, current, slice_left>>
      ELSE /\ state' = [off EXCEPT ![next] = "RUNNING"]
           /\ rq' = rest \o back
           /\ current' = [current EXCEPT ![c] = next]
           /\ slice_left' = [slice_left EXCEPT ![c] = TimeSlice]

\* Mutant: the preempted task goes to the front of the queue.
schedule_front(c, st) ==
  LET prev == current[c]
      next == IF rq = <<>> THEN c ELSE Head(rq)
      rest == IF rq = <<>> THEN <<>> ELSE Tail(rq)
      back == IF st[prev] = "RUNNING" /\ prev \in Task THEN <<prev>> ELSE <<>>
      off  == [st EXCEPT ![prev] = IF @ = "RUNNING" THEN "READY" ELSE @]
  IN  IF rq = <<>> /\ st[prev] = "RUNNING"
      THEN /\ state' = st
           /\ UNCHANGED <<rq, current, slice_left>>
      ELSE /\ state' = [off EXCEPT ![next] = "RUNNING"]
           /\ rq' = back \o rest
           /\ current' = [current EXCEPT ![c] = next]
           /\ slice_left' = [slice_left EXCEPT ![c] = TimeSlice]

(* schedule() on CPU c, its caller having changed the states to st: take   *)
(* the head of the queue or, when the caller cannot go on, the idle task.  *)
schedule(c, st) ==
  LET prev == current[c]
      next == IF rq = <<>> THEN c ELSE Head(rq)
      rest == IF rq = <<>> THEN <<>> ELSE Tail(rq)
      back == IF st[prev] = "RUNNING" /\ prev \in Task THEN <<prev>> ELSE <<>>
      off  == [st EXCEPT ![prev] = IF @ = "RUNNING" THEN "READY" ELSE @]
  IN  IF rq = <<>> /\ st[prev] = "RUNNING"
      THEN /\ state' = st
           /\ UNCHANGED <<rq, current, slice_left>>
      ELSE /\ state' = [off EXCEPT ![next] = "RUNNING"]
           /\ rq' = rest \o back
           /\ current' = [current EXCEPT ![c] = next]
           /\ slice_left' = [slice_left EXCEPT ![c] = TimeSlice]

-----------------------------------------------------------------------------
(* Operations of the task that CPU c runs.                                 *)

task_yield(c) ==
  /\ TaskRuns(c, "run") /\ heap_lock # current[c]
  /\ schedule(c, state)
  /\ UNCHANGED <<wake_pending, at, dead, heap_lock>>

\* Mutant: blocks without looking at wake_pending.
Wait_forgets_pending(c, s) ==
  LET t == current[c] IN
  /\ TaskRuns(c, "run") /\ heap_lock # t
  /\ schedule(c, [state EXCEPT ![t] = s])
  /\ UNCHANGED <<wake_pending, at, dead, heap_lock>>

(* task_sleep_ms (s = "SLEEPING") and task_block (s = "BLOCKED"). *)
Wait(c, s) ==
  LET t == current[c] IN
  /\ TaskRuns(c, "run") /\ heap_lock # t
  /\ IF wake_pending[t]
     THEN UNCHANGED <<state, rq, current, slice_left>>
     ELSE schedule(c, [state EXCEPT ![t] = s])
  /\ wake_pending' = [wake_pending EXCEPT ![t] = FALSE]
  /\ UNCHANGED <<at, dead, heap_lock>>

task_sleep_ms(c) == Wait(c, "SLEEPING")
task_block(c) == Wait(c, "BLOCKED")

\* Mutant: queues a task that is runnable already.
Wakes_runnable(t) ==
  /\ rq_push(IF t \in Waiting \/ state[t] = "READY" THEN <<t>> ELSE <<>>)
  /\ UNCHANGED wake_pending

\* Mutant: queues whatever is not running or stopped, the dead included.
Wakes_the_dead(t) ==
  /\ rq_push(IF t \in Waiting \/ state[t] = "ZOMBIE" THEN <<t>> ELSE <<>>)
  /\ wake_pending' = IF state[t] \in {"READY", "RUNNING"}
                     THEN [wake_pending EXCEPT ![t] = TRUE] ELSE wake_pending

(* What task_wake(t) does to the queue and to t. *)
Wakes(t) ==
  /\ rq_push(IF t \in Waiting THEN <<t>> ELSE <<>>)
  /\ wake_pending' = IF state[t] \in {"READY", "RUNNING"}
                     THEN [wake_pending EXCEPT ![t] = TRUE] ELSE wake_pending

task_wake(c, t) ==
  /\ TaskRuns(c, "run") /\ heap_lock # current[c]
  /\ t \in all_tasks
  /\ Wakes(t)
  /\ UNCHANGED <<current, slice_left, at, dead, heap_lock>>

(* An interrupt handler (a driver, the console) wakes a waiter. *)
irq_wake(t) ==
  /\ t \in all_tasks
  /\ Wakes(t)
  /\ UNCHANGED <<current, slice_left, at, dead, heap_lock>>

(* The live tasks that a task_foreach() callback picks: the threads or the *)
(* processes it is after, which this module does not tell apart.           *)
Picks(c) == SUBSET {t \in all_tasks : t # current[c] /\ state[t] # "ZOMBIE"}

(* task_foreach(group_exit_cb) over the other threads G of the caller. *)
group_exit(c) ==
  /\ TaskRuns(c, "run") /\ heap_lock # current[c]
  /\ \E G \in Picks(c) :
       /\ \E w \in Walks(G \cap Waiting) : rq_push(w)
       /\ wake_pending' = [t \in Task |-> wake_pending[t] \/ t \in G \ Waiting]
  /\ UNCHANGED <<current, slice_left, at, dead, heap_lock>>

(* kill(-1)'s task_foreach(kill_all_cb) over the processes G: marks only. *)
kill_all(c) ==
  /\ TaskRuns(c, "run") /\ heap_lock # current[c]
  /\ \E G \in Picks(c) :
       wake_pending' = [t \in Task |-> wake_pending[t] \/ t \in G]
  /\ UNCHANGED <<state, rq, current, slice_left, at, dead, heap_lock>>

task_start(c, t) ==
  /\ TaskRuns(c, "run") /\ heap_lock # current[c]
  /\ state[t] = "FREE"
  /\ rq_push(<<t>>)
  /\ wake_pending' = [wake_pending EXCEPT ![t] = FALSE]
  /\ at' = [at EXCEPT ![t] = "run"]
  /\ UNCHANGED <<current, slice_left, dead, heap_lock>>

\* Mutant: lets go of the lock between becoming a zombie and the switch.
task_exit_unlocked(c) ==
  /\ TaskRuns(c, "run") /\ heap_lock # current[c]
  /\ state' = [state EXCEPT ![current[c]] = "ZOMBIE"]
  /\ UNCHANGED <<rq, current, slice_left, wake_pending, at, dead, heap_lock>>

task_exit(c) ==
  /\ TaskRuns(c, "run") /\ heap_lock # current[c]
  /\ schedule(c, [state EXCEPT ![current[c]] = "ZOMBIE"])
  /\ UNCHANGED <<wake_pending, at, dead, heap_lock>>

-----------------------------------------------------------------------------
(* Job control.  task_stop() marks the task under the lock, lets the lock  *)
(* go, wakes the parent and only then yields.                              *)

task_stop(c) ==
  LET t == current[c] IN
  /\ TaskRuns(c, "run") /\ heap_lock # t /\ t \in Stoppable
  /\ state' = [state EXCEPT ![t] = "STOPPED"]
  /\ at' = [at EXCEPT ![t] = "stop_wake"]
  /\ UNCHANGED <<rq, current, wake_pending, slice_left, dead, heap_lock>>

(* task_find(parent_id) and task_wake: the parent may be gone. *)
task_stop_wake(c) ==
  /\ TaskRuns(c, "stop_wake")
  /\ at' = [at EXCEPT ![current[c]] = "stop_yield"]
  /\ \/ UNCHANGED <<state, rq, wake_pending>>
     \/ \E p \in all_tasks \ {current[c]} : Wakes(p)
  /\ UNCHANGED <<current, slice_left, dead, heap_lock>>

task_stop_yield(c) ==
  /\ TaskRuns(c, "stop_yield")
  /\ at' = [at EXCEPT ![current[c]] = "run"]
  /\ schedule(c, state)
  /\ UNCHANGED <<wake_pending, dead, heap_lock>>

(* SIGCONT, sent by another task. *)
task_continue(c, t) ==
  /\ TaskRuns(c, "run") /\ heap_lock # current[c]
  /\ t \in all_tasks /\ state[t] = "STOPPED"
  /\ rq_push(<<t>>)
  /\ UNCHANGED <<current, wake_pending, slice_left, at, dead, heap_lock>>

-----------------------------------------------------------------------------
(* Reaping.  The zombies nobody waits for are unlinked under the lock and  *)
(* freed outside it.  Whether a zombie's parent still waits for it is      *)
(* module Process's business: any subset may be ready to go.               *)

Unbusy == {t \in all_tasks : state[t] = "ZOMBIE" /\ \A c \in Cpu : current[c] # t}

task_reap_zombies(c) ==
  LET x == current[c] IN
  /\ (TaskRuns(c, "run") /\ heap_lock # x) \/ IdleRuns(c, "reap")
  /\ \E D \in SUBSET Unbusy : dead' = [dead EXCEPT ![x] = D]
  /\ at' = [at EXCEPT ![x] = "free"]
  /\ UNCHANGED <<state, rq, current, wake_pending, slice_left, heap_lock>>

(* Freeing a dead task takes the heap's lock, as does any other kfree or   *)
(* kmalloc: spin_lock without disabling interrupts.                        *)
heap_acquire(c) ==
  LET x == current[c] IN
  /\ heap_lock = Nobody
  /\ TaskRuns(c, "run") \/ (Running(c, "free") /\ dead[x] # {})
  /\ heap_lock' = x
  /\ UNCHANGED <<state, rq, current, wake_pending, slice_left, at, dead>>

heap_release(c) ==
  LET x == current[c] IN
  /\ heap_lock = x
  /\ IF at[x] = "free"
     THEN \E t \in dead[x] : /\ state' = [state EXCEPT ![t] = "FREE"]
                             /\ dead' = [dead EXCEPT ![x] = @ \ {t}]
     ELSE UNCHANGED <<state, dead>>
  /\ heap_lock' = Nobody
  /\ UNCHANGED <<rq, current, wake_pending, slice_left, at>>

reap_done(c) ==
  LET x == current[c] IN
  /\ Running(c, "free") /\ dead[x] = {}
  /\ at' = [at EXCEPT ![x] = IF x \in Task THEN "run" ELSE "check"]
  /\ UNCHANGED <<state, rq, current, wake_pending, slice_left, dead, heap_lock>>

-----------------------------------------------------------------------------
(* The rest of idle_main: at[c] = "wait" is idle_waiting[c]. *)

idle_check(c) ==
  /\ IdleRuns(c, "check")
  /\ at' = [at EXCEPT ![c] = IF rq # <<>> THEN "yield" ELSE "wait"]
  /\ UNCHANGED <<state, rq, current, wake_pending, slice_left, dead, heap_lock>>

idle_yield(c) ==
  /\ IdleRuns(c, "yield")
  /\ at' = [at EXCEPT ![c] = "reap"]
  /\ schedule(c, state)
  /\ UNCHANGED <<wake_pending, dead, heap_lock>>

(* arch_idle() returns: some interrupt came. *)
idle_resume(c) ==
  /\ IdleRuns(c, "wait")
  /\ at' = [at EXCEPT ![c] = "reap"]
  /\ UNCHANGED <<state, rq, current, wake_pending, slice_left, dead, heap_lock>>

-----------------------------------------------------------------------------
(* wake_sleepers(): due are the sleepers whose wake_at has passed, ring the *)
(* tasks whose alarm_at has.  Time itself is not modelled, so they are      *)
(* arbitrary.                                                               *)
wake_sleepers ==
  \E due \in SUBSET {t \in all_tasks : state[t] = "SLEEPING"},
     ring \in SUBSET {t \in all_tasks : state[t] # "ZOMBIE"} :
    /\ \E w \in Walks(due \cup (ring \cap Waiting)) : rq_push(w)
    /\ wake_pending' = [t \in Task |-> wake_pending[t] \/ t \in ring \ (Waiting \ due)]

\* Mutant: decrements the quantum without the test that it is not used up.
sched_tick_underflow(c) ==
  /\ wake_sleepers
  /\ slice_left' = [slice_left EXCEPT ![c] = @ - 1]
  /\ UNCHANGED <<current, at, dead, heap_lock>>

(* The timer interrupt on CPU c. *)
sched_tick(c) ==
  /\ wake_sleepers
  /\ LET left == IF slice_left[c] > 0 THEN slice_left[c] - 1 ELSE 0
     IN  slice_left' = [slice_left EXCEPT ![c] =
                          IF rq' # <<>> /\ current[c] = c THEN 0 ELSE left]
  /\ UNCHANGED <<current, at, dead, heap_lock>>

\* Mutant: preempts the idle task anywhere in its loop.
sched_preempt_idle_anywhere(c) ==
  /\ rq # <<>>
  /\ current[c] = c \/ slice_left[c] = 0
  /\ schedule(c, state)
  /\ UNCHANGED <<wake_pending, at, dead, heap_lock>>

(* The epilogue of any interrupt on CPU c. *)
sched_preempt(c) ==
  /\ rq # <<>>
  /\ IF current[c] = c THEN at[c] = "wait" ELSE slice_left[c] = 0
  /\ schedule(c, state)
  /\ UNCHANGED <<wake_pending, at, dead, heap_lock>>

-----------------------------------------------------------------------------
(* sched_init on the boot CPU, sched_init_ap on the others: one task runs, *)
(* every other CPU is in its idle task.                                    *)
Init ==
  \E boot \in Task, bsp \in Cpu :
    /\ state = [x \in AnyTask |-> IF x = boot \/ x \in Cpu \ {bsp} THEN "RUNNING"
                                  ELSE IF x = bsp THEN "READY" ELSE "FREE"]
    /\ rq = <<>>
    /\ current = [c \in Cpu |-> IF c = bsp THEN boot ELSE c]
    /\ wake_pending = [t \in Task |-> FALSE]
    /\ slice_left = [c \in Cpu |-> IF c = bsp THEN TimeSlice ELSE 0]
    /\ at = [x \in AnyTask |-> IF x \in Cpu THEN "reap" ELSE "run"]
    /\ dead = [x \in AnyTask |-> {}]
    /\ heap_lock = Nobody

TaskStep(c) ==
  \/ task_yield(c) \/ task_sleep_ms(c) \/ task_block(c) \/ task_exit(c)
  \/ task_stop(c) \/ task_stop_wake(c) \/ task_stop_yield(c)
  \/ \E t \in Task : task_wake(c, t) \/ task_start(c, t) \/ task_continue(c, t)
  \/ group_exit(c) \/ kill_all(c)
  \/ task_reap_zombies(c) \/ heap_acquire(c) \/ heap_release(c) \/ reap_done(c)
  \/ idle_check(c) \/ idle_yield(c) \/ idle_resume(c)

Interrupt(c) ==
  \/ sched_preempt(c) \/ sched_tick(c)
  \/ \E t \in Task : irq_wake(t)

Next == \E c \in Cpu : TaskStep(c) \/ Interrupt(c)

Spec == Init /\ [][Next]_vars

(* Every CPU takes timer interrupts and acts on them, and an idle CPU goes *)
(* round its loop: the code the kernel itself runs.  Nothing is assumed of *)
(* the tasks, which may keep their CPU until they are preempted.           *)
IdleLoop(c) ==
  /\ current[c] = c
  /\ \/ task_reap_zombies(c) \/ heap_acquire(c) \/ heap_release(c) \/ reap_done(c)
     \/ idle_check(c) \/ idle_yield(c) \/ idle_resume(c)

Fairness ==
  \A c \in Cpu :
    /\ WF_vars(IdleLoop(c))
    /\ WF_vars(sched_preempt(c))
    /\ WF_vars(sched_tick(c))

FairSpec == Spec /\ Fairness

-----------------------------------------------------------------------------
(* Properties.                                                             *)

(* The state of sched.c keeps its types; slice_left never wraps below 0.   *)
TypeOK ==
  /\ state \in [AnyTask -> State]
  /\ rq \in Seq(Task)
  /\ current \in [Cpu -> AnyTask]
  /\ wake_pending \in [Task -> BOOLEAN]
  /\ slice_left \in [Cpu -> 0..TimeSlice]
  /\ at \in [AnyTask -> TaskAt \cup IdleAt]
  /\ dead \in [AnyTask -> SUBSET Task]
  /\ heap_lock \in AnyTask \cup {Nobody}

(* The linked list of the run queue is intact: rq_push() is never called   *)
(* on a task that is already queued (which would cut the list), and the    *)
(* queued tasks are exactly the READY ones, so no runnable task is lost.   *)
RunQueueIntact ==
  /\ \A i, j \in DOMAIN rq : rq[i] = rq[j] => i = j
  /\ \A t \in Task : state[t] = "READY" <=> \E i \in DOMAIN rq : rq[i] = t

(* schedule() never puts one task, with its one kernel stack, on two CPUs, *)
(* an idle task only ever runs on its own CPU, and a RUNNING task is       *)
(* really on some CPU.                                                     *)
OneCpuPerTask ==
  /\ \A c, d \in Cpu : current[c] = current[d] => c = d
  /\ \A c \in Cpu : current[c] \in Task \cup {c}
  /\ \A x \in AnyTask : state[x] = "RUNNING" => \E c \in Cpu : current[c] = x

(* A CPU never executes a task that has exited ("zombie resumed?!") or     *)
(* that waits: between critical sections its task is RUNNING, or has just  *)
(* marked itself STOPPED on its way to task_stop()'s yield.                *)
CpuRunsRunnable ==
  \A c \in Cpu :
    \/ state[current[c]] = "RUNNING"
    \/ state[current[c]] = "STOPPED" /\ at[current[c]] \in {"stop_wake", "stop_yield"}

(* The comment on idle_waiting: an idle task is never switched out while   *)
(* it holds the heap's lock, since the CPU could spin on that lock forever *)
(* and never come back to its idle task.                                   *)
IdleNeverParkedWithLock == heap_lock \in Cpu => current[heap_lock] = heap_lock

(* task_reap_zombies() may run on several CPUs at once: a task is on at    *)
(* most one list of dead tasks, so it is freed once, and what is freed is  *)
(* neither on a CPU nor in the run queue.                                  *)
ReapedOnce ==
  /\ \A x, y \in AnyTask : x # y => dead[x] \cap dead[y] = {}
  /\ \A t \in Unlinked : /\ state[t] = "ZOMBIE"
                         /\ \A c \in Cpu : current[c] # t

(* A zombie's state only ever changes by being freed: nothing (a late      *)
(* wake, an alarm, kill(-1), SIGCONT) brings a dead task back.             *)
ZombieStaysDead ==
  [][\A t \in Task : state[t] = "ZOMBIE" => state'[t] \in {"ZOMBIE", "FREE"}]_vars

(* Round robin: a runnable task gets a CPU, however long the tasks before  *)
(* it would like to run.                                                   *)
NoStarvation == \A t \in Task : state[t] = "READY" ~> state[t] = "RUNNING"

(* The scheduler implements the wait/wake interface of module TaskWait:    *)
(* switching CPUs between tasks never changes what a waiter can observe.   *)
phase == [t \in Task |-> IF state[t] \in {"READY", "RUNNING"} THEN "RUNNABLE" ELSE state[t]]
Interface == INSTANCE TaskWait
ImplementsInterface == Interface!Spec
=============================================================================
