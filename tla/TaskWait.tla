------------------------------ MODULE TaskWait ------------------------------
(***************************************************************************)
(* What the scheduler promises the rest of the kernel: a task is runnable, *)
(* waiting (SLEEPING with a deadline, BLOCKED without one), STOPPED, a     *)
(* ZOMBIE or FREE, and a wake that arrives before the wait is remembered   *)
(* in wake_pending.  Which CPU runs a runnable task, and when, is not part *)
(* of the promise: module Sched adds it and is shown to implement this     *)
(* module.  The modules for pipes, futexes and signals are built on the    *)
(* operators below.                                                        *)
(***************************************************************************)
CONSTANT Task

VARIABLES phase,            \* the part of struct task.state a waiter can tell
          wake_pending      \* task_wake() raced ahead of task_block()

Phase == {"FREE", "RUNNABLE", "SLEEPING", "BLOCKED", "STOPPED", "ZOMBIE"}

Waiting == {t \in Task : phase[t] \in {"SLEEPING", "BLOCKED"}}
Live == {t \in Task : phase[t] \notin {"FREE", "ZOMBIE"}}

(* Module Sched says how a phase comes from the scheduler's own state.     *)

(***************************************************************************)
(* Operations.  Each is one critical section under sched_lock.             *)
(***************************************************************************)

(* The tasks in S leave their wait, whatever it was. *)
Resume(S) == phase' = [t \in Task |-> IF t \in S THEN "RUNNABLE" ELSE phase[t]]

task_start(t) ==
  /\ phase[t] = "FREE"
  /\ phase' = [phase EXCEPT ![t] = "RUNNABLE"]
  /\ wake_pending' = [wake_pending EXCEPT ![t] = FALSE]

(* task_block and task_sleep_ms: a remembered wake is consumed instead. *)
Wait(t, p) ==
  /\ phase[t] = "RUNNABLE"
  /\ phase' = [phase EXCEPT ![t] = IF wake_pending[t] THEN @ ELSE p]
  /\ wake_pending' = [wake_pending EXCEPT ![t] = FALSE]

task_block(t) == Wait(t, "BLOCKED")
task_sleep_ms(t) == Wait(t, "SLEEPING")

(* waitqueue_wake_all and its like: task_wake on each task of S.  A wake   *)
(* of a stopped or dead task is dropped.                                   *)
task_wake(S) ==
  /\ Resume(S \cap Waiting)
  /\ wake_pending' = [t \in Task |->
       wake_pending[t] \/ (t \in S /\ phase[t] = "RUNNABLE")]

(* group_exit_cb on every task of S, under one hold of the lock: a wake    *)
(* that also marks a stopped task, without continuing it.                  *)
group_exit_cb(S) ==
  /\ Resume(S \cap Waiting)
  /\ wake_pending' = [t \in Task |->
       wake_pending[t] \/ (t \in S /\ t \in Live \ Waiting)]

(* kill_all_cb on every task of S: marks them and wakes nobody. *)
kill_all_cb(S) ==
  /\ wake_pending' = [t \in Task |-> wake_pending[t] \/ (t \in S /\ t \in Live)]
  /\ UNCHANGED phase

(* wake_sleepers: the sleepers in due have reached their deadline, the     *)
(* tasks in ring their alarm.  An alarm wakes a waiter; anyone else (a     *)
(* sleeper the same tick has just made runnable included) is marked.       *)
wake_sleepers(due, ring) ==
  /\ \A t \in due : phase[t] = "SLEEPING"
  /\ Resume(due \cup (ring \cap Waiting))
  /\ wake_pending' = [t \in Task |->
       wake_pending[t] \/ (t \in ring /\ t \in Live /\ (t \in due \/ t \notin Waiting))]

task_stop(t) ==
  /\ phase[t] = "RUNNABLE"
  /\ phase' = [phase EXCEPT ![t] = "STOPPED"]
  /\ UNCHANGED wake_pending

task_continue(t) ==
  /\ phase[t] = "STOPPED"
  /\ phase' = [phase EXCEPT ![t] = "RUNNABLE"]
  /\ UNCHANGED wake_pending

task_exit(t) ==
  /\ phase[t] = "RUNNABLE"
  /\ phase' = [phase EXCEPT ![t] = "ZOMBIE"]
  /\ UNCHANGED wake_pending

(* The end of task_reap_zombies: the memory of a dead task is released. *)
task_free(t) ==
  /\ phase[t] = "ZOMBIE"
  /\ phase' = [phase EXCEPT ![t] = "FREE"]
  /\ UNCHANGED wake_pending

-----------------------------------------------------------------------------
Init ==
  /\ \E boot \in Task : phase = [t \in Task |-> IF t = boot THEN "RUNNABLE" ELSE "FREE"]
  /\ wake_pending = [t \in Task |-> FALSE]

Next ==
  \/ \E t \in Task :
       \/ task_start(t) \/ task_block(t) \/ task_sleep_ms(t) \/ task_wake({t})
       \/ task_stop(t) \/ task_continue(t) \/ task_exit(t) \/ task_free(t)
  \/ \E S \in SUBSET Live : group_exit_cb(S) \/ kill_all_cb(S)
  \/ \E due \in SUBSET Waiting, ring \in SUBSET Live : wake_sleepers(due, ring)

vars == <<phase, wake_pending>>
Spec == Init /\ [][Next]_vars
=============================================================================
