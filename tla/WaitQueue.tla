----------------------------- MODULE WaitQueue -----------------------------
(***************************************************************************)
(* Wait queues (kernel/proc/wait.c) and the loop of the macro              *)
(* wait_event_interruptible(wq, cond) in include/proc/wait.h, for the      *)
(* modules whose operations sleep until a condition holds.                 *)
(*                                                                         *)
(* A task inside the loop is at one of:                                    *)
(*   "add"    about to register with __wait_add                            *)
(*   "cond"   about to evaluate the condition, then task_signal_pending    *)
(*   "block"  about to call task_block                                     *)
(*   "again", "true", "intr"  about to call __wait_remove, then to loop,   *)
(*            to leave with 0, or to leave with -1                         *)
(***************************************************************************)
CONSTANTS Task, Queue

VARIABLES phase, wake_pending,  \* the scheduler's part, see TaskWait
          signalled,    \* task_signal_pending(t)
          waiting,      \* the tasks with an entry on each wait queue
          pc            \* where each task is

Kernel == INSTANCE TaskWait

InLoop == {"add", "cond", "block", "again", "true", "intr"}

(* Task t executes kernel code at `place`. *)
At(t, place) == pc[t] = place /\ phase[t] = "RUNNABLE"
Goto(t, place) == pc' = [pc EXCEPT ![t] = place]

wait_add(t, q) ==
  /\ At(t, "add")
  /\ waiting' = [waiting EXCEPT ![q] = @ \cup {t}]
  /\ Goto(t, "cond")
  /\ UNCHANGED <<phase, wake_pending, signalled>>

(* The condition is read without any lock, and the pending signals after   *)
(* it; no step of another task can tell these two reads from one.          *)
wait_cond(t, cond) ==
  /\ At(t, "cond")
  /\ Goto(t, CASE cond -> "true" [] ~cond /\ signalled[t] -> "intr" [] OTHER -> "block")
  /\ UNCHANGED <<phase, wake_pending, signalled, waiting>>

wait_block(t) ==
  /\ At(t, "block")
  /\ Kernel!task_block(t)
  /\ Goto(t, "again")
  /\ UNCHANGED <<signalled, waiting>>

(* ok is where the caller goes on when the condition held, eintr where it  *)
(* goes on when a signal was pending.                                      *)
wait_remove(t, q, ok, eintr) ==
  /\ At(t, "again") \/ At(t, "true") \/ At(t, "intr")
  /\ waiting' = [waiting EXCEPT ![q] = @ \ {t}]
  /\ Goto(t, CASE pc[t] = "again" -> "add" [] pc[t] = "true" -> ok [] OTHER -> eintr)
  /\ UNCHANGED <<phase, wake_pending, signalled>>

wait_event_interruptible(t, q, cond, ok, eintr) ==
  \/ wait_add(t, q) \/ wait_cond(t, cond) \/ wait_block(t)
  \/ wait_remove(t, q, ok, eintr)

(* Every task with an entry, under the queue's lock. *)
waitqueue_wake_all(q) == Kernel!task_wake(waiting[q])

(* task_send_signal(t) by anybody, as far as a sleeper can tell. *)
send_signal(t) ==
  /\ signalled' = [signalled EXCEPT ![t] = TRUE]
  /\ Kernel!task_wake({t})
=============================================================================
