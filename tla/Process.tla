------------------------------- MODULE Process ------------------------------
(***************************************************************************)
(* The life of processes and threads: fork, clone and exec                 *)
(* (kernel/proc/elf.c), exit, exit_group, wait4 and the reaper             *)
(* (kernel/proc/sched.c, syscall.c), and the signals that take part in it: *)
(* SIGKILL, SIGCHLD, SIGCONT and SIGSTOP.  How a signal travels is in      *)
(* module Signal, how tasks share the CPUs in module Sched.                *)
(***************************************************************************)
EXTENDS Naturals, FiniteSets, FiniteSetsExt

CONSTANTS MaxTasks,     \* bound: how many tasks are ever started
          Code,         \* exit codes the programs choose
          Catcher,      \* tasks that keep SIGCHLD blocked and catch it and SIGCONT
          Cloner,       \* tasks whose program starts threads
          Execer,       \* tasks whose program calls exec
          Sends         \* pairs of a task and a signal the programs may send to it

Task == 1..MaxTasks     \* task ids; 1 is init
SIGKILL == 9
SIGCHLD == 17
SIGCONT == 18
SIGSTOP == 19

VARIABLES
  phase, wake_pending,  \* see TaskWait
  pc,                   \* where in the kernel a task is, or "user"
  next_id, parent_id, tgid, is_thread,
  exit_code, group_exit, reaped,
  sig_pending,
  stop_reported,
  checked,              \* the program's last wait4(WNOHANG) found no dead child
  swept,                \* history: the processes whose threads exit_group has marked
  asked,                \* history: the exit codes given for a process
  told                  \* history: how often wait4 has returned a dead process

kvars == <<phase, wake_pending>>
family == <<next_id, parent_id, tgid, is_thread>>
exits == <<exit_code, group_exit, asked>>
collect == <<reaped, stop_reported, told>>
vars == <<kvars, pc, family, exits, collect, sig_pending, checked, swept>>

Kernel == INSTANCE TaskWait

Listed == {t \in Task : phase[t] # "FREE"}      \* all_tasks
Alive == {t \in Listed : phase[t] # "ZOMBIE"}

At(t, place) == pc[t] = place /\ phase[t] = "RUNNABLE"
Goto(t, place) == pc' = [pc EXCEPT ![t] = place]
Set(f, t, v) == [f EXCEPT ![t] = v]

(* SIGCHLD is blocked everywhere but in sigsuspend, and on the way out of  *)
(* it until deliver() puts the mask back.                                  *)
Deliverable(t) ==
  IF pc[t] = "return_suspend" THEN sig_pending[t] ELSE sig_pending[t] \ {SIGCHLD}
task_signal_pending(t) == group_exit[t] \/ Deliverable(t) # {}

-----------------------------------------------------------------------------
(* The last step of a system call, with the check signal_deliver_syscall   *)
(* makes.  A signal that comes later finds the task in user mode.          *)
Return(t) == Goto(t, IF task_signal_pending(t) THEN "return" ELSE "user")

(* A program calls fork, clone or exec: all they do before their first     *)
(* shared step.                                                            *)
syscall(t) ==
  /\ At(t, "user")
  /\ \/ Goto(t, "fork")
     \/ t \in Cloner /\ Goto(t, "clone")
     \/ t \in Execer /\ Goto(t, "exec")
  /\ UNCHANGED <<kvars, family, exits, collect, sig_pending, checked, swept>>

(* signal_deliver_irq: the timer finds user mode with something pending. *)
interrupt(t) ==
  /\ At(t, "user") /\ task_signal_pending(t)
  /\ Goto(t, "return")
  /\ UNCHANGED <<kvars, family, exits, collect, sig_pending, checked, swept>>

(* process_fork_on and process_clone, up to task_start.  A new process is  *)
(* the child of the caller's process, a new thread a sibling of it.        *)
task_start(t, thread) ==
  LET u == next_id IN
  /\ u <= MaxTasks /\ next_id' = u + 1
  /\ Kernel!task_start(u)
  /\ parent_id' = Set(parent_id, u, IF thread THEN parent_id[t] ELSE tgid[t])
  /\ tgid' = Set(tgid, u, IF thread THEN tgid[t] ELSE u)
  /\ is_thread' = Set(is_thread, u, thread)
  /\ Return(t)
  /\ UNCHANGED <<exits, collect, sig_pending, checked, swept>>

process_fork(t) == At(t, "fork") /\ task_start(t, FALSE)
process_clone(t) == At(t, "clone") /\ task_start(t, TRUE)

(* Memory runs out before the point of no return. *)
enomem(t) ==
  /\ At(t, "fork") \/ At(t, "clone") \/ At(t, "exec")
  /\ Return(t)
  /\ UNCHANGED <<kvars, family, exits, collect, sig_pending, checked, swept>>

-----------------------------------------------------------------------------
(* exit and exec *)

OtherThreads(t) == {u \in Alive \ {t} : tgid[u] = tgid[t] /\ ~group_exit[u]}


\* Mutant: the other threads are marked and left asleep.
group_exit_cb_no_wake(t) ==
  /\ exit_code' = [u \in Task |-> IF u \in OtherThreads(t) THEN exit_code[t] ELSE exit_code[u]]
  /\ group_exit' = [u \in Task |-> group_exit[u] \/ u \in OtherThreads(t)]
  /\ UNCHANGED kvars

(* task_foreach(group_exit_cb): the other threads get the caller's code    *)
(* and the mark, and leave whatever they sleep in.                         *)
group_exit_cb(t) ==
  /\ exit_code' = [u \in Task |-> IF u \in OtherThreads(t) THEN exit_code[t] ELSE exit_code[u]]
  /\ group_exit' = [u \in Task |-> group_exit[u] \/ u \in OtherThreads(t)]
  /\ Kernel!group_exit_cb(OtherThreads(t))

(* task_exit_group starts: its own code and mark, under no lock. *)
exit_group(t, code) ==
  /\ exit_code' = Set(exit_code, t, code)
  /\ group_exit' = Set(group_exit, t, TRUE)
  /\ asked' = [asked EXCEPT ![tgid[t]] = @ \cup {code}]
  /\ Goto(t, "mark")

sys_exit_group(t) == \E code \in Code :
  /\ At(t, "user") /\ t # 1
  /\ exit_group(t, code)
  /\ UNCHANGED <<kvars, family, collect, sig_pending, checked, swept>>

(* exit(2): a thread goes alone; the leader leaving ends the process. *)
task_exit_code(t) == \E code \in Code :
  /\ At(t, "user") /\ t # 1
  /\ IF is_thread[t] \/ group_exit[t]
     THEN /\ exit_code' = Set(exit_code, t, code)
          /\ asked' = [asked EXCEPT ![tgid[t]] = @ \cup {code}]
          /\ Goto(t, "die")
          /\ UNCHANGED group_exit
     ELSE exit_group(t, code)
  /\ UNCHANGED <<kvars, family, collect, sig_pending, checked, swept>>

mark(t) ==
  /\ At(t, "mark")
  /\ group_exit_cb(t)
  /\ swept' = swept \cup {tgid[t]}
  /\ Goto(t, "notify")
  /\ UNCHANGED <<family, collect, sig_pending, asked, checked>>

\* Mutant: the bit of the next lower signal.
notify_wrong_bit(t) ==
  LET p == parent_id[t] IN
  /\ At(t, "notify")
  /\ IF p \in Alive \cap Catcher
     THEN sig_pending' = [sig_pending EXCEPT ![p] = @ \cup {SIGCHLD - 1}] /\ Kernel!task_wake({p})
     ELSE UNCHANGED <<sig_pending, kvars>>
  /\ Goto(t, "reparent")
  /\ UNCHANGED <<family, exits, collect, checked, swept>>

(* SIGCHLD for the parent, from a task that is not a zombie yet.  A parent *)
(* that does not catch it has it discarded at once.                        *)
notify(t) ==
  LET p == parent_id[t] IN
  /\ At(t, "notify")
  /\ IF p \in Alive \cap Catcher
     THEN sig_pending' = [sig_pending EXCEPT ![p] = @ \cup {SIGCHLD}] /\ Kernel!task_wake({p})
     ELSE UNCHANGED <<sig_pending, kvars>>
  /\ Goto(t, "reparent")
  /\ UNCHANGED <<family, exits, collect, checked, swept>>


(* The children go to init; nobody needs to collect the dead ones. *)
reparent(t) ==
  LET S == {c \in Listed : parent_id[c] = tgid[t]} IN
  /\ At(t, "reparent")
  /\ parent_id' = [c \in Task |-> IF c \in S THEN 1 ELSE parent_id[c]]
  /\ reaped' = [c \in Task |-> reaped[c] \/ (c \in S /\ phase[c] = "ZOMBIE")]
  /\ Goto(t, "die")
  /\ UNCHANGED <<kvars, next_id, tgid, is_thread, exits, stop_reported, told, sig_pending, checked, swept>>

(* Files and memory are released, then TASK_ZOMBIE. *)
die(t) ==
  /\ At(t, "die")
  /\ Kernel!task_exit(t)
  /\ Goto(t, "dead")
  /\ UNCHANGED <<family, exits, collect, sig_pending, checked, swept>>

(* process_exec_ap past the point of no return: the other threads are told *)
(* to exit, and a thread becomes a process of its own, leaving the leader  *)
(* to die with the thread's exit_code.                                     *)
process_exec(t) ==
  /\ At(t, "exec")
  /\ group_exit_cb(t)
  /\ asked' = [asked EXCEPT ![tgid[t]] = IF is_thread[t] THEN @ \cup {exit_code[t]} ELSE @]
  /\ Goto(t, "become")
  /\ UNCHANGED <<family, collect, sig_pending, checked, swept>>

(* Two threads that exec at once have marked each other by now. *)
become(t) ==
  /\ At(t, "become")
  /\ is_thread' = Set(is_thread, t, FALSE)
  /\ tgid' = Set(tgid, t, IF is_thread[t] THEN t ELSE tgid[t])
  /\ asked' = [asked EXCEPT ![t] = IF group_exit[t] THEN @ \cup {exit_code[t]} ELSE @]
  /\ Goto(t, "user")
  /\ UNCHANGED <<kvars, next_id, parent_id, exit_code, group_exit, collect, sig_pending, checked, swept>>

-----------------------------------------------------------------------------
(* wait4(-1, status, WUNTRACED), with or without WNOHANG *)

Children(t) ==
  {c \in Listed \ {t} : parent_id[c] = tgid[t] /\ ~reaped[c] /\ ~is_thread[c]}
Collectable(t) ==
  {c \in Children(t) : phase[c] = "ZOMBIE" \/ (phase[c] = "STOPPED" /\ ~stop_reported[c])}

collect_child(c) ==
  IF phase[c] = "ZOMBIE"
  THEN reaped' = Set(reaped, c, TRUE) /\ told' = [told EXCEPT ![c] = @ + 1] /\ UNCHANGED stop_reported
  ELSE stop_reported' = Set(stop_reported, c, TRUE) /\ UNCHANGED <<reaped, told>>

(* task_collect_child_opts, called by wait4 and again after each nap: the  *)
(* newest child that is dead or newly stopped; else -ECHILD, 0 or -EINTR,  *)
(* or another task_sleep_ms(1).                                            *)
task_collect_child_opts(t) == \E nohang \in BOOLEAN :
  /\ At(t, "user") \/ (At(t, "wait4") /\ ~nohang)
  /\ \/ /\ Collectable(t) # {}
        /\ collect_child(Max(Collectable(t)))
        /\ Goto(t, "reap")
        /\ UNCHANGED <<kvars, checked>>
     \/ /\ Collectable(t) = {} /\ (Children(t) = {} \/ nohang \/ task_signal_pending(t))
        /\ Return(t)
        /\ checked' = Set(checked, t, nohang /\ Children(t) # {} /\ t \in Catcher)
        /\ UNCHANGED <<kvars, collect>>
     \/ /\ Collectable(t) = {} /\ Children(t) # {} /\ ~nohang /\ ~task_signal_pending(t)
        /\ Kernel!task_sleep_ms(t)
        /\ Goto(t, "wait4")
        /\ UNCHANGED <<collect, checked>>
  /\ UNCHANGED <<family, exits, sig_pending, swept>>

timer(t) ==
  /\ phase[t] = "SLEEPING"
  /\ Kernel!wake_sleepers({t}, {})
  /\ UNCHANGED <<pc, family, exits, collect, sig_pending, checked, swept>>

(* task_reap_zombies keeps a dead leader while its parent may collect it.  *)
Freeable ==
  {t \in Task : phase[t] = "ZOMBIE" /\ (is_thread[t] \/ reaped[t] \/ parent_id[t] \notin Alive)}

task_reap_zombies ==
  /\ phase' = [t \in Task |-> IF t \in Freeable THEN "FREE" ELSE phase[t]]
  /\ UNCHANGED <<wake_pending, family, exits, collect, sig_pending, checked, swept>>

idle_reaps == Freeable # {} /\ task_reap_zombies /\ UNCHANGED pc
wait4_reaps(t) == At(t, "reap") /\ task_reap_zombies /\ Return(t)

-----------------------------------------------------------------------------
(* Signals *)

(* kill(2) through task_send_signal; a process is addressed by its leader. *)
(* SIGCONT also moves a stopped task, SIGSTOP cancels a pending SIGCONT.   *)
sys_kill(u, sig) ==
  LET cancelled == CASE sig = SIGCONT -> {SIGSTOP} [] sig = SIGSTOP -> {SIGCONT} [] OTHER -> {} IN
  /\ u \in Alive \ {1} /\ ~is_thread[u] /\ <<u, sig>> \in Sends /\ sig \notin sig_pending[u]
  /\ sig_pending' = [sig_pending EXCEPT ![u] = (@ \ cancelled) \cup {sig}]
  /\ IF sig = SIGCONT /\ phase[u] = "STOPPED"
     THEN /\ phase' = Set(phase, u, "RUNNABLE")
          /\ wake_pending' = Set(wake_pending, u, TRUE)
          /\ stop_reported' = Set(stop_reported, u, FALSE)
     ELSE Kernel!task_wake({u}) /\ UNCHANGED stop_reported
  /\ UNCHANGED <<pc, family, exits, reaped, told, checked, swept>>

(* task_stop, and its wake of the parent. *)
task_stop(t) ==
  LET p == parent_id[t] IN
  /\ phase' = [u \in Task |-> IF u = t THEN "STOPPED"
                              ELSE IF u = p /\ u \in Kernel!Waiting THEN "RUNNABLE" ELSE phase[u]]
  /\ wake_pending' = [u \in Task |-> wake_pending[u] \/ (u = p /\ phase[u] = "RUNNABLE")]
  /\ stop_reported' = Set(stop_reported, t, FALSE)

(* deliver(): the mark of exit_group first, then the lowest deliverable    *)
(* signal.  A handler ends the loop, a stop goes on with it.               *)
deliver(t) ==
  LET sig == Min(Deliverable(t))
      consume == sig_pending' = [sig_pending EXCEPT ![t] = @ \ {sig}]
      caught == t \in Catcher /\ sig \in {SIGCHLD, SIGCONT} IN
  /\ At(t, "return") \/ At(t, "return_suspend")
  /\ \/ /\ group_exit[t]
        /\ Goto(t, "die")
        /\ UNCHANGED <<kvars, exits, stop_reported, sig_pending>>
     \/ /\ ~task_signal_pending(t)
        /\ Goto(t, "user")
        /\ UNCHANGED <<kvars, exits, stop_reported, sig_pending>>
     \/ /\ ~group_exit[t] /\ Deliverable(t) # {} /\ consume
        /\ CASE caught -> Goto(t, "user") /\ UNCHANGED <<kvars, exits, stop_reported>>
             [] sig = SIGSTOP -> task_stop(t) /\ UNCHANGED <<pc, exits>>
             [] OTHER -> exit_group(t, 128 + sig) /\ UNCHANGED <<kvars, stop_reported>>
  /\ UNCHANGED <<family, reaped, told, checked, swept>>

(* sigsuspend with nothing blocked, after a wait4(WNOHANG) that returned 0. *)
sys_rt_sigsuspend(t) ==
  /\ (At(t, "user") /\ checked[t]) \/ At(t, "suspend")
  /\ checked' = Set(checked, t, FALSE)
  /\ IF group_exit[t] \/ sig_pending[t] # {}
     THEN Goto(t, "return_suspend") /\ UNCHANGED kvars
     ELSE Goto(t, "suspend") /\ Kernel!task_block(t)
  /\ UNCHANGED <<family, exits, collect, sig_pending, swept>>

-----------------------------------------------------------------------------
Init ==
  /\ phase = [t \in Task |-> IF t = 1 THEN "RUNNABLE" ELSE "FREE"]
  /\ wake_pending = [t \in Task |-> FALSE]
  /\ pc = [t \in Task |-> "user"]
  /\ next_id = 2 /\ parent_id = [t \in Task |-> 0] /\ tgid = [t \in Task |-> t]
  /\ is_thread = [t \in Task |-> FALSE]
  /\ exit_code = [t \in Task |-> 0] /\ group_exit = [t \in Task |-> FALSE]
  /\ reaped = [t \in Task |-> FALSE] /\ stop_reported = [t \in Task |-> FALSE]
  /\ sig_pending = [t \in Task |-> {}] /\ checked = [t \in Task |-> FALSE]
  /\ swept = {} /\ asked = [t \in Task |-> {}] /\ told = [t \in Task |-> 0]

(* The steps of system calls. *)
InKernel(t) ==
  \/ process_fork(t) \/ process_clone(t) \/ enomem(t) \/ process_exec(t) \/ become(t)
  \/ mark(t) \/ notify(t) \/ reparent(t) \/ die(t)
  \/ task_collect_child_opts(t) \/ wait4_reaps(t)
  \/ deliver(t) \/ sys_rt_sigsuspend(t)

Next ==
  \/ \E t \in Task :
       \/ InKernel(t) \/ interrupt(t) \/ timer(t)
       \/ syscall(t) \/ sys_exit_group(t) \/ task_exit_code(t)
       \/ \E sig \in {SIGKILL, SIGCONT, SIGSTOP} : sys_kill(t, sig)
  \/ idle_reaps

Spec == Init /\ [][Next]_vars

(* A runnable task gets a CPU (NoStarvation of module Sched), the timer    *)
(* ends naps, and the idle loop reaps.  Nothing makes a program call       *)
(* anything, but the timer does not always miss its time in user mode      *)
(* (strong fairness: exec returns there without a look at the signals, and *)
(* a program may exec again and again).                                    *)
Fairness ==
  /\ \A t \in Task : WF_vars((pc[t] # "user" /\ InKernel(t)) \/ timer(t)) /\ SF_vars(interrupt(t))
  /\ WF_vars(idle_reaps)

FairSpec == Spec /\ Fairness

-----------------------------------------------------------------------------
(* The task fields keep their types: only signals that exist are pending,  *)
(* and a parent is 0 or a task.                                            *)
TypeOK ==
  /\ phase \in [Task -> {"FREE", "RUNNABLE", "SLEEPING", "BLOCKED", "STOPPED", "ZOMBIE"}]
  /\ next_id \in 2..(MaxTasks + 1)
  /\ parent_id \in [Task -> 0..MaxTasks] /\ tgid \in [Task -> Task]
  /\ sig_pending \in [Task -> SUBSET {SIGKILL, SIGCHLD, SIGCONT, SIGSTOP}]
  /\ told \in [Task -> 0..2]



Leaving(t) == group_exit[t] /\ t \in Alive /\ phase[t] # "STOPPED"
Overdue(t) == t \in Alive /\ pc[t] = "wait4" /\ \E c \in Children(t) : phase[c] = "ZOMBIE"

(* A task marked by exit_group or exec leaves any sleep and dies, unless   *)
(* it is stopped; and a wait4 with a dead child returns.                   *)
ExitFinishes == \A t \in Task : []<>~(Leaving(t) \/ Overdue(t))

(* "Exit the whole thread group: other threads die at their next return to *)
(* user mode": every thread that outlives the sweep of exit_group is       *)
(* marked to die.                                                          *)
WholeGroupMarked == \A t \in Alive : tgid[t] \in swept => group_exit[t]

(* "The usual way to sleep until a blocked SIGCHLD arrives": a parent that *)
(* has found no dead child (wait4, WNOHANG) and sleeps in sigsuspend is    *)
(* not left asleep with one; SIGCHLD is pending or about to be sent.       *)
SigchldTellsDeath ==
  \A t \in Task : (phase[t] = "BLOCKED" /\ \E c \in Children(t) : phase[c] = "ZOMBIE")
                    => \/ SIGCHLD \in sig_pending[t]
                       \/ \E u \in Alive : parent_id[u] = t /\ pc[u] \in {"mark", "notify"}
=============================================================================
