------------------------------- MODULE Signal -------------------------------
(***************************************************************************)
(* POSIX signals (kernel/proc/signal.c): a signal is a bit in sig_pending, *)
(* set by any CPU, and is consumed on the receiver's way back to user      *)
(* mode, where a frame on the user stack runs the handler.  The receiver   *)
(* is a single-threaded process with its own dispositions; it waits in     *)
(* pause, sigsuspend or ppoll, the last two under a temporary mask.        *)
(***************************************************************************)
EXTENDS Naturals, FiniteSets, FiniteSetsExt, Sequences, SequencesExt

CONSTANTS Receiver, Sender,   \* disjoint sets of tasks
          Sig,                \* the signals in use, by number
          Mask,               \* the masks the program uses
          KillAll,            \* the signals sent with kill(-1, sig)
          ResetHand,          \* signals whose handlers are installed SA_RESETHAND
          NoDefer,            \* and SA_NODEFER
          MaxFrames           \* bound: handler frames that fit on the user stack

Task == Receiver \cup Sender
SIGALRM == 14
SIGCHLD == 17
SIGCONT == 18
Stops == {19, 20, 21, 22}     \* SIGSTOP, SIGTSTP, SIGTTIN, SIGTTOU
UNCATCHABLE == {9, 19}
NoMask == {0}                 \* sig_saved_mask_valid = 0

VARIABLES
  phase, wake_pending,        \* see TaskWait
  pc,
  call,                       \* the call a receiver waits in
  job,                        \* the signal a sender is sending, and to whom
  sig_pending, sig_blocked,
  sig_saved_mask,             \* NoMask when it is not valid
  old,                        \* the local of sigsuspend and ppoll
  handler,                    \* "DFL", "IGN" or "CATCH", per signal
  alarm_at,                   \* an alarm is set
  frames,                     \* user memory: the saved masks of the handler frames
  wish                        \* history: the mask the program has asked for, per frame

kvars == <<phase, wake_pending>>
masks == <<sig_blocked, sig_saved_mask, old, frames, wish>>
vars == <<kvars, pc, call, job, sig_pending, masks, handler, alarm_at>>

Kernel == INSTANCE TaskWait

At(t, place) == pc[t] = place /\ phase[t] = "RUNNABLE"
Goto(t, place) == pc' = [pc EXCEPT ![t] = place]

default_ignored(sig) == sig \in {SIGCHLD, 23, 28}
Ignored(r, sig) ==
  sig \notin UNCATCHABLE /\ (handler[r][sig] = "IGN" \/ (handler[r][sig] = "DFL" /\ default_ignored(sig)))
Deliverable(r) == sig_pending[r] \ (sig_blocked[r] \ UNCATCHABLE)
next_signal(r) == Min(Deliverable(r))

(* The end of a system call with the mask m: signal_deliver_syscall calls  *)
(* deliver() only when something is pending.                               *)
Return(r, m) == Goto(r, IF sig_pending[r] \ (m \ UNCATCHABLE) = {} THEN "user" ELSE "deliver")

-----------------------------------------------------------------------------
(* What a program asks for *)

sys_rt_sigprocmask(r, m) ==
  /\ At(r, "user") /\ m # sig_blocked[r]
  /\ sig_blocked' = [sig_blocked EXCEPT ![r] = m]
  /\ wish' = [wish EXCEPT ![r] = Append(Front(@), m)]
  /\ Return(r, m)
  /\ UNCHANGED <<kvars, call, job, sig_pending, sig_saved_mask, old, handler, alarm_at, frames>>

sys_rt_sigaction(r, sig, h) ==
  /\ At(r, "user") /\ sig \notin UNCATCHABLE /\ h # handler[r][sig]
  /\ handler' = [handler EXCEPT ![r][sig] = h]
  /\ Return(r, sig_blocked[r])
  /\ UNCHANGED <<kvars, call, job, sig_pending, masks, alarm_at>>

sys_alarm(r) ==
  /\ At(r, "user") /\ SIGALRM \in Sig
  /\ alarm_at' = [alarm_at EXCEPT ![r] = ~@]
  /\ Return(r, sig_blocked[r])
  /\ UNCHANGED <<kvars, call, job, sig_pending, masks, handler>>

sys_pause(r) ==
  /\ At(r, "user")
  /\ call' = [call EXCEPT ![r] = "pause"]
  /\ Goto(r, "check")
  /\ UNCHANGED <<kvars, job, sig_pending, masks, handler, alarm_at>>

(* sigsuspend, and ppoll or pselect6 with a mask (sigmask_wait_begin). *)
sigmask_wait_begin(r, m) ==
  /\ At(r, "user")
  /\ \E c \in {"suspend", "poll"} : call' = [call EXCEPT ![r] = c]
  /\ old' = [old EXCEPT ![r] = sig_blocked[r]]
  /\ sig_blocked' = [sig_blocked EXCEPT ![r] = m \ UNCATCHABLE]
  /\ Goto(r, "check")
  /\ UNCHANGED <<kvars, job, sig_pending, sig_saved_mask, handler, alarm_at, frames, wish>>

-----------------------------------------------------------------------------
(* The wait.  The entries of ppoll are on the objects' queues before the   *)
(* check, so an event that comes later wakes it.                           *)

(* A signal ends the wait with -EINTR; the old mask is left for deliver(). *)
wait_interrupted(r) ==
  /\ At(r, "check") /\ Deliverable(r) # {}
  /\ IF call[r] = "pause" THEN UNCHANGED sig_saved_mask
     ELSE sig_saved_mask' = [sig_saved_mask EXCEPT ![r] = old[r]]
  /\ old' = [old EXCEPT ![r] = NoMask] /\ call' = [call EXCEPT ![r] = "none"]
  /\ Goto(r, "return")
  /\ UNCHANGED <<kvars, job, sig_pending, sig_blocked, handler, alarm_at, frames, wish>>

(* ppoll finds a descriptor ready, or its time over: sigmask_wait_end puts *)
(* the mask back.                                                          *)
poll_returns(r) ==
  /\ At(r, "check") /\ call[r] = "poll"
  /\ sig_blocked' = [sig_blocked EXCEPT ![r] = old[r]]
  /\ old' = [old EXCEPT ![r] = NoMask] /\ call' = [call EXCEPT ![r] = "none"]
  /\ Goto(r, "return")
  /\ UNCHANGED <<kvars, job, sig_pending, sig_saved_mask, handler, alarm_at, frames, wish>>

wait_no_signal(r) ==
  /\ At(r, "check") /\ Deliverable(r) = {}
  /\ Goto(r, "block")
  /\ UNCHANGED <<kvars, call, job, sig_pending, masks, handler, alarm_at>>

wait_block(r) ==
  /\ At(r, "block")
  /\ Kernel!task_block(r) \/ (call[r] = "poll" /\ Kernel!task_sleep_ms(r))
  /\ Goto(r, "check")
  /\ UNCHANGED <<call, job, sig_pending, masks, handler, alarm_at>>

(* A descriptor becomes ready, or the time of ppoll is over. *)
event(r) ==
  /\ call[r] = "poll" /\ pc[r] \in {"check", "block"}
  /\ Kernel!task_wake({r}) \/ (phase[r] = "SLEEPING" /\ Kernel!wake_sleepers({r}, {}))
  /\ UNCHANGED <<pc, call, job, sig_pending, masks, handler, alarm_at>>

-----------------------------------------------------------------------------
(* Senders *)

(* kill and tkill: task_send_signal up to its look at the disposition.     *)
(* SIGCONT and the stops cancel each other; SIGCONT moves a stopped task.  *)
task_send_signal(s, r, sig) ==
  /\ At(s, "user") /\ phase[r] # "ZOMBIE"
  /\ sig_pending' = [sig_pending EXCEPT ![r] =
       @ \ (IF sig = SIGCONT THEN Stops ELSE IF sig \in Stops THEN {SIGCONT} ELSE {})]
  /\ IF sig = SIGCONT /\ phase[r] = "STOPPED" THEN Kernel!task_continue(r) ELSE UNCHANGED kvars
  /\ IF Ignored(r, sig) THEN UNCHANGED <<pc, job>>
     ELSE Goto(s, "mark") /\ job' = [job EXCEPT ![s] = <<r, sig>>]
  /\ UNCHANGED <<call, masks, handler, alarm_at>>

\* Mutant: the receiver is woken first, and finds nothing.
mark_after_wake(s) ==
  /\ At(s, "mark") \/ At(s, "wake")
  /\ IF pc[s] = "mark" THEN Kernel!task_wake({job[s][1]}) /\ Goto(s, "wake") /\ UNCHANGED <<sig_pending, job>>
     ELSE /\ sig_pending' = [sig_pending EXCEPT ![job[s][1]] = @ \cup {job[s][2]}]
          /\ Goto(s, "user") /\ job' = [job EXCEPT ![s] = <<>>]
          /\ UNCHANGED kvars
  /\ UNCHANGED <<call, masks, handler, alarm_at>>

(* The atomic or of the bit, then task_wake. *)
mark(s) ==
  /\ At(s, "mark") \/ At(s, "wake")
  /\ IF pc[s] = "mark"
     THEN /\ sig_pending' = [sig_pending EXCEPT ![job[s][1]] = @ \cup {job[s][2]}]
          /\ Goto(s, "wake")
          /\ UNCHANGED <<kvars, job>>
     ELSE /\ Kernel!task_wake({job[s][1]})
          /\ Goto(s, "user") /\ job' = [job EXCEPT ![s] = <<>>]
          /\ UNCHANGED sig_pending
  /\ UNCHANGED <<call, masks, handler, alarm_at>>

(* kill(-1, sig): kill_all_cb on every other process, under one lock.  It  *)
(* looks at no disposition and wakes nobody.                               *)
kill_all(s, sig) ==
  LET S == {r \in Receiver : phase[r] # "ZOMBIE"} IN
  /\ At(s, "user") /\ S # {}
  /\ sig_pending' = [r \in Receiver |-> IF r \in S THEN sig_pending[r] \cup {sig} ELSE sig_pending[r]]
  /\ Kernel!kill_all_cb(S)
  /\ UNCHANGED <<pc, call, job, masks, handler, alarm_at>>

(* wake_sleepers finds an alarm due; setitimer's interval sets it again. *)
alarm(r) ==
  /\ alarm_at[r] /\ phase[r] # "ZOMBIE"
  /\ \E interval \in BOOLEAN : alarm_at' = [alarm_at EXCEPT ![r] = interval]
  /\ sig_pending' = [sig_pending EXCEPT ![r] = @ \cup {SIGALRM}]
  /\ Kernel!wake_sleepers({}, {r})
  /\ UNCHANGED <<pc, call, job, masks, handler>>

-----------------------------------------------------------------------------
(* Delivery *)

(* signal_deliver_syscall after a wait. *)
signal_deliver_syscall(r) ==
  /\ At(r, "return")
  /\ Return(r, sig_blocked[r])
  /\ UNCHANGED <<kvars, call, job, sig_pending, masks, handler, alarm_at>>

signal_deliver_irq(r) ==
  /\ At(r, "user") /\ Deliverable(r) # {}
  /\ Goto(r, "deliver")
  /\ UNCHANGED <<kvars, call, job, sig_pending, masks, handler, alarm_at>>


setup_frame(r, sig) ==
  /\ frames' = [frames EXCEPT ![r] =
       Append(@, IF sig_saved_mask[r] # NoMask THEN sig_saved_mask[r] ELSE sig_blocked[r])]
  /\ sig_saved_mask' = [sig_saved_mask EXCEPT ![r] = NoMask]
  /\ sig_blocked' = [sig_blocked EXCEPT ![r] = IF sig \in NoDefer THEN @ ELSE @ \cup {sig}]
  /\ wish' = [wish EXCEPT ![r] = Append(@, sig_blocked'[r])]
  /\ handler' = IF sig \in ResetHand THEN [handler EXCEPT ![r][sig] = "DFL"] ELSE handler

(* One round of deliver()'s loop: ignored, stopped, killed, or a frame. *)
deliver(r) ==
  LET sig == next_signal(r) IN
  /\ At(r, "deliver") /\ Deliverable(r) # {}
  /\ sig_pending' = [sig_pending EXCEPT ![r] = @ \ {sig}]
  /\ \/ /\ Ignored(r, sig)
        /\ UNCHANGED <<kvars, pc, masks, handler>>
     \/ /\ handler[r][sig] = "DFL" /\ sig \in Stops
        /\ Kernel!task_stop(r)
        /\ UNCHANGED <<pc, masks, handler>>
     \/ /\ ~Ignored(r, sig)
        /\ \/ handler[r][sig] = "DFL" /\ sig \notin Stops
           \/ handler[r][sig] = "CATCH" /\ Len(frames[r]) = MaxFrames
        /\ Kernel!task_exit(r)
        /\ UNCHANGED <<pc, masks, handler>>
     \/ /\ handler[r][sig] = "CATCH" /\ Len(frames[r]) < MaxFrames
        /\ setup_frame(r, sig)
        /\ Goto(r, "user")
        /\ UNCHANGED <<kvars, old>>
  /\ UNCHANGED <<call, job, alarm_at>>

(* Nothing left: a mask saved by the wait that no frame took is put back. *)
deliver_ends(r) ==
  /\ At(r, "deliver") /\ Deliverable(r) = {}
  /\ sig_blocked' = [sig_blocked EXCEPT ![r] =
       IF sig_saved_mask[r] # NoMask THEN sig_saved_mask[r] ELSE @]
  /\ sig_saved_mask' = [sig_saved_mask EXCEPT ![r] = NoMask]
  /\ Goto(r, "user")
  /\ UNCHANGED <<kvars, call, job, sig_pending, old, frames, wish, handler, alarm_at>>

\* Mutant: the frame is read and left on the stack.
sigreturn_keeps_frame(r) ==
  /\ At(r, "user") /\ frames[r] # <<>>
  /\ sig_blocked' = [sig_blocked EXCEPT ![r] = Last(frames[r]) \ UNCATCHABLE]
  /\ wish' = [wish EXCEPT ![r] = Front(@)]
  /\ Return(r, Last(frames[r]))
  /\ UNCHANGED <<kvars, call, job, sig_pending, sig_saved_mask, old, handler, alarm_at, frames>>

sys_rt_sigreturn(r) ==
  /\ At(r, "user") /\ frames[r] # <<>>
  /\ sig_blocked' = [sig_blocked EXCEPT ![r] = Last(frames[r]) \ UNCATCHABLE]
  /\ frames' = [frames EXCEPT ![r] = Front(@)]
  /\ wish' = [wish EXCEPT ![r] = Front(@)]
  /\ Return(r, Last(frames[r]))
  /\ UNCHANGED <<kvars, call, job, sig_pending, sig_saved_mask, old, handler, alarm_at>>

-----------------------------------------------------------------------------
Init ==
  /\ phase = [t \in Task |-> "RUNNABLE"] /\ wake_pending = [t \in Task |-> FALSE]
  /\ pc = [t \in Task |-> "user"]
  /\ call = [r \in Receiver |-> "none"] /\ job = [s \in Sender |-> <<>>]
  /\ sig_pending = [r \in Receiver |-> {}] /\ sig_blocked = [r \in Receiver |-> {}]
  /\ sig_saved_mask = [r \in Receiver |-> NoMask] /\ old = [r \in Receiver |-> NoMask]
  /\ handler = [r \in Receiver |-> [sig \in Sig |-> "DFL"]]
  /\ alarm_at = [r \in Receiver |-> FALSE]
  /\ frames = [r \in Receiver |-> <<>>] /\ wish = [r \in Receiver |-> <<{}>>]

Receive(r) ==
  \/ \E m \in Mask : sys_rt_sigprocmask(r, m) \/ sigmask_wait_begin(r, m)
  \/ \E sig \in Sig, h \in {"DFL", "IGN", "CATCH"} : sys_rt_sigaction(r, sig, h)
  \/ sys_alarm(r) \/ sys_pause(r) \/ sys_rt_sigreturn(r)
  \/ wait_interrupted(r) \/ poll_returns(r) \/ wait_no_signal(r) \/ wait_block(r) \/ event(r)
  \/ signal_deliver_syscall(r) \/ signal_deliver_irq(r) \/ deliver(r) \/ deliver_ends(r)
  \/ alarm(r)

Send(s) ==
  \/ \E r \in Receiver, sig \in Sig : task_send_signal(s, r, sig)
  \/ mark(s)
  \/ \E sig \in KillAll : kill_all(s, sig)

Next == (\E r \in Receiver : Receive(r)) \/ (\E s \in Sender : Send(s))

Spec == Init /\ [][Next]_vars

-----------------------------------------------------------------------------
(* Pending and blocked sets hold only signals in use, and a program has    *)
(* one mask of its own per handler frame, plus the one it started with.    *)
TypeOK ==
  /\ sig_pending \in [Receiver -> SUBSET Sig] /\ sig_blocked \in [Receiver -> SUBSET Sig]
  /\ \A r \in Receiver : /\ sig_saved_mask[r] = NoMask \/ sig_saved_mask[r] \subseteq Sig
                         /\ Len(frames[r]) <= MaxFrames /\ Len(wish[r]) = Len(frames[r]) + 1


Asleep(r) == phase[r] \in {"SLEEPING", "BLOCKED"}
AboutToWake(r) == \E s \in Sender : pc[s] = "wake" /\ job[s][1] = r

(* A receiver does not sleep on a deliverable signal: the sender is about  *)
(* to wake it.  (kill(-1) only sets wake_pending, see KillAllWakes.)       *)
NoSleepOnSignal ==
  \A r \in Receiver : Asleep(r) /\ Deliverable(r) # {} => AboutToWake(r) \/ wake_pending[r]

(* The same of kill(-1), which "the wakeups happen afterwards" says.       *)
KillAllWakes ==
  \A r \in Receiver : Asleep(r) /\ Deliverable(r) # {} => AboutToWake(r)
=============================================================================
