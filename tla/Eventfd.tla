------------------------------ MODULE Eventfd -------------------------------
(***************************************************************************)
(* eventfd, kernel/fs/eventfd.c: a 64-bit counter under ev->lock with one  *)
(* wait queue for both directions.  The file stays open: what a close by   *)
(* another thread does to a sleeping call is a matter of the fd table.     *)
(***************************************************************************)
EXTENDS Naturals, Sequences

CONSTANTS Reader, Writer,
          Target,       \* the tasks that are sent signals
          EVENTFD_MAX   \* the largest value of the counter; one more does not
                        \* fit the protocol, two more wrap to zero

Task == Reader \cup Writer
Queue == {"wq"}

VARIABLES
  phase, wake_pending, signalled, waiting, pc,  \* see WaitQueue
  val, semaphore,       \* struct eventfd: the counter, EFD_SEMAPHORE
  add,                  \* what each writer's call adds
  owed                  \* what all writes have added less what all reads have returned

INSTANCE WaitQueue

kvars == <<phase, wake_pending, waiting>>
vars == <<kvars, signalled, pc, val, semaphore, add, owed>>

Continues(t, place) == Goto(t, place) /\ UNCHANGED signalled
Returns(t) == Goto(t, "user") /\ signalled' = [signalled EXCEPT ![t] = FALSE]

(* 64-bit unsigned arithmetic, scaled down. *)
Wrap(n) == n % (EVENTFD_MAX + 2)

-----------------------------------------------------------------------------
read(t) ==
  /\ t \in Reader /\ At(t, "user")
  /\ Continues(t, "read")
  /\ UNCHANGED <<kvars, val, semaphore, add, owed>>

(* One round of eventfd_read's loop, up to the unlock. *)
eventfd_read(t) ==
  /\ At(t, "read")
  /\ \/ /\ val > 0
        /\ LET ret_val == IF semaphore THEN 1 ELSE val IN
             val' = val - ret_val /\ owed' = owed - ret_val
        /\ Continues(t, "wake")
     \/ /\ val = 0
        /\ Returns(t) \/ Continues(t, "add")    \* O_NONBLOCK: -EAGAIN
        /\ UNCHANGED <<val, owed>>
  /\ UNCHANGED <<kvars, semaphore, add>>

(* -EINVAL for all ones, which is EVENTFD_MAX + 1. *)
write(t) ==
  /\ t \in Writer /\ At(t, "user")
  /\ \E n \in 0..(EVENTFD_MAX + 1) :
       IF n = EVENTFD_MAX + 1 THEN UNCHANGED <<pc, signalled, add>>
       ELSE add' = [add EXCEPT ![t] = n] /\ Continues(t, "write")
  /\ UNCHANGED <<kvars, val, semaphore, owed>>

\* Mutant: the sum is compared, after it has wrapped.
Fits_after_wrap(t) == Wrap(val + add[t]) <= EVENTFD_MAX
Fits(t) == Wrap(EVENTFD_MAX - val) >= add[t]

(* One round of eventfd_write's loop, up to the unlock. *)
eventfd_write(t) ==
  /\ At(t, "write")
  /\ \/ /\ Fits(t)
        /\ val' = Wrap(val + add[t])
        /\ owed' = owed + add[t]
        /\ Continues(t, "wake")
     \/ /\ ~Fits(t)
        /\ Returns(t) \/ Continues(t, "add")
        /\ UNCHANGED <<val, owed>>
  /\ UNCHANGED <<kvars, semaphore, add>>

\* Mutant: only a read that empties the counter wakes the others.
wake_if_empty(t) ==
  /\ At(t, "wake")
  /\ IF t \in Writer \/ val = 0 THEN waitqueue_wake_all("wq") ELSE UNCHANGED <<phase, wake_pending>>
  /\ Returns(t)
  /\ UNCHANGED <<waiting, val, semaphore, add, owed>>

(* waitqueue_wake_all(&ev->wq) at the end of either call. *)
wake(t) ==
  /\ At(t, "wake")
  /\ waitqueue_wake_all("wq")
  /\ Returns(t)
  /\ UNCHANGED <<waiting, val, semaphore, add, owed>>

Ready(t) == IF t \in Reader THEN val > 0 ELSE Fits(t)

wait(t) ==
  /\ wait_event_interruptible(t, "wq", Ready(t), IF t \in Reader THEN "read" ELSE "write", "eintr")
  /\ UNCHANGED <<val, semaphore, add, owed>>

interrupted(t) ==
  /\ At(t, "eintr")
  /\ Returns(t)
  /\ UNCHANGED <<kvars, val, semaphore, add, owed>>

signal(t) ==
  /\ t \in Target /\ pc[t] \in InLoop /\ ~signalled[t]
  /\ send_signal(t)
  /\ UNCHANGED <<waiting, pc, val, semaphore, add, owed>>

(* eventfd_create *)
Init ==
  /\ phase = [t \in Task |-> "RUNNABLE"] /\ wake_pending = [t \in Task |-> FALSE]
  /\ signalled = [t \in Task |-> FALSE] /\ waiting = [q \in Queue |-> {}]
  /\ pc = [t \in Task |-> "user"]
  /\ val = 0 /\ semaphore \in BOOLEAN
  /\ add = [t \in Writer |-> 0] /\ owed = 0

InCall(t) == eventfd_read(t) \/ eventfd_write(t) \/ wake(t) \/ wait(t) \/ interrupted(t)
Next == \E t \in Task : InCall(t) \/ read(t) \/ write(t) \/ signal(t)

Spec == Init /\ [][Next]_vars
FairSpec == Spec /\ \A t \in Task : WF_vars(InCall(t))
-----------------------------------------------------------------------------
(* The counter holds exactly what was written and not yet read: no count   *)
(* is lost or made up by concurrent calls or by the wrap of 64 bits.       *)
NothingLost == val = owed

(* Nobody sleeps on a condition that holds without somebody about to wake  *)
(* the queue: readers and writers share it, and every call that changes    *)
(* the counter wakes all of them.                                          *)
NoLostWakeup ==
  \A t \in Task : (phase[t] = "BLOCKED" /\ Ready(t)) => \E u \in Task : pc[u] = "wake"

(* Task t is in a call that could finish. *)
CanFinish(t) == pc[t] # "user" /\ Ready(t)

(* A call that can finish does, unless others take what it waits for. *)
CallsFinish == \A t \in Task : []<>~CanFinish(t)
=============================================================================
