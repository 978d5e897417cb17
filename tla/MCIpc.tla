------------------------------- MODULE MCIpc --------------------------------
(***************************************************************************)
(* Pipes, eventfd and futexes for model checking.  The three are built on  *)
(* the same wait and wake operations and share no other state, so one run  *)
(* checks them side by side: `sys` says which of them the tasks use.       *)
(***************************************************************************)
EXTENDS Naturals, Sequences

CONSTANTS Reader, Writer, Byte, Junk, PIPE_SIZE, EVENTFD_MAX,
          Waiter, Waker, Addr, Cond, Timed, MaxForks, Target

VARIABLES
  sys,
  phase, wake_pending, pc, signalled, waiting,
  buf, head, tail, count, readers, writers, todo, open, eof,
  val, semaphore, add, owed, ewaiting,
  call, waiters, woken, rc, expired, word, frame, cow, forks

\* Two bytes, so that the ring wraps and a write may be split.
Message == {<<0, 1>>}

Pipe == INSTANCE Pipe
Eventfd == INSTANCE Eventfd WITH waiting <- ewaiting
Futex == INSTANCE Futex

kvars == <<phase, wake_pending, pc, signalled>>
pvars == <<waiting, buf, head, tail, count, readers, writers, todo, open, eof>>
evars == <<val, semaphore, add, owed, ewaiting>>
fvars == <<call, waiters, woken, rc, expired, word, frame, cow, forks>>
vars == <<sys, kvars, pvars, evars, fvars>>

Init ==
  /\ sys \in {"pipe", "eventfd", "futex"}
  /\ Pipe!Init /\ Eventfd!Init /\ Futex!Init
  /\ sys # "eventfd" => ~semaphore

UsePipe(A) == sys = "pipe" /\ A /\ UNCHANGED <<sys, evars, fvars>>
UseEventfd(A) == sys = "eventfd" /\ A /\ UNCHANGED <<sys, pvars, fvars>>
UseFutex(A) == sys = "futex" /\ A /\ UNCHANGED <<sys, pvars, evars>>

Next == UsePipe(Pipe!Next) \/ UseEventfd(Eventfd!Next) \/ UseFutex(Futex!Next)

Spec == Init /\ [][Next]_vars

(* The fairness of the three modules. *)
InCall(t) ==
  UsePipe(Pipe!InCall(t)) \/ UseEventfd(Eventfd!InCall(t)) \/ UseFutex(Futex!InCall(t))

FairSpec ==
  /\ Spec
  /\ \A t \in Reader \cup Writer : WF_vars(InCall(t))
  /\ \A t \in Timed : WF_vars(UseFutex(Futex!deadline(t))) /\ WF_vars(UseFutex(Futex!timer(t)))

-----------------------------------------------------------------------------
(* The types of the component in use. *)
TypeOK == (sys = "pipe" => Pipe!TypeOK) /\ (sys = "futex" => Futex!TypeOK)

(* "so no wakeup is lost" (wait.c), for the two users of wait queues. *)
NoLostWakeup ==
  /\ sys = "pipe" => Pipe!NoLostWakeup
  /\ sys = "eventfd" => Eventfd!NoLostWakeup

(* pipe.c implements a bounded byte stream. *)
ImplementsStream == Pipe!ImplementsStream

(* eventfd.c neither loses nor invents counts. *)
NothingLost == Eventfd!NothingLost

(* futex.c: a thread that waits for a value the word no longer has is      *)
(* about to be woken.                                                      *)
NoMissedStore == sys = "futex" => Futex!NoMissedStore

(* futex.c: a woken thread is not asleep. *)
WokenIsAwake == sys = "futex" => Futex!WokenIsAwake

(* futex.c: "a wake that raced with the timeout wins". *)
WakeWins == Futex!WakeWins

(* Task t is in a call that could finish. *)
CanFinish(t) ==
  \/ sys = "pipe" /\ Pipe!CanFinish(t)
  \/ sys = "eventfd" /\ Eventfd!CanFinish(t)
  \/ sys = "futex" /\ Futex!CanFinish(t)

(* A call that can finish does: a reader comes back when there is data or  *)
(* the last writer has gone, a writer when there is room or no reader, a   *)
(* futex waiter when it was woken or its time is up.                       *)
CallsFinish == \A t \in Reader \cup Writer : []<>~CanFinish(t)
=============================================================================
