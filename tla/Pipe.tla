-------------------------------- MODULE Pipe --------------------------------
(***************************************************************************)
(* Anonymous pipes, kernel/fs/pipe.c: a ring buffer under p->lock, one     *)
(* wait queue per direction.  Every task here holds a reference to the     *)
(* open file of its end (as the processes that inherited it do), and the   *)
(* last of them to close an end calls pipe_release.                        *)
(***************************************************************************)
EXTENDS Naturals, Sequences, FiniteSetsExt

CONSTANTS Reader, Writer,       \* the tasks that hold each end
          Byte, Junk, PIPE_SIZE,        \* Junk: what kmalloc left in the buffer
          Message,              \* what a write call may be given
          Target                \* the tasks that are sent signals

Task == Reader \cup Writer
Queue == {"readable", "writable"}

VARIABLES
  phase, wake_pending, signalled, waiting, pc,  \* see WaitQueue
  buf, head, tail, count, readers, writers,     \* struct pipe
  todo,         \* what a writer has not put into the buffer yet
  open,         \* the tasks that have not closed their end
  eof           \* the readers a read call has told end of file

INSTANCE WaitQueue

kvars == <<phase, wake_pending, waiting>>
ring == <<buf, head, tail, count>>
ends == <<readers, writers, open>>
vars == <<kvars, signalled, pc, ring, ends, todo, eof>>

(* The call returns, and the signals that came meanwhile are delivered. *)
Returns(t) ==
  /\ Goto(t, "user")
  /\ signalled' = [signalled EXCEPT ![t] = FALSE]

(* The call goes on. *)
Continues(t, place) == Goto(t, place) /\ UNCHANGED signalled

-----------------------------------------------------------------------------
(* read(2), of any length *)

read(t) ==
  /\ t \in Reader /\ At(t, "user") /\ t \in open
  /\ Continues(t, "read")
  /\ UNCHANGED <<kvars, ring, ends, todo, eof>>

(* One round of pipe_read's loop, up to the unlock: the oldest n bytes,    *)
(* end of file, EAGAIN or a wait.  (Whether the file has O_NONBLOCK set    *)
(* may differ from call to call.)                                          *)
pipe_read(t) ==
  /\ At(t, "read")
  /\ \/ \E n \in 1..count :
          /\ tail' = (tail + n) % PIPE_SIZE /\ count' = count - n
          /\ Continues(t, "wake")
          /\ UNCHANGED <<buf, head, eof>>
     \/ /\ count = 0 /\ writers = 0
        /\ Returns(t) /\ eof' = eof \cup {t}
        /\ UNCHANGED ring
     \/ /\ count = 0 /\ writers > 0
        /\ Returns(t) \/ Continues(t, "add")
        /\ UNCHANGED <<ring, eof>>
  /\ UNCHANGED <<kvars, ends, todo>>

(* waitqueue_wake_all(&p->writable), and the call returns. *)
read_wake(t) ==
  /\ t \in Reader /\ At(t, "wake")
  /\ waitqueue_wake_all("writable")
  /\ Returns(t)
  /\ UNCHANGED <<waiting, ring, ends, todo, eof>>

read_wait(t) ==
  /\ t \in Reader
  /\ wait_event_interruptible(t, "readable", count > 0 \/ writers = 0, "read", "eintr")
  /\ UNCHANGED <<ring, ends, todo, eof>>

-----------------------------------------------------------------------------
(* write(2) *)

write(t) ==
  /\ t \in Writer /\ At(t, "user") /\ t \in open
  /\ \E s \in Message : todo' = [todo EXCEPT ![t] = s]
  /\ Continues(t, "write")
  /\ UNCHANGED <<kvars, ring, ends, eof>>

Abandon(t) == Returns(t) /\ todo' = [todo EXCEPT ![t] = <<>>]

(* Copying s into the ring at head. *)
\* Mutant: the index wraps one byte late.
Filled_wraps_late(s) ==
  [i \in DOMAIN buf |-> IF \E k \in DOMAIN s : (head + k - 1) % (PIPE_SIZE + 1) = i
                        THEN s[CHOOSE k \in DOMAIN s : (head + k - 1) % (PIPE_SIZE + 1) = i]
                        ELSE buf[i]]
Filled(s) ==
  [i \in DOMAIN buf |-> IF \E k \in DOMAIN s : (head + k - 1) % PIPE_SIZE = i
                        THEN s[CHOOSE k \in DOMAIN s : (head + k - 1) % PIPE_SIZE = i]
                        ELSE buf[i]]

(* As much of s as there is room for. *)
\* Mutant: all of it.
Fitting_all(s) == Len(s)
Fitting(s) == Min({Len(s), PIPE_SIZE - count})

(* One round of pipe_write's loop, up to the unlock: EPIPE (the SIGPIPE    *)
(* the caller sends itself is also a wake), as much as there is room for,  *)
(* EAGAIN or a wait.  A call that has put something returns that instead   *)
(* of an error.                                                            *)
pipe_write(t) ==
  /\ At(t, "write")
  /\ \/ /\ readers = 0
        /\ Kernel!task_wake({t})
        /\ Abandon(t)
        /\ UNCHANGED <<waiting, ring>>
     \/ /\ readers > 0 /\ count < PIPE_SIZE
        /\ LET n == Fitting(todo[t]) IN
           /\ buf' = Filled(SubSeq(todo[t], 1, n))
           /\ head' = (head + n) % PIPE_SIZE
           /\ count' = count + n
           /\ todo' = [todo EXCEPT ![t] = SubSeq(@, n + 1, Len(@))]
        /\ Continues(t, "wake")
        /\ UNCHANGED <<kvars, tail>>
     \/ /\ readers > 0 /\ count = PIPE_SIZE
        /\ Abandon(t) \/ (Continues(t, "add") /\ UNCHANGED todo)
        /\ UNCHANGED <<kvars, ring>>
  /\ UNCHANGED <<ends, eof>>

(* waitqueue_wake_all(&p->readable), then the next round if anything is left. *)
write_wake(t) ==
  /\ t \in Writer /\ At(t, "wake")
  /\ waitqueue_wake_all("readable")
  /\ IF todo[t] = <<>> THEN Returns(t) ELSE Continues(t, "write")
  /\ UNCHANGED <<waiting, ring, ends, todo, eof>>

write_wait(t) ==
  /\ t \in Writer
  /\ wait_event_interruptible(t, "writable", count < PIPE_SIZE \/ readers = 0, "write", "eintr")
  /\ UNCHANGED <<ring, ends, todo, eof>>

(* -EINTR, or the number of bytes put before. *)
interrupted(t) ==
  /\ At(t, "eintr")
  /\ IF t \in Writer THEN Abandon(t) ELSE Returns(t) /\ UNCHANGED todo
  /\ UNCHANGED <<kvars, ring, ends, eof>>

-----------------------------------------------------------------------------
(* close(2): file_close() drops a reference, and the last one calls        *)
(* pipe_release, here up to its unlock.                                    *)
pipe_release(t) ==
  /\ readers' = IF t \in Reader THEN readers - 1 ELSE readers
  /\ writers' = IF t \in Writer THEN writers - 1 ELSE writers
  /\ Continues(t, "release_readable")

file_close(t) ==
  LET mates == (IF t \in Reader THEN Reader ELSE Writer) \ {t} IN
  /\ At(t, "user") /\ t \in open
  /\ open' = open \ {t}
  /\ IF mates \cap open = {} THEN pipe_release(t) ELSE UNCHANGED <<readers, writers, pc, signalled>>
  /\ UNCHANGED <<kvars, ring, todo, eof>>

\* Mutant: the last close wakes the writers only.
release_wake_writers(t) ==
  /\ \/ /\ At(t, "release_readable") /\ UNCHANGED <<phase, wake_pending>>
        /\ Continues(t, "release_writable")
     \/ /\ At(t, "release_writable") /\ waitqueue_wake_all("writable")
        /\ Continues(t, "user")
  /\ UNCHANGED <<waiting, ring, ends, todo, eof>>

(* The two calls of waitqueue_wake_all after the unlock; the memory goes   *)
(* away after the second when both ends are closed.                        *)
release_wake(t) ==
  /\ \/ /\ At(t, "release_readable") /\ waitqueue_wake_all("readable")
        /\ Continues(t, "release_writable")
     \/ /\ At(t, "release_writable") /\ waitqueue_wake_all("writable")
        /\ Continues(t, "user")
  /\ UNCHANGED <<waiting, ring, ends, todo, eof>>

-----------------------------------------------------------------------------
(* A signal arrives for a task in the wait loop: elsewhere it makes no     *)
(* difference to the call.                                                 *)
signal(t) ==
  /\ t \in Target /\ pc[t] \in InLoop /\ ~signalled[t]
  /\ send_signal(t)
  /\ UNCHANGED <<waiting, pc, ring, ends, todo, eof>>

(* pipe_create, and the tasks that inherit the two files. *)
Init ==
  /\ phase = [t \in Task |-> "RUNNABLE"] /\ wake_pending = [t \in Task |-> FALSE]
  /\ signalled = [t \in Task |-> FALSE] /\ waiting = [q \in Queue |-> {}]
  /\ pc = [t \in Task |-> "user"]
  /\ buf = [i \in 0..(PIPE_SIZE - 1) |-> Junk]
  /\ head = 0 /\ tail = 0 /\ count = 0
  /\ readers = 1 /\ writers = 1 /\ open = Task
  /\ todo = [t \in Writer |-> <<>>] /\ eof = {}

(* What a task does once it is inside a call: it cannot stop there. *)
InCall(t) ==
  \/ pipe_read(t) \/ read_wake(t) \/ read_wait(t)
  \/ pipe_write(t) \/ write_wake(t) \/ write_wait(t)
  \/ interrupted(t) \/ release_wake(t)

Next == \E t \in Task : InCall(t) \/ read(t) \/ write(t) \/ file_close(t) \/ signal(t)

Spec == Init /\ [][Next]_vars

(* A runnable task gets a CPU (Sched's NoStarvation), so it goes on with   *)
(* the call it is in.  Nothing makes a task call read, write or close.     *)
FairSpec == Spec /\ \A t \in Task : WF_vars(InCall(t))

-----------------------------------------------------------------------------
(* struct pipe keeps its types: head and tail stay inside the buffer, and  *)
(* count never exceeds it.                                                 *)
TypeOK ==
  /\ phase \in [Task -> {"RUNNABLE", "BLOCKED"}] /\ wake_pending \in [Task -> BOOLEAN]
  /\ signalled \in [Task -> BOOLEAN] /\ waiting \in [Queue -> SUBSET Task]
  /\ buf \in [0..(PIPE_SIZE - 1) -> Byte \cup {Junk}]
  /\ head \in 0..(PIPE_SIZE - 1) /\ tail \in 0..(PIPE_SIZE - 1) /\ count \in 0..PIPE_SIZE
  /\ readers \in 0..1 /\ writers \in 0..1 /\ open \subseteq Task
  /\ todo \in [Writer -> Seq(Byte)] /\ eof \subseteq Reader

(* "so no wakeup is lost" (wait.c): a task asleep on a queue whose         *)
(* condition holds has somebody about to call waitqueue_wake_all on it.    *)
NoLostWakeup ==
  \A t \in Task : phase[t] = "BLOCKED" =>
    \/ t \in Reader /\ count = 0 /\ writers > 0
    \/ t \in Writer /\ count = PIPE_SIZE /\ readers > 0
    \/ \E u \in Task : \/ pc[u] = "wake" /\ (u \in Reader <=> t \in Writer)
                       \/ pc[u] = "release_readable"
                       \/ pc[u] = "release_writable" /\ t \in Writer

(* A pipe is a bounded byte stream: what pipe_write takes from a message   *)
(* enters at head in order and leaves at tail in order, across the wrap of *)
(* the ring, and end of file comes only after the last byte.               *)
Contents == [i \in 1..count |-> buf[(tail + i - 1) % PIPE_SIZE]]
Stream == INSTANCE ByteStream WITH stream <- Contents, Size <- PIPE_SIZE
ImplementsStream == Stream!Spec

(* Task t is in a call that could finish. *)
CanFinish(t) ==
  /\ pc[t] # "user"
  /\ IF t \in Reader THEN count > 0 \/ writers = 0 ELSE count < PIPE_SIZE \/ readers = 0

(* A call that can finish does, unless others take what it waits for. *)
CallsFinish == \A t \in Task : []<>~CanFinish(t)
=============================================================================
