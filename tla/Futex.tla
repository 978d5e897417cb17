------------------------------- MODULE Futex --------------------------------
(***************************************************************************)
(* Futexes, kernel/proc/futex.c, as the threads of one process use them: a *)
(* word each per address, one global list of waiters under futex_lock, and *)
(* the physical address of the word as the key.  On aarch64 a fork makes   *)
(* the page of the words copy-on-write (kernel/arch/aarch64/mmu.c), so     *)
(* that the next store moves them to another frame.                        *)
(***************************************************************************)
EXTENDS Naturals, Sequences, FiniteSets

CONSTANTS Waiter, Waker,        \* the threads of a process, by what they do
          Addr,         \* futex words, in one page
          Cond,         \* the words of condition variables: FUTEX_CMP_REQUEUE moves
                        \* their waiters to another word, a mutex
          Timed,        \* the threads that wait with a timeout
          Target,       \* the threads that are sent signals
          MaxForks      \* bound: how often the process forks

Task == Waiter \cup Waker
Value == {0, 1}         \* what a word holds

VARIABLES
  phase, wake_pending,  \* see TaskWait
  pc,           \* "user", "wait", "check", "sleep", "leave", "wake", "requeue", "stored"
  call,         \* the arguments of the system call a thread is in
  waiters,      \* the list, newest first
  woken,        \* struct waiter.woken, of the listed threads
  rc,           \* what the last futex_wait of each thread returned
  signalled, expired,   \* task_signal_pending; the deadline has passed
  word,         \* the words in memory
  frame,        \* the frame their page is in, counted from 0
  cow,          \* a forked child shares that frame
  forks

kvars == <<phase, wake_pending>>
memory == <<word, frame, cow, forks>>
list == <<waiters, woken>>
vars == <<kvars, pc, call, list, rc, signalled, expired, memory>>

Kernel == INSTANCE TaskWait

Key == Addr \X (0..MaxForks)
key_of(a) == <<a, frame>>

None == [op |-> "none"]
Call ==
  {None} \cup [op : {"store"}, uaddr : Addr]
         \cup [op : {"wait"}, uaddr : Addr, val : Value, key : Key]
         \cup [op : {"wake"}, key : Key, n : 1..Cardinality(Task)]
         \cup [op : {"requeue"}, uaddr : Addr, val : Value, key : Key, key2 : Key, n : 0..1]

At(t, place) == pc[t] = place /\ phase[t] = "RUNNABLE"

(* rc is what the call a thread has just left returned. *)
Enters(t, place, c) ==
  /\ pc' = [pc EXCEPT ![t] = place]
  /\ call' = [call EXCEPT ![t] = c]
  /\ rc' = [rc EXCEPT ![t] = "0"]

(* Back to user mode, where pending signals are delivered. *)
Returns(t, value) ==
  /\ pc' = [pc EXCEPT ![t] = "user"]
  /\ call' = [call EXCEPT ![t] = None]
  /\ rc' = [rc EXCEPT ![t] = value]
  /\ signalled' = [signalled EXCEPT ![t] = FALSE]
  /\ expired' = [expired EXCEPT ![t] = FALSE]

-----------------------------------------------------------------------------
(* User mode: a thread changes a word and then wakes everybody who waits   *)
(* for that (or moves them with FUTEX_CMP_REQUEUE).  If a child shares the *)
(* frame the store faults, and vmm_handle_cow gives this process a copy.   *)
store(t) == \E a \in Addr, v \in Value :
  /\ t \in Waker /\ At(t, "user") /\ v # word[a]
  /\ word' = [word EXCEPT ![a] = v]
  /\ frame' = IF cow THEN frame + 1 ELSE frame
  /\ cow' = FALSE
  /\ Enters(t, "stored", [op |-> "store", uaddr |-> a])
  /\ UNCHANGED <<kvars, list, signalled, expired, forks>>

(* process_fork: every writable page becomes copy-on-write. *)
fork(t) ==
  /\ t \in Waker /\ At(t, "user") /\ forks < MaxForks
  /\ cow' = TRUE /\ forks' = forks + 1
  /\ UNCHANGED <<kvars, pc, call, list, rc, signalled, expired, word, frame>>

(* The child exits or executes another program. *)
child_leaves ==
  /\ cow /\ cow' = FALSE
  /\ UNCHANGED <<kvars, pc, call, list, rc, signalled, expired, word, frame, forks>>

-----------------------------------------------------------------------------
(* FUTEX_WAIT, with the value the caller has just read (it may change      *)
(* before futex_wait looks).  The key is computed before the lock is taken.*)
sys_futex_wait(t) == \E a \in Addr :
  /\ t \in Waiter /\ At(t, "user")
  /\ Enters(t, "wait", [op |-> "wait", uaddr |-> a, val |-> word[a], key |-> key_of(a)])
  /\ UNCHANGED <<kvars, list, signalled, expired, memory>>

\* Mutant: the word is not looked at again under the lock.
futex_wait_unchecked(t) ==
  /\ At(t, "wait")
  /\ waiters' = <<t>> \o waiters
  /\ woken' = [woken EXCEPT ![t] = FALSE]
  /\ pc' = [pc EXCEPT ![t] = "check"]
  /\ UNCHANGED <<kvars, call, rc, signalled, expired, memory>>

(* Under futex_lock: -EAGAIN if the word has changed, else join the list. *)
futex_wait(t) ==
  /\ At(t, "wait")
  /\ \/ /\ word[call[t].uaddr] # call[t].val
        /\ Returns(t, "EAGAIN")
        /\ UNCHANGED list
     \/ /\ word[call[t].uaddr] = call[t].val
        /\ waiters' = <<t>> \o waiters
        /\ woken' = [woken EXCEPT ![t] = FALSE]
        /\ pc' = [pc EXCEPT ![t] = "check"]
        /\ UNCHANGED <<call, rc, signalled, expired>>
  /\ UNCHANGED <<kvars, memory>>

(* The loop: woken, interrupted, timed out, or sleep and look again. *)
wait_check(t) ==
  /\ At(t, "check")
  /\ pc' = [pc EXCEPT ![t] = IF woken[t] \/ signalled[t] \/ expired[t] THEN "leave" ELSE "sleep"]
  /\ rc' = [rc EXCEPT ![t] = CASE woken[t] -> "0"
                               [] ~woken[t] /\ signalled[t] -> "EINTR"
                               [] ~woken[t] /\ ~signalled[t] /\ expired[t] -> "ETIMEDOUT"
                               [] OTHER -> @]
  /\ UNCHANGED <<kvars, call, list, signalled, expired, memory>>

\* Mutant: task_sleep_ms() for a timed wait, but a wake that came early is lost.
wait_sleep_unconditionally(t) ==
  /\ At(t, "sleep")
  /\ phase' = [phase EXCEPT ![t] = IF t \in Timed THEN "SLEEPING" ELSE "BLOCKED"]
  /\ pc' = [pc EXCEPT ![t] = "check"]
  /\ UNCHANGED <<wake_pending, call, list, rc, signalled, expired, memory>>

wait_sleep(t) ==
  /\ At(t, "sleep")
  /\ IF t \in Timed THEN Kernel!task_sleep_ms(t) ELSE Kernel!task_block(t)
  /\ pc' = [pc EXCEPT ![t] = "check"]
  /\ UNCHANGED <<call, list, rc, signalled, expired, memory>>

Unlisted(t) == SelectSeq(waiters, LAMBDA u : u # t)

\* Mutant: the timeout or the signal wins.
wait_leave_first_reason(t) ==
  /\ At(t, "leave")
  /\ waiters' = Unlisted(t)
  /\ woken' = [woken EXCEPT ![t] = FALSE]
  /\ Returns(t, rc[t])
  /\ UNCHANGED <<kvars, memory>>

(* Under futex_lock again: leave the list; a wake that came meanwhile wins. *)
wait_leave(t) ==
  /\ At(t, "leave")
  /\ waiters' = Unlisted(t)
  /\ woken' = [woken EXCEPT ![t] = FALSE]
  /\ Returns(t, IF woken[t] THEN "0" ELSE rc[t])
  /\ UNCHANGED <<kvars, memory>>

-----------------------------------------------------------------------------
(* The listed threads with key k that have not been woken, in list order. *)
Sleepers(k) == SelectSeq(waiters, LAMBDA u : call[u].key = k /\ ~woken[u])
First(s, n) == {s[i] : i \in 1..n \cap DOMAIN s}

(* w->woken = 1; task_wake(w->task), for all of S, under futex_lock. *)
Mark(S) ==
  /\ woken' = [t \in Task |-> woken[t] \/ t \in S]
  /\ Kernel!task_wake(S)

(* FUTEX_WAKE, of everybody after a store, else of one thread. *)
sys_futex_wake(t) ==
  /\ \/ /\ t \in Waker /\ At(t, "user")
        /\ \E a \in Addr : Enters(t, "wake", [op |-> "wake", key |-> key_of(a), n |-> 1])
     \/ /\ At(t, "stored")
        /\ Enters(t, "wake", [op |-> "wake", key |-> key_of(call[t].uaddr), n |-> Cardinality(Task)])
  /\ UNCHANGED <<kvars, list, signalled, expired, memory>>

wake_key(t) ==
  /\ At(t, "wake")
  /\ Mark(First(Sleepers(call[t].key), call[t].n))
  /\ Enters(t, "user", None)
  /\ UNCHANGED <<waiters, signalled, expired, memory>>

(* FUTEX_CMP_REQUEUE after a store: wake n, move everybody else to uaddr2. *)
sys_futex_requeue(t) == \E b \in Addr, n \in 0..1 :
  LET a == call[t].uaddr IN
  /\ At(t, "stored") /\ a \in Cond /\ b \notin Cond
  /\ Enters(t, "requeue", [op |-> "requeue", uaddr |-> a, val |-> word[a],
                           key |-> key_of(a), key2 |-> key_of(b), n |-> n])
  /\ UNCHANGED <<kvars, list, signalled, expired, memory>>

(* Compare, wake, move, under one hold of futex_lock.  After -EAGAIN the   *)
(* caller wakes everybody instead.                                         *)
futex_requeue(t) ==
  LET c == call[t] IN
  /\ At(t, "requeue")
  /\ \/ /\ word[c.uaddr] # c.val
        /\ Enters(t, "stored", [op |-> "store", uaddr |-> c.uaddr])
        /\ UNCHANGED <<kvars, woken>>
     \/ /\ word[c.uaddr] = c.val /\ UNCHANGED rc
        /\ LET first == First(Sleepers(c.key), c.n)
               moved == First(Sleepers(c.key), Cardinality(Task)) \ first
           IN /\ Mark(first)
              /\ call' = [u \in Task |-> IF u = t THEN None
                                         ELSE IF u \in moved THEN [call[u] EXCEPT !.key = c.key2]
                                         ELSE call[u]]
        /\ pc' = [pc EXCEPT ![t] = "user"]
  /\ UNCHANGED <<waiters, signalled, expired, memory>>

-----------------------------------------------------------------------------
(* A signal for a thread in futex_wait's loop; elsewhere it makes no       *)
(* difference to the call.                                                 *)
signal(t) ==
  /\ t \in Target /\ pc[t] \in {"check", "sleep"} /\ ~signalled[t]
  /\ signalled' = [signalled EXCEPT ![t] = TRUE]
  /\ Kernel!task_wake({t})
  /\ UNCHANGED <<pc, call, list, rc, expired, memory>>

(* The deadline passes. *)
deadline(t) ==
  /\ t \in Timed /\ pc[t] \in {"check", "sleep"} /\ ~expired[t]
  /\ expired' = [expired EXCEPT ![t] = TRUE]
  /\ UNCHANGED <<kvars, pc, call, list, rc, signalled, memory>>

(* The timer ends a sleep: the rounding of milliseconds to ticks may put   *)
(* this a little before or after the deadline.                             *)
timer(t) ==
  /\ phase[t] = "SLEEPING"
  /\ Kernel!wake_sleepers({t}, {})
  /\ UNCHANGED <<pc, call, list, rc, signalled, expired, memory>>

Init ==
  /\ phase = [t \in Task |-> "RUNNABLE"] /\ wake_pending = [t \in Task |-> FALSE]
  /\ pc = [t \in Task |-> "user"] /\ call = [t \in Task |-> None]
  /\ waiters = <<>> /\ woken = [t \in Task |-> FALSE] /\ rc = [t \in Task |-> "0"]
  /\ signalled = [t \in Task |-> FALSE] /\ expired = [t \in Task |-> FALSE]
  /\ word = [a \in Addr |-> 0] /\ frame = 0 /\ cow = FALSE /\ forks = 0

InCall(t) ==
  \/ futex_wait(t) \/ wait_check(t) \/ wait_sleep(t) \/ wait_leave(t)
  \/ wake_key(t) \/ futex_requeue(t)

Next ==
  \/ \E t \in Task : \/ InCall(t) \/ store(t) \/ fork(t) \/ sys_futex_wait(t)
                     \/ sys_futex_wake(t) \/ sys_futex_requeue(t)
                     \/ signal(t) \/ deadline(t) \/ timer(t)
  \/ child_leaves

Spec == Init /\ [][Next]_vars

(* A runnable thread gets a CPU, the clock goes on. *)
FairSpec ==
  /\ Spec
  /\ \A t \in Task : WF_vars(InCall(t))
  /\ \A t \in Timed : WF_vars(deadline(t)) /\ WF_vars(timer(t))

-----------------------------------------------------------------------------
(* The list of waiters and the calls keep their types. *)
TypeOK ==
  /\ phase \in [Task -> {"RUNNABLE", "SLEEPING", "BLOCKED"}] /\ wake_pending \in [Task -> BOOLEAN]
  /\ pc \in [Task -> {"user", "stored", "wait", "check", "sleep", "leave", "wake", "requeue"}]
  /\ \A t \in Task : call[t] \in Call
  /\ waiters \in Seq(Task) /\ woken \in [Task -> BOOLEAN]
  /\ rc \in [Task -> {"0", "EAGAIN", "EINTR", "ETIMEDOUT"}]
  /\ signalled \in [Task -> BOOLEAN] /\ expired \in [Task -> BOOLEAN]
  /\ word \in [Addr -> Value] /\ frame \in 0..MaxForks /\ cow \in BOOLEAN

(* Futexes "work across threads (same mm)" (futex.c): a thread listed for  *)
(* a word that no longer holds the value it waits on has somebody about to *)
(* wake it, unless it was moved to another word.                           *)
NoMissedStore ==
  \A t \in Task :
    (pc[t] \in {"check", "sleep"} /\ ~woken[t] /\ call[t].key[1] = call[t].uaddr
       /\ word[call[t].uaddr] # call[t].val)
    => \E u \in Task : \/ call[u].op = "store" /\ call[u].uaddr = call[t].uaddr
                       \/ pc[u] = "wake" /\ call[u].key = call[t].key
                       \/ pc[u] = "requeue" /\ call[u].key = call[t].key

(* A woken thread never sleeps on: wake_key's task_wake reaches it whether *)
(* it is asleep or still on its way to sleep.                              *)
WokenIsAwake == \A t \in Task : woken[t] => phase[t] = "RUNNABLE"

(* "a wake that raced with the timeout wins" (futex.c): a thread that a    *)
(* FUTEX_WAKE has counted returns 0.                                       *)
WakeWins == [][\A t \in Task : (woken[t] /\ ~woken'[t]) => rc'[t] = "0"]_vars

(* Thread t waits, and was woken or will time out. *)
CanFinish(t) == pc[t] \in {"check", "sleep", "leave"} /\ (woken[t] \/ t \in Timed)

(* A woken thread returns, and so does one that set a timeout. *)
CallsFinish == \A t \in Task : []<>~CanFinish(t)
=============================================================================
