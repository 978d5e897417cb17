---------------------------- MODULE SchedProofs ----------------------------
(***************************************************************************)
(* Proofs about the scheduler, for any number of tasks and CPUs.           *)
(***************************************************************************)
EXTENDS Sched, FiniteSetTheorems, TLAPS

(* Membership in a run queue, and a queue that holds no task twice. *)
InQ(q, t) == \E i \in DOMAIN q : q[i] = t
NoDup(q) == \A i, j \in DOMAIN q : q[i] = q[j] => i = j

(* task_stop() is only sound when nobody can continue a task that is still *)
(* on its way to the yield: there is one CPU, or nothing is ever stopped.  *)
JobControlSafe == Stoppable = {} \/ \A c, d \in Cpu : c = d

-----------------------------------------------------------------------------
(* The inductive invariant: the invariants of Sched and, in addition,      *)
(* that an idle task is RUNNING on its own CPU and READY (never queued)    *)
(* otherwise, that only a stoppable task is ever inside task_stop(), and   *)
(* that an idle task holds the heap's lock only while it frees the dead.   *)

IdleInv == \A c \in Cpu : state[c] = IF current[c] = c THEN "RUNNING" ELSE "READY"

StopInv == \A t \in Task : at[t] \in {"stop_wake", "stop_yield"} => t \in Stoppable

HeapInv ==
  heap_lock \in Cpu => /\ current[heap_lock] = heap_lock
                       /\ at[heap_lock] = "free" /\ dead[heap_lock] # {}

(* What only schedule() and rq_push() touch. *)
QueueInv == RunQueueIntact /\ OneCpuPerTask /\ IdleInv

IInv == TypeOK /\ QueueInv /\ CpuRunsRunnable /\ StopInv /\ HeapInv /\ ReapedOnce

-----------------------------------------------------------------------------
(* Taking the head off a queue without duplicates. *)
LEMMA TailOfQueue ==
  ASSUME NEW q \in Seq(Task), q # <<>>, NoDup(q)
  PROVE  /\ Head(q) \in Task /\ InQ(q, Head(q))
         /\ Tail(q) \in Seq(Task) /\ NoDup(Tail(q))
         /\ \A t \in Task : InQ(Tail(q), t) <=> InQ(q, t) /\ t # Head(q)
<1>1. Len(q) \in Nat \ {0} /\ DOMAIN q = 1..Len(q)
  OBVIOUS
<1>2. Head(q) = q[1] /\ Head(q) \in Task /\ InQ(q, Head(q))
  BY <1>1 DEF InQ
<1>3. /\ Tail(q) \in Seq(Task) /\ Len(Tail(q)) = Len(q) - 1
      /\ DOMAIN Tail(q) = 1..(Len(q) - 1)
      /\ \A i \in 1..(Len(q) - 1) : Tail(q)[i] = q[i + 1]
  BY <1>1
<1>4. NoDup(Tail(q))
  BY <1>1, <1>3 DEF NoDup
<1>5. ASSUME NEW t \in Task
      PROVE  InQ(Tail(q), t) <=> InQ(q, t) /\ t # Head(q)
  <2>1. ASSUME InQ(Tail(q), t) PROVE InQ(q, t) /\ t # Head(q)
    BY <1>1, <1>2, <1>3, <2>1 DEF InQ, NoDup
  <2>2. ASSUME InQ(q, t), t # Head(q) PROVE InQ(Tail(q), t)
    <3>1. PICK i \in 1..Len(q) : q[i] = t
      BY <1>1, <2>2 DEF InQ
    <3>2. i # 1 /\ i - 1 \in 1..(Len(q) - 1) /\ Tail(q)[i - 1] = t
      BY <1>1, <1>2, <1>3, <2>2, <3>1
    <3> QED BY <1>3, <3>2 DEF InQ
  <2> QED BY <2>1, <2>2
<1> QED BY <1>2, <1>3, <1>4, <1>5

(* Appending a queue w that shares no task with q. *)
LEMMA AppendQueue ==
  ASSUME NEW q \in Seq(Task), NEW w \in Seq(Task), NoDup(q), NoDup(w),
         \A t \in Task : ~(InQ(q, t) /\ InQ(w, t))
  PROVE  /\ q \o w \in Seq(Task) /\ NoDup(q \o w)
         /\ \A t \in Task : InQ(q \o w, t) <=> InQ(q, t) \/ InQ(w, t)
<1> DEFINE n == Len(q)  m == Len(w)  r == q \o w
<1>1. /\ n \in Nat /\ m \in Nat
      /\ DOMAIN q = 1..n /\ DOMAIN w = 1..m
      /\ r \in Seq(Task) /\ DOMAIN r = 1..(n + m)
      /\ \A i \in 1..(n + m) : r[i] = IF i <= n THEN q[i] ELSE w[i - n]
  OBVIOUS
<1>2. \A i \in 1..n : q[i] \in Task /\ InQ(q, q[i])
  BY <1>1 DEF InQ
<1>3. \A i \in 1..m : w[i] \in Task /\ InQ(w, w[i])
  BY <1>1 DEF InQ
<1>4. ASSUME NEW i \in 1..(n + m), NEW j \in 1..(n + m), r[i] = r[j]
      PROVE  i = j
  <2> HIDE DEF n, m, r
  <2>1. CASE i <= n /\ j <= n
    <3>1. i \in DOMAIN q /\ j \in DOMAIN q /\ q[i] = q[j]
      BY <1>1, <1>4, <2>1
    <3> QED BY <3>1 DEF NoDup
  <2>2. CASE i > n /\ j > n
    <3>1. i - n \in 1..m /\ j - n \in 1..m /\ w[i - n] = w[j - n]
      BY <1>1, <1>4, <2>2
    <3>2. i - n = j - n
      BY <1>1, <3>1 DEF NoDup
    <3> QED BY <1>1, <3>2
  <2>3. CASE i <= n /\ j > n
    <3>1. i \in 1..n /\ j - n \in 1..m /\ q[i] = w[j - n]
      BY <1>1, <1>4, <2>3
    <3> QED BY <1>2, <1>3, <3>1
  <2>4. CASE i > n /\ j <= n
    <3>1. j \in 1..n /\ i - n \in 1..m /\ q[j] = w[i - n]
      BY <1>1, <1>4, <2>4
    <3> QED BY <1>2, <1>3, <3>1
  <2> QED BY <1>1, <2>1, <2>2, <2>3, <2>4
<1>5. ASSUME NEW t \in Task
      PROVE  InQ(r, t) <=> InQ(q, t) \/ InQ(w, t)
  <2> HIDE DEF n, m, r
  <2>1. ASSUME InQ(r, t) PROVE InQ(q, t) \/ InQ(w, t)
    <3>1. PICK i \in 1..(n + m) : r[i] = t
      BY <1>1, <2>1 DEF InQ
    <3>2. i \in 1..n \/ i - n \in 1..m
      BY <1>1
    <3> QED BY <1>1, <3>1, <3>2 DEF InQ
  <2>2. ASSUME InQ(q, t) PROVE InQ(r, t)
    BY <1>1, <2>2 DEF InQ
  <2>3. ASSUME InQ(w, t) PROVE InQ(r, t)
    <3>1. PICK i \in 1..m : w[i] = t
      BY <1>1, <2>3 DEF InQ
    <3>2. i + n \in 1..(n + m) /\ r[i + n] = t
      BY <1>1, <3>1
    <3> QED BY <1>1, <3>2 DEF InQ
  <2> QED BY <2>1, <2>2, <2>3
<1> QED BY <1>1, <1>4, <1>5 DEF NoDup

(* What a walk of the tasks of S is. *)
LEMMA WalkFacts ==
  ASSUME NEW S \in SUBSET Task, NEW w \in Walks(S)
  PROVE  /\ w \in Seq(Task) /\ NoDup(w)
         /\ \A t \in Task : InQ(w, t) <=> t \in S
<1>1. Cardinality(S) \in Nat
  BY TaskAssumption, FS_Subset, FS_CardinalityType
<1>2. w \in [1..Cardinality(S) -> S] /\ DOMAIN w = 1..Cardinality(S)
  BY DEF Walks
<1>3. w \in Seq(Task)
  BY <1>1, <1>2
<1> QED BY <1>2, <1>3 DEF Walks, NoDup, InQ

-----------------------------------------------------------------------------
(* schedule() called by CPU c, which has set its own task's state to s.    *)
LEMMA ScheduleFacts ==
  ASSUME TypeOK, QueueInv,
         \A d \in Cpu : state[current[d]] \in {"RUNNING", "STOPPED"},
         NEW c \in Cpu, NEW s \in State \ {"READY"},
         current[c] = c => s = "RUNNING",
         schedule(c, [state EXCEPT ![current[c]] = s])
  PROVE  /\ state' \in [AnyTask -> State] /\ rq' \in Seq(Task)
         /\ current' \in [Cpu -> AnyTask] /\ slice_left' \in [Cpu -> 0..TimeSlice]
         /\ QueueInv'
         /\ state'[current'[c]] = "RUNNING"
         /\ \A d \in Cpu \ {c} : current'[d] = current[d] /\ state'[current[d]] = state[current[d]]
         /\ \A t \in Task : state[t] # "READY" /\ t # current[c] => state'[t] = state[t]
         /\ current[c] \in Task /\ s # "RUNNING" => state'[current[c]] = s
<1> DEFINE prev == current[c]
           st == [state EXCEPT ![prev] = s]
<1> USE CpuAssumption, TimeSliceAssumption
<1>1. /\ prev \in AnyTask /\ prev \in Task \cup {c}
      /\ st \in [AnyTask -> State] /\ st[prev] = s
      /\ \A x \in AnyTask : x # prev => st[x] = state[x]
      /\ state[prev] # "READY"
  BY DEF TypeOK, QueueInv, OneCpuPerTask, AnyTask
<1>2. CASE rq = <<>> /\ s = "RUNNING"
  <2>1. state' = st /\ rq' = rq /\ current' = current /\ slice_left' = slice_left
    BY <1>1, <1>2 DEF schedule
  <2>2. RunQueueIntact'
    BY <1>1, <1>2, <2>1 DEF RunQueueIntact, QueueInv, TypeOK, AnyTask
  <2>3. OneCpuPerTask' /\ IdleInv'
    BY <1>1, <1>2, <2>1 DEF OneCpuPerTask, IdleInv, QueueInv, TypeOK, AnyTask
  <2> QED BY <1>1, <1>2, <2>1, <2>2, <2>3 DEF TypeOK, QueueInv, OneCpuPerTask
<1>3. CASE rq = <<>> /\ s # "RUNNING"
  <2>1. prev \in Task /\ prev # c
    BY <1>1, <1>3
  <2>2. /\ state' = [st EXCEPT ![c] = "RUNNING"] /\ rq' = <<>>
        /\ current' = [current EXCEPT ![c] = c]
        /\ slice_left' = [slice_left EXCEPT ![c] = TimeSlice]
    BY <1>1, <1>3 DEF schedule
  <2>3. /\ state'[c] = "RUNNING" /\ state'[prev] = s
        /\ \A x \in AnyTask : x # prev /\ x # c => state'[x] = state[x]
        /\ state' \in [AnyTask -> State]
    BY <1>1, <2>1, <2>2 DEF AnyTask, State
  <2>4. /\ current' \in [Cpu -> AnyTask] /\ current'[c] = c
        /\ \A d \in Cpu \ {c} : current'[d] = current[d]
    BY <2>2 DEF TypeOK, AnyTask
  <2>5. \A d \in Cpu \ {c} : current[d] # prev /\ current[d] # c /\ current[d] \in AnyTask
    BY DEF TypeOK, QueueInv, OneCpuPerTask, AnyTask
  <2>6. RunQueueIntact'
    BY <1>1, <1>3, <2>1, <2>2, <2>3 DEF RunQueueIntact, QueueInv, AnyTask
  <2>7. OneCpuPerTask'
    BY <1>1, <1>3, <2>1, <2>3, <2>4, <2>5 DEF OneCpuPerTask, QueueInv, AnyTask
  <2>8. IdleInv'
    BY <2>1, <2>3, <2>4 DEF IdleInv, QueueInv, AnyTask
  <2>9. slice_left' \in [Cpu -> 0..TimeSlice]
    BY <2>2 DEF TypeOK
  <2>10. rq' \in Seq(Task)
    BY <2>2
  <2>11. \A t \in Task : t # prev => state'[t] = state[t]
    BY <2>3 DEF AnyTask
  <2> QED BY <1>3, <2>3, <2>4, <2>5, <2>6, <2>7, <2>8, <2>9, <2>10, <2>11 DEF QueueInv
<1>4. CASE rq # <<>>
  <2> DEFINE next == Head(rq)
             back == IF s = "RUNNING" /\ prev \in Task THEN <<prev>> ELSE <<>>
  <2>1. /\ next \in Task /\ InQ(rq, next)
        /\ Tail(rq) \in Seq(Task) /\ NoDup(Tail(rq))
        /\ \A t \in Task : InQ(Tail(rq), t) <=> InQ(rq, t) /\ t # next
    BY <1>4, TailOfQueue DEF TypeOK, QueueInv, RunQueueIntact, NoDup
  <2>2. \A t \in Task : state[t] = "READY" <=> InQ(rq, t)
    BY DEF QueueInv, RunQueueIntact, InQ
  <2>3. state[next] = "READY" /\ next # prev /\ next # c
    BY <1>1, <2>1, <2>2
  <2>4. /\ state' = [[st EXCEPT ![prev] = IF @ = "RUNNING" THEN "READY" ELSE @]
                        EXCEPT ![next] = "RUNNING"]
        /\ rq' = Tail(rq) \o back
        /\ current' = [current EXCEPT ![c] = next]
        /\ slice_left' = [slice_left EXCEPT ![c] = TimeSlice]
    BY <1>1, <1>4 DEF schedule
  <2>5. /\ state'[next] = "RUNNING" /\ state'[prev] = IF s = "RUNNING" THEN "READY" ELSE s
        /\ \A x \in AnyTask : x # prev /\ x # next => state'[x] = state[x]
        /\ state' \in [AnyTask -> State]
    BY <1>1, <2>1, <2>3, <2>4 DEF AnyTask, State
  <2>6. /\ current' \in [Cpu -> AnyTask] /\ current'[c] = next
        /\ \A d \in Cpu \ {c} : current'[d] = current[d]
    BY <2>1, <2>4 DEF TypeOK, AnyTask
  <2>7. \A d \in Cpu \ {c} : current[d] # prev /\ current[d] # next /\ current[d] \in AnyTask
    BY <2>3 DEF TypeOK, QueueInv, OneCpuPerTask, AnyTask
  <2>8. /\ back \in Seq(Task) /\ NoDup(back)
        /\ \A t \in Task : InQ(back, t) <=> s = "RUNNING" /\ t = prev
    <3>1. CASE s = "RUNNING" /\ prev \in Task
      BY <3>1 DEF NoDup, InQ
    <3>2. CASE ~(s = "RUNNING" /\ prev \in Task)
      <4>1. back = <<>>
        BY <3>2
      <4> QED BY <3>2, <4>1 DEF NoDup, InQ
    <3> QED BY <3>1, <3>2
  <2>9. ~InQ(rq, prev) \/ prev \notin Task
    BY <1>1, <2>2
  <2>10. /\ rq' \in Seq(Task) /\ NoDup(rq')
         /\ \A t \in Task : InQ(rq', t) <=> InQ(Tail(rq), t) \/ InQ(back, t)
    <3> HIDE DEF back
    <3>1. \A t \in Task : ~(InQ(Tail(rq), t) /\ InQ(back, t))
      BY <2>1, <2>8, <2>9
    <3>2. /\ Tail(rq) \o back \in Seq(Task) /\ NoDup(Tail(rq) \o back)
          /\ \A t \in Task : InQ(Tail(rq) \o back, t) <=> InQ(Tail(rq), t) \/ InQ(back, t)
      BY <2>1, <2>8, <3>1, AppendQueue
    <3> QED BY <2>4, <3>2
  <2>11. RunQueueIntact'
    <3>1. \A t \in Task : state'[t] = "READY" <=> InQ(rq', t)
      BY <1>1, <2>1, <2>2, <2>3, <2>5, <2>8, <2>9, <2>10 DEF AnyTask
    <3> QED BY <2>10, <3>1 DEF RunQueueIntact, InQ, NoDup
  <2>12. OneCpuPerTask'
    <3>1. \A d, e \in Cpu : current'[d] = current'[e] => d = e
      BY <2>6, <2>7 DEF QueueInv, OneCpuPerTask
    <3>2. \A d \in Cpu : current'[d] \in Task \cup {d}
      BY <2>1, <2>6 DEF QueueInv, OneCpuPerTask
    <3>3. ASSUME NEW x \in AnyTask, state'[x] = "RUNNING"
          PROVE  \E d \in Cpu : current'[d] = x
      BY <2>5, <2>6, <2>7, <3>3 DEF QueueInv, OneCpuPerTask
    <3> QED BY <3>1, <3>2, <3>3 DEF OneCpuPerTask
  <2>13. IdleInv'
    <3>1. ASSUME NEW d \in Cpu
          PROVE  state'[d] = IF current'[d] = d THEN "RUNNING" ELSE "READY"
      <4>1. CASE d = c
        BY <1>1, <2>1, <2>3, <2>5, <2>6, <4>1 DEF IdleInv, QueueInv, AnyTask
      <4>2. CASE d # c
        BY <1>1, <2>1, <2>3, <2>5, <2>6, <4>2 DEF IdleInv, QueueInv, AnyTask
      <4> QED BY <4>1, <4>2
    <3> QED BY <3>1 DEF IdleInv
  <2>14. slice_left' \in [Cpu -> 0..TimeSlice]
    BY <2>4 DEF TypeOK
  <2>15. \A t \in Task : state[t] # "READY" /\ t # prev => state'[t] = state[t]
    BY <2>3, <2>5 DEF AnyTask
  <2> QED BY <2>5, <2>6, <2>7, <2>10, <2>11, <2>12, <2>13, <2>14, <2>15 DEF QueueInv
<1> QED BY <1>2, <1>3, <1>4

(* rq_push() on the tasks of a queue w, none of them runnable or on a CPU. *)
LEMMA PushFacts ==
  ASSUME TypeOK, QueueInv,
         NEW w \in Seq(Task), NoDup(w),
         \A t \in Task : InQ(w, t) =>
            state[t] \notin {"READY", "RUNNING"} /\ \A c \in Cpu : current[c] # t,
         rq_push(w), current' = current
  PROVE  /\ state' \in [AnyTask -> State] /\ rq' \in Seq(Task)
         /\ QueueInv'
         /\ \A c \in Cpu : state'[current[c]] = state[current[c]]
         /\ \A t \in Task : state'[t] = IF InQ(w, t) THEN "READY" ELSE state[t]
<1> USE CpuAssumption
<1>1. \A t \in Task : state[t] = "READY" <=> InQ(rq, t)
  BY DEF QueueInv, RunQueueIntact, InQ
<1>2. /\ rq \o w \in Seq(Task) /\ NoDup(rq \o w)
      /\ \A t \in Task : InQ(rq \o w, t) <=> InQ(rq, t) \/ InQ(w, t)
  <2>1. rq \in Seq(Task) /\ NoDup(rq) /\ \A t \in Task : ~(InQ(rq, t) /\ InQ(w, t))
    BY <1>1 DEF TypeOK, QueueInv, RunQueueIntact, NoDup
  <2> QED BY <2>1, AppendQueue
<1>3. rq' = rq \o w /\ state' = [x \in AnyTask |-> IF InQ(w, x) THEN "READY" ELSE state[x]]
  BY DEF rq_push, Pushed, InQ
<1>4. \A x \in AnyTask : InQ(w, x) => x \in Task
  BY DEF InQ
<1>5. /\ state' \in [AnyTask -> State]
      /\ \A x \in AnyTask : state'[x] = IF InQ(w, x) THEN "READY" ELSE state[x]
  BY <1>3 DEF TypeOK, State
<1>6. \A x \in AnyTask : (\E c \in Cpu : current[c] = x) => ~InQ(w, x)
  BY <1>4
<1>7. \A c \in Cpu : c \in AnyTask /\ c \notin Task /\ current[c] \in AnyTask
  BY DEF TypeOK, AnyTask
<1>8. RunQueueIntact'
  <2>1. \A t \in Task : state'[t] = "READY" <=> InQ(rq', t)
    BY <1>1, <1>2, <1>3, <1>5 DEF AnyTask
  <2> QED BY <1>2, <1>3, <2>1 DEF RunQueueIntact, InQ, NoDup
<1>9. OneCpuPerTask' /\ IdleInv'
  BY <1>4, <1>5, <1>7 DEF OneCpuPerTask, IdleInv, QueueInv
<1>10. \A c \in Cpu : state'[current[c]] = state[current[c]]
  BY <1>5, <1>6, <1>7
<1>11. \A t \in Task : state'[t] = IF InQ(w, t) THEN "READY" ELSE state[t]
  BY <1>5 DEF AnyTask
<1> QED BY <1>2, <1>3, <1>5, <1>8, <1>9, <1>10, <1>11 DEF QueueInv

(* The two queues that rq_push() is called with when at most one task is   *)
(* pushed.                                                                 *)
LEMMA ShortQueues ==
  /\ <<>> \in Seq(Task) /\ NoDup(<<>>) /\ \A t \in Task : ~InQ(<<>>, t)
  /\ \A p \in Task : /\ <<p>> \in Seq(Task) /\ NoDup(<<p>>)
                     /\ \A t \in Task : InQ(<<p>>, t) <=> t = p
BY DEF NoDup, InQ

-----------------------------------------------------------------------------
(* The two kinds of step that do all the work: CPU c calls schedule(), and *)
(* somebody calls rq_push().  at may change for the tasks concerned.       *)

ZombieStep == \A t \in Task : state[t] = "ZOMBIE" => state'[t] \in {"ZOMBIE", "FREE"}

(* What IInv says of the tasks that are on a CPU and of those that are not. *)
CurrentTasks ==
  \A d \in Cpu : /\ state[current[d]] \in {"RUNNING", "STOPPED"}
                 /\ current[d] \in AnyTask /\ current[d] \in Task \cup {d}
                 /\ current[d] = d => state[d] = "RUNNING"

OffCpuTasks ==
  \A t \in Task : t \in Waiting \/ state[t] \in {"FREE", "ZOMBIE"} =>
                    \A d \in Cpu : current[d] # t

LEMMA CurrentFacts ==
  ASSUME IInv PROVE CurrentTasks /\ OffCpuTasks
BY DEF IInv, CpuRunsRunnable, TypeOK, QueueInv, OneCpuPerTask, IdleInv, Waiting,
       CurrentTasks, OffCpuTasks

LEMMA SwitchStep ==
  ASSUME IInv, NEW c \in Cpu, NEW s \in State \ {"READY"},
         current[c] = c => s = "RUNNING" /\ heap_lock # c,
         schedule(c, [state EXCEPT ![current[c]] = s]),
         at' \in [AnyTask -> TaskAt \cup IdleAt],
         \A x \in AnyTask : at'[x] = at[x] \/ (x = current[c] /\ at'[x] \in {"run", "reap"}),
         wake_pending' \in [Task -> BOOLEAN], UNCHANGED <<dead, heap_lock>>
  PROVE  IInv' /\ ZombieStep
<1> USE CpuAssumption
<1>1. CurrentTasks
  BY CurrentFacts
<1>2. /\ state' \in [AnyTask -> State] /\ rq' \in Seq(Task)
      /\ current' \in [Cpu -> AnyTask] /\ slice_left' \in [Cpu -> 0..TimeSlice]
      /\ QueueInv'
      /\ state'[current'[c]] = "RUNNING"
      /\ \A d \in Cpu \ {c} : current'[d] = current[d] /\ state'[current[d]] = state[current[d]]
      /\ \A t \in Task : state[t] # "READY" /\ t # current[c] => state'[t] = state[t]
  BY <1>1, ScheduleFacts DEF IInv, CurrentTasks
<1>3. TypeOK'
  BY <1>2 DEF IInv, TypeOK
<1>4. CpuRunsRunnable'
  <2>1. \A d \in Cpu \ {c} : current[d] # current[c]
    BY DEF IInv, QueueInv, OneCpuPerTask
  <2> QED BY <1>1, <1>2, <2>1 DEF IInv, CpuRunsRunnable, CurrentTasks
<1>5. StopInv'
  BY DEF IInv, StopInv, AnyTask
<1>6. HeapInv'
  BY <1>1, <1>2 DEF IInv, HeapInv, AnyTask, CurrentTasks
<1>7. ReapedOnce'
  <2>1. Unlinked' = Unlinked /\ Unlinked \subseteq Task
    BY DEF Unlinked, IInv, TypeOK
  <2>2. ASSUME NEW t \in Unlinked
        PROVE  state'[t] = "ZOMBIE" /\ \A d \in Cpu : current'[d] # t
    <3>1. state[t] = "ZOMBIE" /\ t \in Task /\ \A d \in Cpu : current[d] # t
      BY <2>1 DEF IInv, ReapedOnce
    <3>2. state'[t] = "ZOMBIE"
      BY <1>2, <3>1
    <3> QED BY <1>2, <3>1, <3>2
  <2> QED BY <2>1, <2>2 DEF IInv, ReapedOnce
<1>8. ZombieStep
  BY <1>1, <1>2 DEF ZombieStep, CurrentTasks
<1> QED BY <1>2, <1>3, <1>4, <1>5, <1>6, <1>7, <1>8 DEF IInv

LEMMA PushStep ==
  ASSUME IInv, NEW w \in Seq(Task), NoDup(w),
         \A t \in Task : InQ(w, t) =>
            state[t] \notin {"READY", "RUNNING", "ZOMBIE"} /\ \A c \in Cpu : current[c] # t,
         rq_push(w),
         at' \in [AnyTask -> TaskAt \cup IdleAt],
         \A x \in AnyTask : \/ at'[x] = at[x]
                            \/ x \in Task /\ state[x] = "FREE" /\ at'[x] = "run"
                            \/ x \in Task /\ at[x] = "stop_wake" /\ at'[x] = "stop_yield",
         wake_pending' \in [Task -> BOOLEAN], slice_left' \in [Cpu -> 0..TimeSlice],
         UNCHANGED <<current, dead, heap_lock>>
  PROVE  IInv' /\ ZombieStep
<1> USE CpuAssumption
<1>1. CurrentTasks
  BY CurrentFacts
<1>2. /\ state' \in [AnyTask -> State] /\ rq' \in Seq(Task)
      /\ QueueInv'
      /\ \A c \in Cpu : state'[current[c]] = state[current[c]]
      /\ \A t \in Task : state'[t] = IF InQ(w, t) THEN "READY" ELSE state[t]
  BY PushFacts DEF IInv
<1>3. TypeOK'
  BY <1>2 DEF IInv, TypeOK
<1>4. CpuRunsRunnable'
  BY <1>1, <1>2 DEF IInv, CpuRunsRunnable, CurrentTasks
<1>5. StopInv'
  BY DEF IInv, StopInv, AnyTask
<1>6. HeapInv'
  BY DEF IInv, HeapInv, AnyTask
<1>7. ReapedOnce'
  <2>1. Unlinked' = Unlinked /\ Unlinked \subseteq Task
    BY DEF Unlinked, IInv, TypeOK
  <2> QED BY <1>2, <2>1 DEF IInv, ReapedOnce
<1>8. ZombieStep
  BY <1>2 DEF ZombieStep
<1> QED BY <1>2, <1>3, <1>4, <1>5, <1>6, <1>7, <1>8 DEF IInv

(* schedule() of a CPU whose task's state is left as it is: task_yield,    *)
(* sched_preempt, the end of task_stop, the idle loop.                     *)
LEMMA YieldStep ==
  ASSUME IInv, NEW c \in Cpu, current[c] = c => heap_lock # c,
         schedule(c, state),
         at' \in [AnyTask -> TaskAt \cup IdleAt],
         \A x \in AnyTask : at'[x] = at[x] \/ (x = current[c] /\ at'[x] \in {"run", "reap"}),
         UNCHANGED <<wake_pending, dead, heap_lock>>
  PROVE  IInv' /\ ZombieStep
<1> DEFINE s == state[current[c]]
<1>1. CurrentTasks
  BY CurrentFacts
<1>2. s \in State \ {"READY"} /\ (current[c] = c => s = "RUNNING")
  BY <1>1 DEF CurrentTasks, State
<1>3. [state EXCEPT ![current[c]] = s] = state
  BY DEF IInv, TypeOK
<1>4. wake_pending' \in [Task -> BOOLEAN]
  BY DEF IInv, TypeOK
<1> QED BY <1>2, <1>3, <1>4, SwitchStep

(* A step that changes neither the queue, the CPUs nor a task's state. *)
LEMMA QuietStep ==
  ASSUME IInv, UNCHANGED <<state, rq, current>>,
         wake_pending' \in [Task -> BOOLEAN], slice_left' \in [Cpu -> 0..TimeSlice],
         at' \in [AnyTask -> TaskAt \cup IdleAt],
         dead' \in [AnyTask -> SUBSET Task], heap_lock' \in AnyTask \cup {Nobody},
         CpuRunsRunnable', StopInv', HeapInv', ReapedOnce'
  PROVE  IInv' /\ ZombieStep
<1>1. TypeOK'
  BY DEF IInv, TypeOK
<1>2. QueueInv'
  BY DEF IInv, QueueInv, RunQueueIntact, OneCpuPerTask, IdleInv
<1> QED BY <1>1, <1>2 DEF IInv, ZombieStep

(* A step that changes wake_pending only: a wake that is remembered or consumed. *)
LEMMA MarkStep ==
  ASSUME IInv, UNCHANGED <<state, rq, current, slice_left, at, dead, heap_lock>>,
         wake_pending' \in [Task -> BOOLEAN]
  PROVE  IInv' /\ ZombieStep
<1>1. CpuRunsRunnable' /\ StopInv' /\ HeapInv' /\ ReapedOnce'
  BY DEF IInv, CpuRunsRunnable, StopInv, HeapInv, ReapedOnce, Unlinked
<1>2. /\ slice_left' \in [Cpu -> 0..TimeSlice] /\ at' \in [AnyTask -> TaskAt \cup IdleAt]
      /\ dead' \in [AnyTask -> SUBSET Task] /\ heap_lock' \in AnyTask \cup {Nobody}
  BY DEF IInv, TypeOK
<1> QED BY <1>1, <1>2, QuietStep

(* rq_push() on some of the waiting tasks, in the order of a walk. *)
LEMMA WalkStep ==
  ASSUME IInv, NEW S \in SUBSET Waiting, \E w \in Walks(S) : rq_push(w),
         wake_pending' \in [Task -> BOOLEAN], slice_left' \in [Cpu -> 0..TimeSlice],
         UNCHANGED <<current, at, dead, heap_lock>>
  PROVE  IInv' /\ ZombieStep
<1>1. PICK w \in Walks(S) : rq_push(w)
  OBVIOUS
<1>2. S \in SUBSET Task
  BY DEF Waiting
<1>3. /\ w \in Seq(Task) /\ NoDup(w)
      /\ \A t \in Task : InQ(w, t) <=> t \in S
  BY <1>2, WalkFacts
<1>4. OffCpuTasks
  BY CurrentFacts
<1>5. \A t \in Task : InQ(w, t) =>
         state[t] \notin {"READY", "RUNNING", "ZOMBIE"} /\ \A c \in Cpu : current[c] # t
  BY <1>3, <1>4 DEF OffCpuTasks, Waiting
<1>6. at' \in [AnyTask -> TaskAt \cup IdleAt] /\ \A y \in AnyTask : at'[y] = at[y]
  BY DEF IInv, TypeOK
<1> QED BY <1>1, <1>3, <1>5, <1>6, PushStep

(* task_wake() on one task. *)
LEMMA WakeStep ==
  ASSUME IInv, NEW p \in Task, Wakes(p),
         at' \in [AnyTask -> TaskAt \cup IdleAt],
         \A y \in AnyTask : at'[y] = at[y] \/ (y \in Task /\ at[y] = "stop_wake" /\ at'[y] = "stop_yield"),
         UNCHANGED <<current, slice_left, dead, heap_lock>>
  PROVE  IInv' /\ ZombieStep
<1> DEFINE w == IF p \in Waiting THEN <<p>> ELSE <<>>
<1>1. OffCpuTasks
  BY CurrentFacts
<1>2. /\ w \in Seq(Task) /\ NoDup(w)
      /\ \A t \in Task : InQ(w, t) => t = p /\ p \in Waiting
  BY ShortQueues
<1>3. \A t \in Task : InQ(w, t) =>
         state[t] \notin {"READY", "RUNNING", "ZOMBIE"} /\ \A c \in Cpu : current[c] # t
  BY <1>1, <1>2 DEF OffCpuTasks, Waiting
<1>4. rq_push(w)
  BY DEF Wakes
<1>5. wake_pending' \in [Task -> BOOLEAN] /\ slice_left' \in [Cpu -> 0..TimeSlice]
  BY DEF Wakes, IInv, TypeOK
<1> HIDE DEF w
<1> QED BY <1>2, <1>3, <1>4, <1>5, PushStep

-----------------------------------------------------------------------------
(* Every step of the scheduler keeps the invariant and leaves the dead     *)
(* dead.                                                                   *)
LEMMA NextStep ==
  ASSUME JobControlSafe, IInv, Next
  PROVE  IInv' /\ ZombieStep
<1> USE CpuAssumption
<1>1. PICK c \in Cpu : TaskStep(c) \/ Interrupt(c)
  BY DEF Next
<1> DEFINE x == current[c]
<1>2. CurrentTasks /\ OffCpuTasks
  BY CurrentFacts
<1>3. /\ state \in [AnyTask -> State] /\ at \in [AnyTask -> TaskAt \cup IdleAt]
      /\ wake_pending \in [Task -> BOOLEAN] /\ slice_left \in [Cpu -> 0..TimeSlice]
      /\ dead \in [AnyTask -> SUBSET Task] /\ heap_lock \in AnyTask \cup {Nobody}
  BY DEF IInv, TypeOK
<1>4. x \in AnyTask /\ x \in Task \cup {c}
  BY <1>2 DEF CurrentTasks
<1>5. CASE task_yield(c)
  BY <1>3, <1>5, YieldStep DEF task_yield, TaskRuns
<1>6. CASE task_sleep_ms(c) \/ task_block(c)
  <2>1. PICK s \in {"SLEEPING", "BLOCKED"} : Wait(c, s)
    BY <1>6 DEF task_sleep_ms, task_block
  <2>2. wake_pending' \in [Task -> BOOLEAN] /\ x \in Task
    BY <1>3, <2>1 DEF Wait, TaskRuns
  <2>3. CASE wake_pending[x]
    BY <1>3, <2>1, <2>2, <2>3, MarkStep DEF Wait
  <2>4. CASE ~wake_pending[x]
    <3>1. schedule(c, [state EXCEPT ![current[c]] = s])
      BY <2>1, <2>4 DEF Wait
    <3>2. s \in State \ {"READY"} /\ UNCHANGED <<at, dead, heap_lock>>
      BY <2>1 DEF Wait, State
    <3> QED BY <1>3, <2>2, <3>1, <3>2, SwitchStep
  <2> QED BY <2>3, <2>4
<1>7. CASE task_exit(c)
  BY <1>3, <1>7, SwitchStep DEF task_exit, TaskRuns, State
<1>8. CASE task_stop(c)
  <2>1. /\ x \in Task /\ x \in Stoppable /\ state[x] = "RUNNING"
        /\ state' = [state EXCEPT ![x] = "STOPPED"]
        /\ at' = [at EXCEPT ![x] = "stop_wake"]
        /\ UNCHANGED <<rq, current, wake_pending, slice_left, dead, heap_lock>>
    BY <1>8 DEF task_stop, TaskRuns, Running, IInv, CpuRunsRunnable
  <2>2. TypeOK'
    BY <2>1 DEF IInv, TypeOK, State, TaskAt
  <2>3. QueueInv'
    BY <1>3, <2>1 DEF IInv, QueueInv, RunQueueIntact, OneCpuPerTask, IdleInv, AnyTask
  <2>4. CpuRunsRunnable'
    BY <1>2, <1>3, <2>1 DEF IInv, CpuRunsRunnable, CurrentTasks
  <2>5. StopInv' /\ HeapInv'
    BY <1>3, <2>1 DEF IInv, StopInv, HeapInv, AnyTask
  <2>6. ReapedOnce' /\ ZombieStep
    BY <1>3, <2>1 DEF IInv, ReapedOnce, Unlinked, ZombieStep, AnyTask
  <2> QED BY <2>2, <2>3, <2>4, <2>5, <2>6 DEF IInv
<1>9. CASE task_stop_wake(c)
  <2>1. x \in Task /\ at[x] = "stop_wake" /\ at' = [at EXCEPT ![x] = "stop_yield"]
    BY <1>9 DEF task_stop_wake, TaskRuns, Running
  <2>2. /\ at' \in [AnyTask -> TaskAt \cup IdleAt]
        /\ \A y \in AnyTask : at'[y] = at[y] \/ (y \in Task /\ at[y] = "stop_wake" /\ at'[y] = "stop_yield")
    BY <1>3, <2>1 DEF TaskAt
  <2>3. CASE UNCHANGED <<state, rq, wake_pending>>
    <3>1. CpuRunsRunnable'
      BY <1>2, <1>3, <1>9, <2>1, <2>3 DEF task_stop_wake, IInv, CpuRunsRunnable, CurrentTasks
    <3>2. StopInv' /\ HeapInv'
      BY <1>9, <2>2 DEF task_stop_wake, IInv, StopInv, HeapInv, AnyTask
    <3>3. ReapedOnce'
      BY <1>9, <2>3 DEF task_stop_wake, IInv, ReapedOnce, Unlinked
    <3> QED BY <1>3, <1>9, <2>2, <2>3, <3>1, <3>2, <3>3, QuietStep DEF task_stop_wake
  <2>4. CASE \E p \in all_tasks \ {current[c]} : Wakes(p)
    <3>1. PICK p \in Task : Wakes(p)
      BY <2>4 DEF all_tasks
    <3> QED BY <1>3, <1>9, <2>2, <3>1, WakeStep DEF task_stop_wake
  <2> QED BY <1>9, <2>3, <2>4 DEF task_stop_wake
<1>10. CASE task_stop_yield(c)
  <2>1. at' \in [AnyTask -> TaskAt \cup IdleAt]
    BY <1>3, <1>10 DEF task_stop_yield, TaskAt
  <2>2. \A y \in AnyTask : at'[y] = at[y] \/ (y = x /\ at'[y] \in {"run", "reap"})
    BY <1>3, <1>10 DEF task_stop_yield
  <2> QED BY <1>10, <2>1, <2>2, YieldStep DEF task_stop_yield, TaskRuns
<1>11. ASSUME NEW t \in Task, task_wake(c, t) \/ irq_wake(t)
       PROVE  IInv' /\ ZombieStep
  <2>1. Wakes(t) /\ UNCHANGED <<current, slice_left, at, dead, heap_lock>>
    BY <1>11 DEF task_wake, irq_wake
  <2> QED BY <1>3, <2>1, WakeStep
<1>12. ASSUME NEW t \in Task, task_start(c, t)
       PROVE  IInv' /\ ZombieStep
  <2>1. /\ state[t] = "FREE" /\ rq_push(<<t>>)
        /\ wake_pending' = [wake_pending EXCEPT ![t] = FALSE]
        /\ at' = [at EXCEPT ![t] = "run"]
        /\ UNCHANGED <<current, slice_left, dead, heap_lock>>
    BY <1>12 DEF task_start
  <2>2. /\ at' \in [AnyTask -> TaskAt \cup IdleAt]
        /\ \A y \in AnyTask : at'[y] = at[y] \/ (y \in Task /\ state[y] = "FREE" /\ at'[y] = "run")
    BY <1>3, <2>1 DEF TaskAt
  <2>3. \A u \in Task : InQ(<<t>>, u) =>
           state[u] \notin {"READY", "RUNNING", "ZOMBIE"} /\ \A d \in Cpu : current[d] # u
    BY <1>2, <2>1, ShortQueues DEF OffCpuTasks
  <2>4. wake_pending' \in [Task -> BOOLEAN]
    BY <1>3, <2>1
  <2> QED BY <1>3, <2>1, <2>2, <2>3, <2>4, ShortQueues, PushStep
<1>13. ASSUME NEW t \in Task, task_continue(c, t)
       PROVE  IInv' /\ ZombieStep
  <2>1. /\ x \in Task /\ at[x] = "run" /\ state[t] = "STOPPED" /\ rq_push(<<t>>)
        /\ UNCHANGED <<current, wake_pending, slice_left, at, dead, heap_lock>>
    BY <1>13 DEF task_continue, TaskRuns, Running
  <2>2. ASSUME NEW d \in Cpu PROVE current[d] # t
    <3>1. SUFFICES ASSUME current[d] = t PROVE FALSE
      OBVIOUS
    <3>2. at[t] \in {"stop_wake", "stop_yield"}
      BY <2>1, <3>1 DEF IInv, CpuRunsRunnable
    <3>3. Stoppable # {}
      BY <3>2 DEF IInv, StopInv
    <3>4. d = c
      BY <3>3 DEF JobControlSafe
    <3> QED BY <2>1, <3>1, <3>2, <3>4
  <2>3. \A u \in Task : InQ(<<t>>, u) =>
           state[u] \notin {"READY", "RUNNING", "ZOMBIE"} /\ \A d \in Cpu : current[d] # u
    BY <2>1, <2>2, ShortQueues
  <2> QED BY <1>3, <2>1, <2>3, ShortQueues, PushStep
<1>14. CASE group_exit(c)
  <2>1. PICK G \in Picks(c) : /\ \E w \in Walks(G \cap Waiting) : rq_push(w)
                              /\ wake_pending' = [t \in Task |-> wake_pending[t] \/ t \in G \ Waiting]
    BY <1>14 DEF group_exit
  <2>2. wake_pending' \in [Task -> BOOLEAN]
    BY <1>3, <2>1
  <2>3. G \cap Waiting \in SUBSET Waiting
    OBVIOUS
  <2> QED BY <1>3, <1>14, <2>1, <2>2, <2>3, WalkStep DEF group_exit
<1>15. CASE kill_all(c)
  <2>1. wake_pending' \in [Task -> BOOLEAN]
    BY <1>3, <1>15 DEF kill_all
  <2> QED BY <1>3, <1>15, <2>1, MarkStep DEF kill_all
<1>16. CASE task_reap_zombies(c)
  <2>1. PICK D \in SUBSET Unbusy : dead' = [dead EXCEPT ![x] = D]
    BY <1>16 DEF task_reap_zombies
  <2>2. /\ at' = [at EXCEPT ![x] = "free"] /\ state[x] = "RUNNING"
        /\ UNCHANGED <<state, rq, current, wake_pending, slice_left, heap_lock>>
    BY <1>2, <1>16 DEF task_reap_zombies, TaskRuns, IdleRuns, Running, IInv, CpuRunsRunnable
  <2>3. \A t \in D : /\ t \in Task /\ state[t] = "ZOMBIE" /\ t \notin Unlinked
                     /\ \A d \in Cpu : current[d] # t
    BY <2>1 DEF Unbusy, all_tasks
  <2>4. /\ dead' \in [AnyTask -> SUBSET Task] /\ dead'[x] = D
        /\ \A y \in AnyTask : y # x => dead'[y] = dead[y]
    BY <1>3, <1>4, <2>1, <2>3
  <2>5. ReapedOnce'
    <3>1. \A y, z \in AnyTask : y # z => dead'[y] \cap dead'[z] = {}
      BY <2>3, <2>4 DEF IInv, ReapedOnce, Unlinked
    <3>2. \A t \in Unlinked' : t \in Unlinked \/ t \in D
      BY <2>4 DEF Unlinked
    <3> QED BY <2>2, <2>3, <3>1, <3>2 DEF IInv, ReapedOnce
  <2>6. at' \in [AnyTask -> TaskAt \cup IdleAt]
    BY <1>3, <2>2 DEF TaskAt
  <2>7. CpuRunsRunnable'
    BY <1>2, <1>3, <2>2 DEF IInv, CpuRunsRunnable, CurrentTasks
  <2>8. x \in Cpu => at[x] = "reap"
    BY <1>16 DEF task_reap_zombies, TaskRuns, IdleRuns, Running
  <2>9. StopInv' /\ HeapInv'
    BY <1>3, <2>2, <2>4, <2>8 DEF IInv, StopInv, HeapInv, AnyTask
  <2> QED BY <1>3, <2>2, <2>4, <2>5, <2>6, <2>7, <2>9, QuietStep
<1>17. CASE heap_acquire(c)
  <2>1. /\ heap_lock' = x /\ (x \in Task \/ at[x] = "free")
        /\ UNCHANGED <<state, rq, current, wake_pending, slice_left, at, dead>>
    BY <1>17 DEF heap_acquire, TaskRuns, Running
  <2>2. HeapInv'
    BY <1>4, <1>17, <2>1 DEF heap_acquire, TaskRuns, Running, HeapInv
  <2>3. CpuRunsRunnable' /\ StopInv' /\ ReapedOnce'
    BY <2>1 DEF IInv, CpuRunsRunnable, StopInv, ReapedOnce, Unlinked
  <2> QED BY <1>3, <1>4, <1>17, <2>1, <2>2, <2>3, QuietStep DEF heap_acquire
<1>18. CASE heap_release(c)
  <2>1. heap_lock' = Nobody /\ UNCHANGED <<rq, current, wake_pending, slice_left, at>>
    BY <1>18 DEF heap_release
  <2>2. StopInv' /\ HeapInv'
    BY <2>1, NobodyAssumption DEF IInv, StopInv, HeapInv, AnyTask
  <2>3. CASE UNCHANGED <<state, dead>>
    <3>1. CpuRunsRunnable' /\ ReapedOnce'
      BY <2>1, <2>3 DEF IInv, CpuRunsRunnable, ReapedOnce, Unlinked
    <3> QED BY <1>3, <2>1, <2>2, <2>3, <3>1, QuietStep
  <2>4. ASSUME NEW t \in dead[x],
               state' = [state EXCEPT ![t] = "FREE"], dead' = [dead EXCEPT ![x] = @ \ {t}]
        PROVE  IInv' /\ ZombieStep
    <3>1. t \in Task /\ t \in Unlinked
      BY <1>3, <1>4 DEF Unlinked
    <3>2. state[t] = "ZOMBIE" /\ \A d \in Cpu : current[d] # t
      BY <3>1 DEF IInv, ReapedOnce
    <3>3. TypeOK'
      BY <2>1, <2>4 DEF IInv, TypeOK, State
    <3>4. QueueInv'
      BY <1>3, <2>1, <2>4, <3>1, <3>2 DEF IInv, QueueInv, RunQueueIntact, OneCpuPerTask, IdleInv, AnyTask
    <3>5. CpuRunsRunnable'
      BY <1>2, <1>3, <2>1, <2>4, <3>2 DEF IInv, CpuRunsRunnable, CurrentTasks
    <3>6. ReapedOnce'
      <4>1. /\ dead'[x] = dead[x] \ {t} /\ \A y \in AnyTask : y # x => dead'[y] = dead[y]
        BY <1>3, <1>4, <2>4
      <4>2. \A y, z \in AnyTask : y # z => dead[y] \cap dead[z] = {}
        BY DEF IInv, ReapedOnce
      <4>3. \A y, z \in AnyTask : y # z => dead'[y] \cap dead'[z] = {}
        BY <4>1, <4>2
      <4>4. \A u \in Unlinked' : u \in Unlinked /\ u # t
        BY <1>4, <4>1, <4>2 DEF Unlinked
      <4>5. \A u \in Unlinked' : state'[u] = "ZOMBIE"
        BY <1>3, <2>4, <4>4 DEF IInv, ReapedOnce
      <4> QED BY <2>1, <4>3, <4>4, <4>5 DEF IInv, ReapedOnce
    <3>7. ZombieStep
      BY <1>3, <2>4 DEF ZombieStep, AnyTask
    <3> QED BY <2>2, <3>3, <3>4, <3>5, <3>6, <3>7 DEF IInv
  <2> QED BY <1>18, <2>3, <2>4 DEF heap_release
<1>19. CASE reap_done(c)
  <2>1. /\ at[x] \in {"free", "check", "wait"} /\ at' \in [AnyTask -> TaskAt \cup IdleAt]
        /\ \A y \in AnyTask : y # x => at'[y] = at[y]
        /\ at'[x] \notin {"stop_wake", "stop_yield"}
    BY <1>3, <1>4, <1>19 DEF reap_done, Running, TaskAt, IdleAt
  <2>2. HeapInv'
    BY <1>2, <1>3, <1>19, <2>1 DEF reap_done, IdleRuns, Running, IInv, HeapInv, AnyTask
  <2>3. CpuRunsRunnable' /\ StopInv' /\ ReapedOnce'
    BY <1>2, <1>4, <1>19, <2>1 DEF reap_done, IInv, CpuRunsRunnable, CurrentTasks, StopInv, ReapedOnce, Unlinked, AnyTask
  <2> QED BY <1>3, <1>19, <2>1, <2>2, <2>3, QuietStep DEF reap_done
<1>20. CASE idle_check(c)
  <2>1. /\ at[x] \in {"free", "check", "wait"} /\ at' \in [AnyTask -> TaskAt \cup IdleAt]
        /\ \A y \in AnyTask : y # x => at'[y] = at[y]
        /\ at'[x] \notin {"stop_wake", "stop_yield"}
    BY <1>3, <1>4, <1>20 DEF idle_check, IdleRuns, Running, IdleAt
  <2>2. HeapInv'
    BY <1>2, <1>3, <1>20, <2>1 DEF idle_check, IdleRuns, Running, IInv, HeapInv, AnyTask
  <2>3. CpuRunsRunnable' /\ StopInv' /\ ReapedOnce'
    BY <1>2, <1>4, <1>20, <2>1 DEF idle_check, IInv, CpuRunsRunnable, CurrentTasks, StopInv, ReapedOnce, Unlinked, AnyTask
  <2> QED BY <1>3, <1>20, <2>1, <2>2, <2>3, QuietStep DEF idle_check
<1>21. CASE idle_yield(c)
  <2>1. at' \in [AnyTask -> TaskAt \cup IdleAt]
    BY <1>3, <1>21 DEF idle_yield, IdleAt
  <2>2. \A y \in AnyTask : at'[y] = at[y] \/ (y = x /\ at'[y] \in {"run", "reap"})
    BY <1>3, <1>21 DEF idle_yield, IdleRuns
  <2>3. heap_lock # c
    BY <1>21 DEF IInv, HeapInv, idle_yield, IdleRuns, Running
  <2> QED BY <1>21, <2>1, <2>2, <2>3, YieldStep DEF idle_yield
<1>22. CASE idle_resume(c)
  <2>1. /\ at[x] \in {"free", "check", "wait"} /\ at' \in [AnyTask -> TaskAt \cup IdleAt]
        /\ \A y \in AnyTask : y # x => at'[y] = at[y]
        /\ at'[x] \notin {"stop_wake", "stop_yield"}
    BY <1>3, <1>4, <1>22 DEF idle_resume, IdleRuns, Running, IdleAt
  <2>2. HeapInv'
    BY <1>2, <1>3, <1>22, <2>1 DEF idle_resume, IdleRuns, Running, IInv, HeapInv, AnyTask
  <2>3. CpuRunsRunnable' /\ StopInv' /\ ReapedOnce'
    BY <1>2, <1>4, <1>22, <2>1 DEF idle_resume, IInv, CpuRunsRunnable, CurrentTasks, StopInv, ReapedOnce, Unlinked, AnyTask
  <2> QED BY <1>3, <1>22, <2>1, <2>2, <2>3, QuietStep DEF idle_resume
<1>23. CASE sched_preempt(c)
  <2>1. x = c => heap_lock # c
    BY <1>23 DEF IInv, HeapInv, sched_preempt
  <2> QED BY <1>3, <1>23, <2>1, YieldStep DEF sched_preempt
<1>24. CASE sched_tick(c)
  <2>1. PICK due \in SUBSET {t \in all_tasks : state[t] = "SLEEPING"},
             ring \in SUBSET {t \in all_tasks : state[t] # "ZOMBIE"} :
             /\ \E w \in Walks(due \cup (ring \cap Waiting)) : rq_push(w)
             /\ wake_pending' = [t \in Task |-> wake_pending[t] \/ t \in ring \ (Waiting \ due)]
    BY <1>24 DEF sched_tick, wake_sleepers
  <2>2. due \cup (ring \cap Waiting) \in SUBSET Waiting
    BY DEF Waiting, all_tasks
  <2>3. wake_pending' \in [Task -> BOOLEAN]
    BY <1>3, <2>1
  <2>4. slice_left' \in [Cpu -> 0..TimeSlice]
    BY <1>3, <1>24, TimeSliceAssumption DEF sched_tick
  <2> QED BY <1>3, <1>24, <2>1, <2>2, <2>3, <2>4, WalkStep DEF sched_tick
<1> QED
  BY <1>1, <1>5, <1>6, <1>7, <1>8, <1>9, <1>10, <1>11, <1>12, <1>13, <1>14, <1>15, <1>16,
     <1>17, <1>18, <1>19, <1>20, <1>21, <1>22, <1>23, <1>24 DEF TaskStep, Interrupt

LEMMA InitInv ==
  ASSUME Init PROVE IInv
<1> USE CpuAssumption, TimeSliceAssumption, NobodyAssumption
<1>1. PICK boot \in Task, bsp \in Cpu :
        /\ state = [x \in AnyTask |-> IF x = boot \/ x \in Cpu \ {bsp} THEN "RUNNING"
                                      ELSE IF x = bsp THEN "READY" ELSE "FREE"]
        /\ current = [c \in Cpu |-> IF c = bsp THEN boot ELSE c]
        /\ slice_left = [c \in Cpu |-> IF c = bsp THEN TimeSlice ELSE 0]
  BY DEF Init
<1>2. /\ rq = <<>> /\ wake_pending = [t \in Task |-> FALSE]
      /\ at = [x \in AnyTask |-> IF x \in Cpu THEN "reap" ELSE "run"]
      /\ dead = [x \in AnyTask |-> {}] /\ heap_lock = Nobody
  BY DEF Init
<1>3. TypeOK
  BY <1>1, <1>2 DEF TypeOK, State, TaskAt, IdleAt, AnyTask
<1>4. RunQueueIntact
  BY <1>1, <1>2 DEF RunQueueIntact, AnyTask
<1>5. OneCpuPerTask /\ IdleInv
  BY <1>1 DEF OneCpuPerTask, IdleInv, AnyTask
<1>6. CpuRunsRunnable
  BY <1>1 DEF CpuRunsRunnable, AnyTask
<1>7. StopInv /\ HeapInv /\ ReapedOnce
  BY <1>2 DEF StopInv, HeapInv, ReapedOnce, Unlinked, AnyTask
<1> QED BY <1>3, <1>4, <1>5, <1>6, <1>7 DEF IInv, QueueInv

LEMMA Stutter ==
  ASSUME IInv, UNCHANGED vars PROVE IInv' /\ ZombieStep
<1>1. wake_pending' \in [Task -> BOOLEAN]
  BY DEF IInv, TypeOK, vars
<1> QED BY <1>1, MarkStep DEF vars

(* The inductive invariant holds in every reachable state. *)
THEOREM Invariance == JobControlSafe => (Spec => []IInv)
<1> SUFFICES ASSUME JobControlSafe PROVE Spec => []IInv
  OBVIOUS
<1>1. Init => IInv
  BY InitInv
<1>2. IInv /\ [Next]_vars => IInv'
  BY NextStep, Stutter
<1> QED BY <1>1, <1>2, PTL DEF Spec

(* On any number of CPUs, with any number of tasks, the variables of the   *)
(* scheduler keep their types.                                             *)
THEOREM TypeCorrect == JobControlSafe => (Spec => []TypeOK)
<1>1. IInv => TypeOK
  BY DEF IInv
<1> QED BY <1>1, Invariance, PTL

(* The run queue of sched.c is never corrupted by a second rq_push() of a  *)
(* queued task, and never loses a READY task.                              *)
THEOREM QueueIntact == JobControlSafe => (Spec => []RunQueueIntact)
<1>1. IInv => RunQueueIntact
  BY DEF IInv, QueueInv
<1> QED BY <1>1, Invariance, PTL

(* schedule() never runs a task on two CPUs, and a CPU never runs a task   *)
(* that waits or has exited.                                               *)
THEOREM OneCpu == JobControlSafe => (Spec => [](OneCpuPerTask /\ CpuRunsRunnable))
<1>1. IInv => OneCpuPerTask /\ CpuRunsRunnable
  BY DEF IInv, QueueInv
<1> QED BY <1>1, Invariance, PTL

(* idle_waiting[] does what its comment says: the idle task is never       *)
(* switched out while it holds the heap's lock.                            *)
THEOREM IdleNotParked == JobControlSafe => (Spec => []IdleNeverParkedWithLock)
<1>1. IInv => IdleNeverParkedWithLock
  BY DEF IInv, HeapInv, IdleNeverParkedWithLock
<1> QED BY <1>1, Invariance, PTL

(* Concurrent calls of task_reap_zombies() free every task at most once,   *)
(* and none that is still on a CPU.                                        *)
THEOREM FreedOnce == JobControlSafe => (Spec => []ReapedOnce)
<1>1. IInv => ReapedOnce
  BY DEF IInv
<1> QED BY <1>1, Invariance, PTL

(* No late wake, alarm, kill(-1) or SIGCONT brings a zombie back. *)
THEOREM DeadStayDead == JobControlSafe => (Spec => ZombieStaysDead)
<1> SUFFICES ASSUME JobControlSafe PROVE Spec => ZombieStaysDead
  OBVIOUS
<1>1. IInv /\ [Next]_vars =>
        [\A t \in Task : state[t] = "ZOMBIE" => state'[t] \in {"ZOMBIE", "FREE"}]_vars
  BY NextStep DEF ZombieStep
<1>2. Spec => []IInv
  BY Invariance
<1> QED BY <1>1, <1>2, PTL DEF Spec, ZombieStaysDead
=============================================================================
