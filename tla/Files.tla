-------------------------------- MODULE Files -------------------------------
(***************************************************************************)
(* Open files: descriptor tables (kernel/fs/fdtable.c and the descriptor   *)
(* calls of kernel/proc/syscall.c), reference-counted open files and the   *)
(* vnode behind one path, which may be unlinked and created anew while     *)
(* open (kernel/fs/vfs.c), with flock(2) and fcntl record locks.           *)
(* Processes are single-threaded, so a table belongs to one task; files    *)
(* are shared between tasks by fork.                                       *)
(***************************************************************************)
EXTENDS Naturals, FiniteSets, FiniteSetsExt

CONSTANTS Task,           \* processes; the first to run is one of them
          File, Vnode,    \* bounds: memory for open files and vnodes
          MAX_FDS,
          None

Fd == 0..(MAX_FDS - 1)

VARIABLES
  life,                   \* of a process: "unborn", "alive", "exiting" or "dead"
  pc, hand,               \* the step of a call, and the file or vnode it holds
  files,                  \* the descriptor tables
  refs, node, flock_mode, \* struct file; node is None for free memory
  path,                   \* the vnode the path names
  open_count, unlinked,   \* struct vnode
  freed,                  \* vnodes that are free memory
  flock_ex, flock_sh, lock_owner

proc == <<life, pc, hand>>
vnodes == <<path, open_count, unlinked, freed>>
locks == <<flock_mode, flock_ex, flock_sh, lock_owner>>
vars == <<proc, files, refs, node, vnodes, locks>>

At(t, place) == pc[t] = place /\ life[t] \in {"alive", "exiting"}
Calls(t) == At(t, "user") /\ life[t] = "alive"
Step(t, place, h) == pc' = [pc EXCEPT ![t] = place] /\ hand' = [hand EXCEPT ![t] = h]
FreeFd(t) == {i \in Fd : files[t][i] = None}

-----------------------------------------------------------------------------
(* open *)

(* sys_openat's own lookup, for its checks; vfs_open looks again.  With    *)
(* O_CREAT | O_EXCL an existing file ends the call here.                   *)
sys_openat(t) == \E flags \in SUBSET {"CREAT", "EXCL"} :
  /\ Calls(t)
  /\ IF path = None THEN "CREAT" \in flags ELSE ~({"CREAT", "EXCL"} \subseteq flags)
  /\ Step(t, IF "CREAT" \in flags THEN "create" ELSE "open", None)
  /\ UNCHANGED <<life, files, refs, node, vnodes, locks>>

(* vfs_open under vfs_lock: find or create the vnode and count the open. *)
vfs_open(t) ==
  /\ At(t, "open") \/ At(t, "create")
  /\ \/ /\ path # None
        /\ open_count' = [open_count EXCEPT ![path] = @ + 1]
        /\ Step(t, "alloc", path)
        /\ UNCHANGED <<path, unlinked, freed>>
     \/ /\ path = None /\ pc[t] = "create"
        /\ \E n \in freed :
             /\ path' = n /\ freed' = freed \ {n}
             /\ unlinked' = [unlinked EXCEPT ![n] = FALSE]
             /\ open_count' = [open_count EXCEPT ![n] = 1]
             /\ Step(t, "alloc", n)
     \/ /\ path = None /\ (pc[t] = "open" \/ freed = {})
        /\ Step(t, "user", None)
        /\ UNCHANGED vnodes
  /\ UNCHANGED <<life, files, refs, node, locks>>

(* The open_count of n goes down by one; the last user of an unlinked      *)
(* vnode frees it.                                                         *)
put_node(n) ==
  /\ open_count' = [open_count EXCEPT ![n] = @ - 1]
  /\ freed' = IF open_count[n] = 1 /\ unlinked[n] THEN freed \cup {n} ELSE freed
  /\ UNCHANGED <<path, unlinked>>

(* A struct file and the first free descriptor; the file is closed again   *)
(* when there is none, and without memory the vnode is put back.           *)
open_alloc(t) ==
  /\ At(t, "alloc")
  /\ \/ \E f \in File :
          /\ node[f] = None
          /\ node' = [node EXCEPT ![f] = hand[t]] /\ refs' = [refs EXCEPT ![f] = 1]
          /\ IF FreeFd(t) = {} THEN Step(t, "put", f) /\ UNCHANGED files
             ELSE files' = [files EXCEPT ![t][Min(FreeFd(t))] = f] /\ Step(t, "user", None)
          /\ UNCHANGED vnodes
     \/ /\ \A f \in File : node[f] # None
        /\ put_node(hand[t])
        /\ Step(t, "user", None)
        /\ UNCHANGED <<files, node, refs>>
  /\ UNCHANGED <<life, locks>>

-----------------------------------------------------------------------------
(* Descriptors *)

sys_close(t, i) ==
  /\ Calls(t) /\ files[t][i] # None
  /\ files' = [files EXCEPT ![t][i] = None]
  /\ Step(t, "put", files[t][i])
  /\ UNCHANGED <<life, refs, node, vnodes, locks>>

(* dup, and F_DUPFD: file_dup comes first and is undone on EMFILE. *)
sys_dup(t, i) ==
  LET f == files[t][i] IN
  /\ Calls(t) /\ f # None
  /\ refs' = [refs EXCEPT ![f] = @ + 1]
  /\ IF FreeFd(t) = {} THEN Step(t, "put", f) /\ UNCHANGED files
     ELSE files' = [files EXCEPT ![t][Min(FreeFd(t))] = f] /\ UNCHANGED <<pc, hand>>
  /\ UNCHANGED <<life, node, vnodes, locks>>

\* Mutant: the second descriptor takes no reference.
dup3_no_reference(t, i, j) ==
  LET f == files[t][i] IN
  /\ Calls(t) /\ f # None /\ i # j
  /\ files' = [files EXCEPT ![t][j] = f]
  /\ IF files[t][j] = None THEN UNCHANGED <<pc, hand>> ELSE Step(t, "put", files[t][j])
  /\ UNCHANGED <<life, refs, node, vnodes, locks>>

sys_dup3(t, i, j) ==
  LET f == files[t][i] IN
  /\ Calls(t) /\ f # None /\ i # j
  /\ refs' = [refs EXCEPT ![f] = @ + 1]
  /\ files' = [files EXCEPT ![t][j] = f]
  /\ IF files[t][j] = None THEN UNCHANGED <<pc, hand>> ELSE Step(t, "put", files[t][j])
  /\ UNCHANGED <<life, node, vnodes, locks>>

Slots(t, f) == {i \in Fd : files[t][i] = f}

(* fork: fdt_clone takes a reference for every descriptor. *)
fdt_clone(t, u) ==
  /\ Calls(t) /\ life[u] = "unborn"
  /\ life' = [life EXCEPT ![u] = "alive"]
  /\ files' = [files EXCEPT ![u] = files[t]]
  /\ refs' = [f \in File |-> refs[f] + Cardinality(Slots(t, f))]
  /\ UNCHANGED <<pc, hand, node, vnodes, locks>>

(* exit: fdt_put closes the descriptors one by one. *)
task_exit(t) ==
  /\ Calls(t)
  /\ life' = [life EXCEPT ![t] = "exiting"]
  /\ UNCHANGED <<pc, hand, files, refs, node, vnodes, locks>>

fdt_put(t) ==
  /\ At(t, "user") /\ life[t] = "exiting"
  /\ IF FreeFd(t) = Fd
     THEN life' = [life EXCEPT ![t] = "dead"] /\ UNCHANGED <<pc, hand, files>>
     ELSE LET i == Min(Fd \ FreeFd(t)) IN
          /\ files' = [files EXCEPT ![t][i] = None]
          /\ Step(t, "put", files[t][i])
          /\ UNCHANGED life
  /\ UNCHANGED <<refs, node, vnodes, locks>>

-----------------------------------------------------------------------------
(* file_close *)

file_close(t) ==
  LET f == hand[t] IN
  /\ At(t, "put")
  /\ refs' = [refs EXCEPT ![f] = @ - 1]
  /\ IF refs[f] = 1 THEN Step(t, "unlock", f) ELSE Step(t, "user", None)
  /\ UNCHANGED <<life, files, node, vnodes, locks>>

\* Mutant: only the flock lock dies with its file.
close_unlock_flock_only(t) ==
  LET f == hand[t] IN
  /\ At(t, "unlock")
  /\ Step(t, IF flock_mode[f] = 0 THEN "release" ELSE "unflock", f)
  /\ UNCHANGED <<life, files, refs, node, vnodes, locks>>

(* The last reference: "a record lock dies with its file". *)
close_unlock(t) ==
  LET f == hand[t] IN
  /\ At(t, "unlock")
  /\ lock_owner' = [n \in Vnode |-> IF n = node[f] /\ lock_owner[n] = f THEN None ELSE lock_owner[n]]
  /\ Step(t, IF flock_mode[f] = 0 THEN "release" ELSE "unflock", f)
  /\ UNCHANGED <<life, files, refs, node, vnodes, flock_mode, flock_ex, flock_sh>>

flock_drop(f) ==
  LET n == node[f] IN
  /\ flock_ex' = [flock_ex EXCEPT ![n] = IF flock_mode[f] = 2 /\ @ = f THEN None ELSE @]
  /\ flock_sh' = [flock_sh EXCEPT ![n] = IF flock_mode[f] = 1 /\ @ > 0 THEN @ - 1 ELSE @]
  /\ flock_mode' = [flock_mode EXCEPT ![f] = 0]
  /\ UNCHANGED lock_owner

close_unflock(t) ==
  /\ At(t, "unflock")
  /\ flock_drop(hand[t])
  /\ Step(t, "release", hand[t])
  /\ UNCHANGED <<life, files, refs, node, vnodes>>

(* Under vfs_lock, then kfree(f). *)
close_release(t) ==
  LET f == hand[t] IN
  /\ At(t, "release")
  /\ put_node(node[f])
  /\ node' = [node EXCEPT ![f] = None]
  /\ Step(t, "user", None)
  /\ UNCHANGED <<life, files, refs, locks>>

-----------------------------------------------------------------------------
(* The name, and the locks *)

\* Mutant: an open vnode is freed with its name.
unlink_frees(t) ==
  /\ Calls(t) /\ path # None
  /\ path' = None /\ freed' = freed \cup {path}
  /\ unlinked' = [unlinked EXCEPT ![path] = TRUE]
  /\ UNCHANGED <<proc, files, refs, node, open_count, locks>>

vfs_unlink(t) ==
  /\ Calls(t) /\ path # None
  /\ path' = None
  /\ unlinked' = [unlinked EXCEPT ![path] = TRUE]
  /\ freed' = IF open_count[path] = 0 THEN freed \cup {path} ELSE freed
  /\ UNCHANGED <<proc, files, refs, node, open_count, locks>>

\* Mutant: LOCK_NB (4) is left in the mode.
flock_take_nb(f, op) ==
  LET n == node[f] IN
  /\ flock_ex' = [flock_ex EXCEPT ![n] = IF op = 2 THEN f ELSE @]
  /\ flock_sh' = [flock_sh EXCEPT ![n] = IF op = 1 THEN @ + 1 ELSE @]
  /\ flock_mode' = [flock_mode EXCEPT ![f] = op + 4]

\* Mutant: a conversion forgets the shared lock it had.
flock_take_keeps(f, op) ==
  LET n == node[f] IN
  /\ flock_ex' = [flock_ex EXCEPT ![n] = IF op = 2 THEN f ELSE IF @ = f THEN None ELSE @]
  /\ flock_sh' = [flock_sh EXCEPT ![n] = IF op = 1 THEN @ + 1 ELSE @]
  /\ flock_mode' = [flock_mode EXCEPT ![f] = op]

(* Drop what it held, take the new one. *)
flock_take(f, op) ==
  LET n == node[f] IN
  /\ flock_ex' = [flock_ex EXCEPT ![n] = IF op = 2 THEN f ELSE IF flock_mode[f] = 2 THEN None ELSE @]
  /\ flock_sh' = [flock_sh EXCEPT ![n] = (IF flock_mode[f] = 1 THEN @ - 1 ELSE @) + (IF op = 1 THEN 1 ELSE 0)]
  /\ flock_mode' = [flock_mode EXCEPT ![f] = op]

(* A round of sys_flock's loop that succeeds, under flock_lock.  In the    *)
(* others nothing changes: the call fails, or sleeps and tries again.      *)
sys_flock(t, i, op) ==
  LET f == files[t][i]  n == node[f] IN
  /\ Calls(t) /\ f # None
  /\ flock_ex[n] \in {None, f}
  /\ op = 2 => flock_sh[n] = (IF flock_mode[f] = 1 THEN 1 ELSE 0)
  /\ flock_take(f, op)
  /\ UNCHANGED <<proc, files, refs, node, vnodes, lock_owner>>

flock_un(t, i) ==
  /\ Calls(t) /\ files[t][i] # None /\ flock_mode[files[t][i]] # 0
  /\ flock_drop(files[t][i])
  /\ UNCHANGED <<proc, files, refs, node, vnodes>>

(* F_SETLK and F_SETLKW: the owner is looked at, and then set, under no    *)
(* lock.                                                                   *)
setlk_check(t, i) ==
  LET f == files[t][i] IN
  /\ Calls(t) /\ f # None /\ lock_owner[node[f]] \in {None, f}
  /\ Step(t, "setlk", f)
  /\ UNCHANGED <<life, files, refs, node, vnodes, locks>>

setlk(t) ==
  /\ At(t, "setlk")
  /\ lock_owner' = [lock_owner EXCEPT ![node[hand[t]]] = hand[t]]
  /\ Step(t, "user", None)
  /\ UNCHANGED <<life, files, refs, node, vnodes, flock_mode, flock_ex, flock_sh>>

unlck(t, i) ==
  LET f == files[t][i] IN
  /\ Calls(t) /\ f # None /\ lock_owner[node[f]] = f
  /\ lock_owner' = [lock_owner EXCEPT ![node[f]] = None]
  /\ UNCHANGED <<proc, files, refs, node, vnodes, flock_mode, flock_ex, flock_sh>>

-----------------------------------------------------------------------------
Init ==
  /\ \E t \in Task : life = [u \in Task |-> IF u = t THEN "alive" ELSE "unborn"]
  /\ pc = [t \in Task |-> "user"] /\ hand = [t \in Task |-> None]
  /\ files = [t \in Task |-> [i \in Fd |-> None]]
  /\ refs = [f \in File |-> 0] /\ node = [f \in File |-> None] /\ flock_mode = [f \in File |-> 0]
  /\ path = None /\ freed = Vnode
  /\ open_count = [n \in Vnode |-> 0] /\ unlinked = [n \in Vnode |-> FALSE]
  /\ flock_ex = [n \in Vnode |-> None] /\ flock_sh = [n \in Vnode |-> 0]
  /\ lock_owner = [n \in Vnode |-> None]

Next == \E t \in Task :
  \/ sys_openat(t) \/ vfs_open(t) \/ open_alloc(t)
  \/ file_close(t) \/ close_unlock(t) \/ close_unflock(t) \/ close_release(t)
  \/ task_exit(t) \/ fdt_put(t) \/ vfs_unlink(t) \/ setlk(t)
  \/ \E u \in Task : fdt_clone(t, u)
  \/ \E i \in Fd : \/ sys_close(t, i) \/ sys_dup(t, i) \/ flock_un(t, i)
                   \/ setlk_check(t, i) \/ unlck(t, i)
                   \/ \E j \in Fd : sys_dup3(t, i, j)
                   \/ \E op \in {1, 2} : sys_flock(t, i, op)

Spec == Init /\ [][Next]_vars

-----------------------------------------------------------------------------
(* Tables, files and vnodes keep their types: a count never goes below 0,  *)
(* and flock_mode is LOCK_SH, LOCK_EX or 0.                                *)
TypeOK ==
  /\ files \in [Task -> [Fd -> File \cup {None}]]
  /\ refs \in [File -> Nat] /\ node \in [File -> Vnode \cup {None}]
  /\ path \in Vnode \cup {None} /\ freed \subseteq Vnode /\ open_count \in [Vnode -> Nat]
  /\ flock_mode \in [File -> 0..2] /\ flock_sh \in [Vnode -> Nat]
  /\ flock_ex \in [Vnode -> File \cup {None}] /\ lock_owner \in [Vnode -> File \cup {None}]

(* A reference count is the number of descriptors that name the file, plus *)
(* the closes under way: dup, dup2 over an open descriptor, fork, exit and *)
(* the EMFILE paths neither leak an open file nor free one in use.         *)
RefsExact ==
  \A f \in File :
    refs[f] = Cardinality({<<t, i>> \in Task \X Fd : files[t][i] = f})
              + Cardinality({t \in Task : pc[t] = "put" /\ hand[t] = f})

(* The vnode of an open file is not freed under it, however unlink, open   *)
(* and the last close interleave, and an unlinked vnode outlives only its  *)
(* open files.                                                             *)
NodeCounted ==
  \A n \in Vnode :
    /\ open_count[n] = Cardinality({f \in File : node[f] = n})
                       + Cardinality({t \in Task : pc[t] = "alloc" /\ hand[t] = n})
    /\ n \in freed => open_count[n] = 0
    /\ (n \notin freed /\ unlinked[n]) => open_count[n] > 0

(* flock: one exclusive holder or a number of shared ones, the count exact *)
(* through conversions, dup, fork and the last close.                      *)
FlockExclusive ==
  \A n \in Vnode :
    /\ flock_sh[n] = Cardinality({f \in File : node[f] = n /\ flock_mode[f] = 1})
    /\ {f \in File : node[f] = n /\ flock_mode[f] = 2} = {flock_ex[n]} \ {None}
    /\ flock_ex[n] # None => flock_sh[n] = 0

(* A lock never outlives its open file, nor passes to a new file in the    *)
(* same memory.                                                            *)
NoDanglingLock ==
  \A n \in Vnode : \A f \in {lock_owner[n], flock_ex[n]} \ {None} :
    node[f] = n /\ n \notin freed
=============================================================================
