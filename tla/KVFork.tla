------------------------------- MODULE KVFork -------------------------------
(***************************************************************************)
(* The life of the key-value store of a thread group: where copy_process   *)
(* and init_task_kv_store (kvm/linux-5.15.178/kernel/fork.c) make the      *)
(* kv_store and kv_locks pointers point, while other tasks clone, exit and *)
(* call write_kv and read_kv (kernel/kv_store.c).                          *)
(*                                                                         *)
(* dup_task_struct copies both pointers.  A thread keeps them; a process   *)
(* gets blocks of its own, unless an allocation fails: the result of       *)
(* init_task_kv_store is ignored and the process starts anyway.  Blocks    *)
(* are the memory kmalloc_array hands out.  The 1024 buckets behave alike, *)
(* so one stands for all of them.                                          *)
(***************************************************************************)
EXTENDS Naturals, FiniteSets

CONSTANTS Tasks,    \* task_structs
          FirstTask,  \* the task there is at the beginning,
          FirstStore, FirstLocks,  \* and its store
          Blocks,   \* memory
          NULL,     \* the null pointer, and no task
          MAXFAULTS \* bound on failing allocations

ASSUME ForkAssumption ==
  /\ FirstTask \in Tasks
  /\ NULL \notin Tasks \cup Blocks
  /\ MAXFAULTS \in Nat
  /\ {FirstStore, FirstLocks} \subseteq Blocks
  /\ FirstStore # FirstLocks

VARIABLES state,    \* state[t]: "free", "new" (being copied), "live" or "dead"
          group,    \* group[t]: the group leader
          kv_store, kv_locks,  \* the pointers in the task_struct
          used,     \* allocated blocks
          owner,    \* owner[b]: the leader for whose group b was allocated (history)
          pc,       \* pc[t]: what live task t is doing
          child,    \* child[t]: the task t is copying itself to
          thread,   \* thread[t]: with CLONE_THREAD
          holder,   \* holder[b]: who holds the spinlock in b
          faults    \* failed allocations, for the bound

kvVars == <<kv_store, kv_locks>>
memVars == <<used, owner, faults>>
vars == <<state, group, kvVars, memVars, pc, child, thread, holder>>

Init ==
  /\ state = [t \in Tasks |-> IF t = FirstTask THEN "live" ELSE "free"]
  /\ group = [t \in Tasks |-> IF t = FirstTask THEN t ELSE NULL]
  /\ kv_store = [t \in Tasks |-> IF t = FirstTask THEN FirstStore ELSE NULL]
  /\ kv_locks = [t \in Tasks |-> IF t = FirstTask THEN FirstLocks ELSE NULL]
  /\ used = {FirstStore, FirstLocks}
  /\ owner = [b \in Blocks |-> IF b \in used THEN FirstTask ELSE NULL]
  /\ pc = [t \in Tasks |-> "user"]
  /\ child = [t \in Tasks |-> NULL]
  /\ thread = [t \in Tasks |-> FALSE]
  /\ holder = [b \in Blocks |-> NULL]
  /\ faults = 0

Goto(t, label) == pc' = [pc EXCEPT ![t] = label]
At(t, label) == state[t] = "live" /\ pc[t] = label

-----------------------------------------------------------------------------
(***************************************************************************)
(* copy_process, called by t.                                              *)
(***************************************************************************)
\* dup_task_struct: the child's task_struct is a copy of t's.
DupTask(t, c, isThread) ==
  /\ At(t, "user")
  /\ state[c] = "free"
  /\ state' = [state EXCEPT ![c] = "new"]
  /\ kv_store' = [kv_store EXCEPT ![c] = kv_store[t]]
  /\ kv_locks' = [kv_locks EXCEPT ![c] = kv_locks[t]]
  /\ child' = [child EXCEPT ![t] = c]
  /\ thread' = [thread EXCEPT ![t] = isThread]
  /\ Goto(t, "copy")
  /\ UNCHANGED <<group, memVars, holder>>

\* A failure before or after the store is set up: the task_struct is freed,
\* and nothing else.
CopyFails(t) ==
  /\ pc[t] \in {"copy", "publish"} /\ state[t] = "live"
  /\ state' = [state EXCEPT ![child[t]] = "free"]
  /\ kv_store' = [kv_store EXCEPT ![child[t]] = NULL]
  /\ kv_locks' = [kv_locks EXCEPT ![child[t]] = NULL]
  /\ child' = [child EXCEPT ![t] = NULL]
  /\ Goto(t, "user")
  /\ UNCHANGED <<group, memVars, thread, holder>>

\* Mutant: a thread, too, is given a store of its own.
ShareNothing(t) ==
  /\ At(t, "copy")
  /\ thread[t]
  /\ Goto(t, "alloc_store")
  /\ UNCHANGED <<state, group, kvVars, memVars, child, thread, holder>>

\* CLONE_THREAD: the thread uses the store of its group.
ShareKv(t) ==
  /\ At(t, "copy")
  /\ thread[t]
  /\ kv_store' = [kv_store EXCEPT ![child[t]] = kv_store[t]]
  /\ kv_locks' = [kv_locks EXCEPT ![child[t]] = kv_locks[t]]
  /\ Goto(t, "publish")
  /\ UNCHANGED <<state, group, memVars, child, thread, holder>>

\* Otherwise init_task_kv_store begins.
InitKv(t) ==
  /\ At(t, "copy")
  /\ ~thread[t]
  /\ Goto(t, "alloc_store")
  /\ UNCHANGED <<state, group, kvVars, memVars, child, thread, holder>>

\* kmalloc_array: some free block.
Allocate(b, t) ==
  /\ b \in Blocks \ used
  /\ used' = used \cup {b}
  /\ owner' = [owner EXCEPT ![b] = child[t]]
  /\ UNCHANGED faults

AllocFails ==
  /\ faults < MAXFAULTS
  /\ faults' = faults + 1

AllocStore(t) ==
  /\ At(t, "alloc_store")
  /\ \E b \in Blocks : Allocate(b, t) /\ kv_store' = [kv_store EXCEPT ![child[t]] = b]
  /\ Goto(t, "alloc_locks")
  /\ UNCHANGED <<state, group, kv_locks, child, thread, holder>>

\* No kv_store: -ENOMEM, which nobody looks at.  kv_locks is still the parent's.
AllocStoreFails(t) ==
  /\ At(t, "alloc_store")
  /\ AllocFails
  /\ kv_store' = [kv_store EXCEPT ![child[t]] = NULL]
  /\ Goto(t, "publish")
  /\ UNCHANGED <<state, group, kv_locks, used, owner, child, thread, holder>>

AllocLocks(t) ==
  /\ At(t, "alloc_locks")
  /\ \E b \in Blocks :
       /\ Allocate(b, t)
       /\ kv_locks' = [kv_locks EXCEPT ![child[t]] = b]
       /\ holder' = [holder EXCEPT ![b] = NULL]
  /\ Goto(t, "publish")
  /\ UNCHANGED <<state, group, kv_store, child, thread>>

\* Mutant: the allocation goes to a local first, so that kv_locks stays as
\* dup_task_struct left it.
AllocLocksFailsKeep(t) ==
  /\ At(t, "alloc_locks")
  /\ AllocFails
  /\ used' = used \ {kv_store[child[t]]}
  /\ Goto(t, "publish")
  /\ UNCHANGED <<state, group, kvVars, owner, child, thread, holder>>

\* No kv_locks: kv_store is freed, and keeps pointing where it did.
AllocLocksFails(t) ==
  /\ At(t, "alloc_locks")
  /\ AllocFails
  /\ kv_locks' = [kv_locks EXCEPT ![child[t]] = NULL]
  /\ used' = used \ {kv_store[child[t]]}
  /\ Goto(t, "publish")
  /\ UNCHANGED <<state, group, kv_store, owner, child, thread, holder>>

\* The child becomes visible and runs.
Publish(t) ==
  /\ At(t, "publish")
  /\ state' = [state EXCEPT ![child[t]] = "live"]
  /\ group' = [group EXCEPT ![child[t]] = IF thread[t] THEN group[t] ELSE child[t]]
  /\ child' = [child EXCEPT ![t] = NULL]
  /\ Goto(t, "user")
  /\ UNCHANGED <<kvVars, memVars, thread, holder>>

-----------------------------------------------------------------------------
(***************************************************************************)
(* write_kv and read_kv, as far as the pointers go: the lock is taken      *)
(* through kv_locks, then the bucket is used through kv_store.             *)
(***************************************************************************)
KvCall(t) ==
  /\ At(t, "user")
  /\ Goto(t, "kv_lock")
  /\ UNCHANGED <<state, group, kvVars, memVars, child, thread, holder>>

KvLock(t) ==
  /\ At(t, "kv_lock")
  /\ kv_locks[t] # NULL
  /\ holder[kv_locks[t]] = NULL
  /\ holder' = [holder EXCEPT ![kv_locks[t]] = t]
  /\ Goto(t, "kv_bucket")
  /\ UNCHANGED <<state, group, kvVars, memVars, child, thread>>

\* Mutant: the lock is not given back.
KvUnlockMissing(t) ==
  /\ At(t, "kv_bucket")
  /\ kv_store[t] # NULL
  /\ Goto(t, "user")
  /\ UNCHANGED <<state, group, kvVars, memVars, child, thread, holder>>

KvUnlock(t) ==
  /\ At(t, "kv_bucket")
  /\ kv_store[t] # NULL
  /\ holder' = [holder EXCEPT ![kv_locks[t]] = NULL]
  /\ Goto(t, "user")
  /\ UNCHANGED <<state, group, kvVars, memVars, child, thread>>

\* A null pointer is used in the kernel: the task is killed where it is.
Oops(t) ==
  /\ \/ At(t, "kv_lock") /\ kv_locks[t] = NULL
     \/ At(t, "kv_bucket") /\ kv_store[t] = NULL
  /\ state' = [state EXCEPT ![t] = "dead"]
  /\ UNCHANGED <<group, kvVars, memVars, pc, child, thread, holder>>

\* Mutant: a task can be killed inside a call.
ExitAnywhere(t) ==
  /\ state[t] = "live" /\ pc[t] \in {"user", "kv_lock", "kv_bucket"}
  /\ state' = [state EXCEPT ![t] = "dead"]
  /\ UNCHANGED <<group, kvVars, memVars, pc, child, thread, holder>>

\* A task exits between its calls.  free_task frees neither block.
Exit(t) ==
  /\ At(t, "user")
  /\ state' = [state EXCEPT ![t] = "dead"]
  /\ UNCHANGED <<group, kvVars, memVars, pc, child, thread, holder>>

-----------------------------------------------------------------------------
Copying(t) ==
  \/ ShareKv(t) \/ InitKv(t) \/ AllocStore(t) \/ AllocStoreFails(t)
  \/ AllocLocks(t) \/ AllocLocksFails(t) \/ Publish(t)

KvStep(t) == KvLock(t) \/ KvUnlock(t) \/ Oops(t)

Next ==
  \E t \in Tasks :
    \/ \E c \in Tasks, isThread \in BOOLEAN : DupTask(t, c, isThread)
    \/ Copying(t) \/ CopyFails(t)
    \/ KvCall(t) \/ KvStep(t) \/ Exit(t)

Spec == Init /\ [][Next]_vars

\* Queued spinlocks are fair, and a task in a system call runs.
FairSpec == Spec /\ \A t \in Tasks : SF_vars(KvStep(t))

-----------------------------------------------------------------------------
\* The type invariant of the task_structs and the memory.
TypeOK ==
  /\ state \in [Tasks -> {"free", "new", "live", "dead"}]
  /\ group \in [Tasks -> Tasks \cup {NULL}]
  /\ kv_store \in [Tasks -> Blocks \cup {NULL}]
  /\ kv_locks \in [Tasks -> Blocks \cup {NULL}]
  /\ used \subseteq Blocks
  /\ owner \in [Blocks -> Tasks \cup {NULL}]
  /\ pc \in [Tasks -> {"user", "copy", "alloc_store", "alloc_locks", "publish",
                       "kv_lock", "kv_bucket"}]
  /\ child \in [Tasks -> Tasks \cup {NULL}]
  /\ thread \in [Tasks -> BOOLEAN]
  /\ holder \in [Blocks -> Tasks \cup {NULL}]
  /\ faults \in Nat

\* Tasks using the bucket, past the lock.
Inside(t) == At(t, "kv_bucket") /\ kv_store[t] # NULL

\* A task that reaches a bucket reaches memory that is allocated, that was
\* allocated for its own thread group, and that no other task is using: the
\* pointers copied from the parent and the pointer left after a failed
\* allocation never lead anywhere else.
OwnBucket ==
  \A t \in Tasks : Inside(t) =>
    /\ kv_store[t] \in used
    /\ owner[kv_store[t]] = group[t]
    /\ \A u \in Tasks : Inside(u) /\ kv_store[u] = kv_store[t] => u = t

\* All the tasks of a thread group see one store: what one thread writes, the
\* others read.
GroupShares ==
  \A t, u \in Tasks :
    state[t] = "live" /\ state[u] = "live" /\ group[t] = group[u] =>
      kv_store[t] = kv_store[u] /\ kv_locks[t] = kv_locks[u]

\* A bucket lock whose holder is dead.
Orphaned(l) == l # NULL /\ holder[l] # NULL /\ state[holder[l]] = "dead"

\* The only task that can die with a lock is one whose kv_store could not be
\* allocated, and the lock it dies with belongs to another group.
OrphansExplained ==
  \A l \in Blocks : Orphaned(l) =>
    LET t == holder[l] IN kv_store[t] = NULL /\ owner[l] # group[t]

-----------------------------------------------------------------------------
(***************************************************************************)
(* The inductive invariant.                                                *)
(***************************************************************************)
Started(t) == state[t] \in {"live", "dead"}
Cloning(t) == state[t] = "live" /\ pc[t] \in {"copy", "alloc_store", "alloc_locks", "publish"}

\* The child of a cloning task is new, and its alone; a task that has not
\* started has done nothing yet.
ChildInv ==
  /\ \A t \in Tasks : Cloning(t) => child[t] \in Tasks /\ state[child[t]] = "new"
  /\ \A t, u \in Tasks : Cloning(t) /\ Cloning(u) /\ child[t] = child[u] => t = u
  /\ \A t \in Tasks : ~Started(t) => pc[t] = "user"

\* A group is named for a task that has started.
GroupInv == \A t \in Tasks : Started(t) => group[t] \in Tasks /\ Started(group[t])

\* kv_locks is null, or allocated for a group that has started or for c.
LocksInv(l, c) ==
  l # NULL => /\ l \in used
              /\ owner[l] \in Tasks
              /\ Started(owner[l]) \/ owner[l] = c

\* The pointers of a task of group g: no locks, or both blocks its group's, or
\* no store and the locks of another group.
Sound(s, l, g) ==
  \/ l = NULL
  \/ s \in used /\ owner[s] = g /\ owner[l] = g
  \/ s = NULL /\ owner[l] # g

PointersInv ==
  \A t \in Tasks : Started(t) =>
    LocksInv(kv_locks[t], group[t]) /\ Sound(kv_store[t], kv_locks[t], group[t])

\* The pointers of the child at each point of the copy.
CopyInv ==
  \A t \in Tasks : Cloning(t) =>
    /\ pc[t] \in {"alloc_store", "alloc_locks"} =>
         ~thread[t] /\ kv_locks[child[t]] = kv_locks[t]
    /\ pc[t] = "copy" => kv_locks[child[t]] = kv_locks[t]
    /\ pc[t] = "alloc_locks" =>
         kv_store[child[t]] \in used /\ owner[kv_store[child[t]]] = child[t]
    /\ pc[t] = "publish" /\ thread[t] =>
         kv_store[child[t]] = kv_store[t] /\ kv_locks[child[t]] = kv_locks[t]
    /\ pc[t] = "publish" /\ ~thread[t] =>
         /\ LocksInv(kv_locks[child[t]], child[t])
         /\ Sound(kv_store[child[t]], kv_locks[child[t]], child[t])

\* A lock is held by the task that is past it, and a task that died there had
\* no store.
HolderInv ==
  /\ \A t \in Tasks : At(t, "kv_bucket") => kv_locks[t] # NULL /\ holder[kv_locks[t]] = t
  /\ \A l \in Blocks : holder[l] # NULL =>
       /\ Started(holder[l])
       /\ pc[holder[l]] = "kv_bucket"
       /\ kv_locks[holder[l]] = l
       /\ state[holder[l]] = "dead" => kv_store[holder[l]] = NULL

\* The inductive invariant, from which OwnBucket and OrphansExplained follow.
IInv ==
  /\ TypeOK /\ ChildInv /\ GroupInv /\ PointersInv /\ CopyInv
  /\ GroupShares /\ HolderInv

\* A task waiting for a bucket lock gets it, or dies of a missing array, unless
\* the lock is orphaned.
KvReturns ==
  \A t \in Tasks :
    At(t, "kv_lock") ~> ~At(t, "kv_lock") \/ Orphaned(kv_locks[t])
=============================================================================
