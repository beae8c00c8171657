---------------------------- MODULE KVForkProofs ----------------------------
(***************************************************************************)
(* The safety of the key-value store through clone and exit, for any       *)
(* number of tasks, any memory and any number of failed allocations.  IInv *)
(* is inductive: one lemma per action of KVFork, one step per conjunct.    *)
(***************************************************************************)
EXTENDS KVFork, TLAPS

\* The first task and its two blocks satisfy the invariant.
LEMMA InitIInv == Init => IInv
<1> SUFFICES ASSUME Init PROVE IInv
  OBVIOUS
<1> USE ForkAssumption DEF ForkAssumption, Init
<1>1. TypeOK
  BY DEF TypeOK
<1>2. ChildInv /\ GroupInv
  BY DEF ChildInv, GroupInv, Cloning, Started
<1>3. PointersInv
  BY DEF PointersInv, LocksInv, Sound, Started
<1>4. CopyInv
  BY DEF CopyInv, Cloning
<1>5. GroupShares
  BY DEF GroupShares
<1>6. HolderInv
  BY DEF HolderInv, At
<1> QED
  BY <1>1, <1>2, <1>3, <1>4, <1>5, <1>6 DEF IInv

\* dup_task_struct only gives a task that has not started the pointers of its parent.
LEMMA DupTaskKeeps ==
  ASSUME IInv, NEW t \in Tasks, NEW c \in Tasks, NEW isThread \in BOOLEAN, DupTask(t, c, isThread)
  PROVE  IInv'
<1>1. TypeOK'
  BY DEF IInv, DupTask, Goto, memVars, TypeOK
<1>2. ChildInv'
  BY DEF IInv, DupTask, Goto, At, TypeOK, ChildInv, Cloning, Started
<1>3. GroupInv'
  BY DEF IInv, DupTask, GroupInv, Started
<1>4. PointersInv'
  BY DEF IInv, DupTask, memVars, PointersInv, LocksInv, Sound, Started
<1>5. CopyInv'
  BY DEF IInv, DupTask, Goto, memVars, TypeOK, ChildInv, CopyInv, LocksInv,
         Sound, Cloning, Started
<1>6. GroupShares'
  BY DEF IInv, DupTask, GroupShares
<1>7. HolderInv'
  BY DEF IInv, DupTask, Goto, At, HolderInv, Started
<1> QED
  BY <1>1, <1>2, <1>3, <1>4, <1>5, <1>6, <1>7 DEF IInv

\* A failing copy_process only touches the task that never started.
LEMMA CopyFailsKeeps ==
  ASSUME IInv, NEW t \in Tasks, CopyFails(t)
  PROVE  IInv'
<1>1. TypeOK'
  BY DEF IInv, CopyFails, Goto, memVars, TypeOK
<1>2. ChildInv'
  BY DEF IInv, CopyFails, Goto, TypeOK, ChildInv, Cloning, Started
<1>3. GroupInv'
  BY DEF IInv, CopyFails, ChildInv, GroupInv, Cloning, Started
<1>4. PointersInv'
  BY DEF IInv, CopyFails, memVars, ChildInv, PointersInv, LocksInv, Sound,
         Cloning, Started
<1>5. CopyInv'
  BY DEF IInv, CopyFails, Goto, memVars, TypeOK, ChildInv, CopyInv, LocksInv,
         Sound, Cloning, Started
<1>6. GroupShares'
  BY DEF IInv, CopyFails, ChildInv, GroupShares, Cloning
<1>7. HolderInv'
  BY DEF IInv, CopyFails, Goto, At, ChildInv, HolderInv, Cloning, Started
<1> QED
  BY <1>1, <1>2, <1>3, <1>4, <1>5, <1>6, <1>7 DEF IInv

\* A thread being created gets the pointers of its group, again.
LEMMA ShareKvKeeps ==
  ASSUME IInv, NEW t \in Tasks, ShareKv(t)
  PROVE  IInv'
<1>1. TypeOK'
  BY DEF IInv, ShareKv, Goto, memVars, TypeOK
<1>2. ChildInv'
  BY DEF IInv, ShareKv, Goto, At, ChildInv, Cloning, Started
<1>3. GroupInv'
  BY DEF IInv, ShareKv, GroupInv, Started
<1>4. PointersInv'
  BY DEF IInv, ShareKv, At, memVars, ChildInv, PointersInv, LocksInv, Sound,
         Cloning, Started
<1>5. CopyInv'
  BY DEF IInv, ShareKv, Goto, At, memVars, TypeOK, ChildInv, CopyInv,
         LocksInv, Sound, Cloning, Started
<1>6. GroupShares'
  BY DEF IInv, ShareKv, At, ChildInv, GroupShares, Cloning
<1>7. HolderInv'
  BY DEF IInv, ShareKv, Goto, At, ChildInv, HolderInv, Cloning, Started
<1> QED
  BY <1>1, <1>2, <1>3, <1>4, <1>5, <1>6, <1>7 DEF IInv

\* The decision to make a store of its own changes no pointer.
LEMMA InitKvKeeps ==
  ASSUME IInv, NEW t \in Tasks, InitKv(t)
  PROVE  IInv'
<1>1. TypeOK'
  BY DEF IInv, InitKv, Goto, kvVars, memVars, TypeOK
<1>2. ChildInv'
  BY DEF IInv, InitKv, Goto, At, ChildInv, Cloning, Started
<1>3. GroupInv'
  BY DEF IInv, InitKv, GroupInv, Started
<1>4. PointersInv'
  BY DEF IInv, InitKv, kvVars, memVars, PointersInv, LocksInv, Sound, Started
<1>5. CopyInv'
  BY DEF IInv, InitKv, Goto, At, kvVars, memVars, CopyInv, LocksInv, Sound,
         Cloning, Started
<1>6. GroupShares'
  BY DEF IInv, InitKv, kvVars, GroupShares
<1>7. HolderInv'
  BY DEF IInv, InitKv, Goto, At, kvVars, HolderInv, Started
<1> QED
  BY <1>1, <1>2, <1>3, <1>4, <1>5, <1>6, <1>7 DEF IInv

\* A fresh kv_store is nobody else's.
LEMMA AllocStoreKeeps ==
  ASSUME IInv, NEW t \in Tasks, AllocStore(t)
  PROVE  IInv'
<1>1. TypeOK'
  <2>1. child[t] \in Tasks
    BY DEF IInv, AllocStore, At, ChildInv, Cloning
  <2>2. PICK b \in Blocks : Allocate(b, t) /\ kv_store' = [kv_store EXCEPT ![child[t]] = b]
    BY DEF AllocStore
  <2>3. used' \subseteq Blocks
    BY <2>2 DEF IInv, TypeOK, Allocate
  <2>4. faults' \in Nat
    BY <2>2 DEF IInv, TypeOK, Allocate
  <2> QED
    BY <2>1, <2>2, <2>3, <2>4 DEF IInv, AllocStore, Allocate, Goto, TypeOK
<1>2. ChildInv'
  BY DEF IInv, AllocStore, Goto, At, ChildInv, Cloning, Started
<1>3. GroupInv'
  BY DEF IInv, AllocStore, GroupInv, Started
<1>4. PointersInv'
  BY DEF IInv, AllocStore, Allocate, At, ChildInv, PointersInv, LocksInv,
         Sound, Cloning, Started
<1>5. CopyInv'
  BY DEF IInv, AllocStore, Allocate, Goto, At, TypeOK, ChildInv, CopyInv,
         LocksInv, Sound, Cloning, Started
<1>6. GroupShares'
  BY DEF IInv, AllocStore, At, ChildInv, GroupShares, Cloning
<1>7. HolderInv'
  BY DEF IInv, AllocStore, Goto, At, ChildInv, HolderInv, Cloning, Started
<1> QED
  BY <1>1, <1>2, <1>3, <1>4, <1>5, <1>6, <1>7 DEF IInv

\* Without a kv_store the locks stay the parent's: store null, locks of another group.
LEMMA AllocStoreFailsKeeps ==
  ASSUME IInv, NEW t \in Tasks, AllocStoreFails(t)
  PROVE  IInv'
<1>1. TypeOK'
  <2>1. faults' \in Nat
    BY DEF IInv, AllocStoreFails, AllocFails, TypeOK
  <2> QED
    BY <2>1 DEF IInv, AllocStoreFails, Goto, TypeOK
<1>2. ChildInv'
  BY DEF IInv, AllocStoreFails, Goto, At, ChildInv, Cloning, Started
<1>3. GroupInv'
  BY DEF IInv, AllocStoreFails, GroupInv, Started
<1>4. PointersInv'
  BY DEF IInv, AllocStoreFails, At, ChildInv, PointersInv, LocksInv, Sound,
         Cloning, Started
<1>5. CopyInv'
  BY DEF IInv, AllocStoreFails, Goto, At, TypeOK, ChildInv, GroupInv,
         PointersInv, CopyInv, LocksInv, Sound, Cloning, Started
<1>6. GroupShares'
  BY DEF IInv, AllocStoreFails, At, ChildInv, GroupShares, Cloning
<1>7. HolderInv'
  BY DEF IInv, AllocStoreFails, Goto, At, HolderInv, Started
<1> QED
  BY <1>1, <1>2, <1>3, <1>4, <1>5, <1>6, <1>7 DEF IInv

\* Fresh kv_locks complete the pair of blocks, and nobody holds them.
LEMMA AllocLocksKeeps ==
  ASSUME IInv, NEW t \in Tasks, AllocLocks(t)
  PROVE  IInv'
<1>1. TypeOK'
  <2>1. child[t] \in Tasks
    BY DEF IInv, AllocLocks, At, ChildInv, Cloning
  <2>2. PICK b \in Blocks : /\ Allocate(b, t)
                            /\ kv_locks' = [kv_locks EXCEPT ![child[t]] = b]
                            /\ holder' = [holder EXCEPT ![b] = NULL]
    BY DEF AllocLocks
  <2>3. used' \subseteq Blocks
    BY <2>2 DEF IInv, TypeOK, Allocate
  <2>4. faults' \in Nat
    BY <2>2 DEF IInv, TypeOK, Allocate
  <2> QED
    BY <2>1, <2>2, <2>3, <2>4 DEF IInv, AllocLocks, Allocate, Goto, TypeOK
<1>2. ChildInv'
  BY DEF IInv, AllocLocks, Goto, At, ChildInv, Cloning, Started
<1>3. GroupInv'
  BY DEF IInv, AllocLocks, GroupInv, Started
<1>4. PointersInv'
  BY DEF IInv, AllocLocks, Allocate, At, ChildInv, PointersInv, LocksInv,
         Sound, Cloning, Started
<1>5. CopyInv'
  BY DEF IInv, AllocLocks, Allocate, Goto, At, TypeOK, ChildInv, CopyInv,
         LocksInv, Sound, Cloning, Started
<1>6. GroupShares'
  BY DEF IInv, AllocLocks, At, ChildInv, GroupShares, Cloning
<1>7. HolderInv'
  BY DEF IInv, AllocLocks, Allocate, Goto, At, ChildInv, PointersInv,
         LocksInv, HolderInv, Cloning, Started
<1> QED
  BY <1>1, <1>2, <1>3, <1>4, <1>5, <1>6, <1>7 DEF IInv

\* Without kv_locks the freed kv_store cannot be reached.
LEMMA AllocLocksFailsKeeps ==
  ASSUME IInv, NEW t \in Tasks, AllocLocksFails(t)
  PROVE  IInv'
<1>1. TypeOK'
  <2>1. faults' \in Nat
    BY DEF IInv, AllocLocksFails, AllocFails, TypeOK
  <2>2. used' \subseteq Blocks
    BY DEF IInv, AllocLocksFails, TypeOK
  <2> QED
    BY <2>1, <2>2 DEF IInv, AllocLocksFails, Goto, TypeOK
<1>2. ChildInv'
  BY DEF IInv, AllocLocksFails, Goto, At, ChildInv, Cloning, Started
<1>3. GroupInv'
  BY DEF IInv, AllocLocksFails, GroupInv, Started
<1>4. PointersInv'
  BY DEF IInv, AllocLocksFails, At, ChildInv, GroupInv, PointersInv, CopyInv,
         LocksInv, Sound, Cloning, Started
<1>5. CopyInv'
  BY DEF IInv, AllocLocksFails, Goto, At, TypeOK, ChildInv, CopyInv,
         LocksInv, Sound, Cloning, Started
<1>6. GroupShares'
  BY DEF IInv, AllocLocksFails, At, ChildInv, GroupShares, Cloning
<1>7. HolderInv'
  BY DEF IInv, AllocLocksFails, Goto, At, ChildInv, HolderInv, Cloning,
         Started
<1> QED
  BY <1>1, <1>2, <1>3, <1>4, <1>5, <1>6, <1>7 DEF IInv

\* A task starts with sound pointers: its group's, or its own.
LEMMA PublishKeeps ==
  ASSUME IInv, NEW t \in Tasks, Publish(t)
  PROVE  IInv'
<1>1. TypeOK'
  BY DEF IInv, Publish, Goto, kvVars, memVars, TypeOK
<1>2. ChildInv'
  BY DEF IInv, Publish, Goto, At, TypeOK, ChildInv, Cloning, Started
<1>3. GroupInv'
  BY DEF IInv, Publish, At, TypeOK, GroupInv, Started
<1>4. PointersInv'
  BY DEF IInv, Publish, At, kvVars, memVars, TypeOK, PointersInv, CopyInv,
         LocksInv, Sound, Cloning, Started
<1>5. CopyInv'
  BY DEF IInv, Publish, Goto, At, kvVars, memVars, TypeOK, ChildInv, CopyInv,
         LocksInv, Sound, Cloning, Started
<1>6. GroupShares'
  BY DEF IInv, Publish, At, kvVars, TypeOK, ChildInv, GroupInv, CopyInv,
         GroupShares, Cloning, Started
<1>7. HolderInv'
  BY DEF IInv, Publish, Goto, At, kvVars, ChildInv, HolderInv, Cloning,
         Started
<1> QED
  BY <1>1, <1>2, <1>3, <1>4, <1>5, <1>6, <1>7 DEF IInv

\* Entering a system call changes no pointer.
LEMMA KvCallKeeps ==
  ASSUME IInv, NEW t \in Tasks, KvCall(t)
  PROVE  IInv'
<1>1. TypeOK'
  BY DEF IInv, KvCall, Goto, kvVars, memVars, TypeOK
<1>2. ChildInv'
  BY DEF IInv, KvCall, Goto, At, ChildInv, Cloning, Started
<1>3. GroupInv'
  BY DEF IInv, KvCall, GroupInv, Started
<1>4. PointersInv'
  BY DEF IInv, KvCall, kvVars, memVars, PointersInv, LocksInv, Sound, Started
<1>5. CopyInv'
  BY DEF IInv, KvCall, Goto, kvVars, memVars, CopyInv, LocksInv, Sound,
         Cloning, Started
<1>6. GroupShares'
  BY DEF IInv, KvCall, kvVars, GroupShares
<1>7. HolderInv'
  BY DEF IInv, KvCall, Goto, At, kvVars, HolderInv, Started
<1> QED
  BY <1>1, <1>2, <1>3, <1>4, <1>5, <1>6, <1>7 DEF IInv

\* A free lock gets its one holder.
LEMMA KvLockKeeps ==
  ASSUME IInv, NEW t \in Tasks, KvLock(t)
  PROVE  IInv'
<1>1. TypeOK'
  BY DEF IInv, KvLock, Goto, kvVars, memVars, TypeOK
<1>2. ChildInv'
  BY DEF IInv, KvLock, Goto, At, ChildInv, Cloning, Started
<1>3. GroupInv'
  BY DEF IInv, KvLock, GroupInv, Started
<1>4. PointersInv'
  BY DEF IInv, KvLock, kvVars, memVars, PointersInv, LocksInv, Sound, Started
<1>5. CopyInv'
  BY DEF IInv, KvLock, Goto, kvVars, memVars, CopyInv, LocksInv, Sound,
         Cloning, Started
<1>6. GroupShares'
  BY DEF IInv, KvLock, kvVars, GroupShares
<1>7. HolderInv'
  BY ForkAssumption DEF ForkAssumption, IInv, KvLock, Goto, At, kvVars,
         TypeOK, HolderInv, Started
<1> QED
  BY <1>1, <1>2, <1>3, <1>4, <1>5, <1>6, <1>7 DEF IInv

\* The lock that is released is the caller's.
LEMMA KvUnlockKeeps ==
  ASSUME IInv, NEW t \in Tasks, KvUnlock(t)
  PROVE  IInv'
<1>1. TypeOK'
  BY DEF IInv, KvUnlock, Goto, kvVars, memVars, TypeOK
<1>2. ChildInv'
  BY DEF IInv, KvUnlock, Goto, ChildInv, Cloning, Started
<1>3. GroupInv'
  BY DEF IInv, KvUnlock, GroupInv, Started
<1>4. PointersInv'
  BY DEF IInv, KvUnlock, kvVars, memVars, PointersInv, LocksInv, Sound,
         Started
<1>5. CopyInv'
  BY DEF IInv, KvUnlock, Goto, kvVars, memVars, CopyInv, LocksInv, Sound,
         Cloning, Started
<1>6. GroupShares'
  BY DEF IInv, KvUnlock, kvVars, GroupShares
<1>7. HolderInv'
  BY DEF IInv, KvUnlock, Goto, At, kvVars, TypeOK, HolderInv, Started
<1> QED
  BY <1>1, <1>2, <1>3, <1>4, <1>5, <1>6, <1>7 DEF IInv

\* A task that dies in a call has no locks, or dies with one and has no store.
LEMMA OopsKeeps ==
  ASSUME IInv, NEW t \in Tasks, Oops(t)
  PROVE  IInv'
<1>1. TypeOK'
  BY DEF IInv, Oops, kvVars, memVars, TypeOK
<1>2. ChildInv'
  BY DEF IInv, Oops, At, ChildInv, Cloning, Started
<1>3. GroupInv'
  BY DEF IInv, Oops, At, GroupInv, Started
<1>4. PointersInv'
  BY DEF IInv, Oops, At, kvVars, memVars, PointersInv, LocksInv, Sound,
         Started
<1>5. CopyInv'
  BY DEF IInv, Oops, kvVars, memVars, CopyInv, LocksInv, Sound, Cloning,
         Started
<1>6. GroupShares'
  BY DEF IInv, Oops, kvVars, GroupShares
<1>7. HolderInv'
  BY DEF IInv, Oops, At, kvVars, HolderInv, Started
<1> QED
  BY <1>1, <1>2, <1>3, <1>4, <1>5, <1>6, <1>7 DEF IInv

\* A task that exits between its calls holds nothing.
LEMMA ExitKeeps ==
  ASSUME IInv, NEW t \in Tasks, Exit(t)
  PROVE  IInv'
<1>1. TypeOK'
  BY DEF IInv, Exit, kvVars, memVars, TypeOK
<1>2. ChildInv'
  BY DEF IInv, Exit, At, ChildInv, Cloning, Started
<1>3. GroupInv'
  BY DEF IInv, Exit, At, GroupInv, Started
<1>4. PointersInv'
  BY DEF IInv, Exit, At, kvVars, memVars, PointersInv, LocksInv, Sound,
         Started
<1>5. CopyInv'
  BY DEF IInv, Exit, kvVars, memVars, CopyInv, LocksInv, Sound, Cloning,
         Started
<1>6. GroupShares'
  BY DEF IInv, Exit, kvVars, GroupShares
<1>7. HolderInv'
  BY DEF IInv, Exit, At, kvVars, HolderInv, Started
<1> QED
  BY <1>1, <1>2, <1>3, <1>4, <1>5, <1>6, <1>7 DEF IInv

\* Nor does a step that changes nothing break it.
LEMMA StutterKeeps == ASSUME IInv, UNCHANGED vars PROVE IInv'
<1> USE DEF vars, kvVars, memVars
<1>1. TypeOK' /\ ChildInv' /\ GroupInv' /\ GroupShares' /\ HolderInv'
  BY DEF IInv, TypeOK, ChildInv, GroupInv, GroupShares, HolderInv, Cloning, Started, At
<1>2. PointersInv' /\ CopyInv'
  BY DEF IInv, PointersInv, CopyInv, LocksInv, Sound, Cloning, Started
<1> QED
  BY <1>1, <1>2 DEF IInv

\* Every step of a clone, a call or an exit preserves the invariant.
LEMMA NextKeeps == IInv /\ [Next]_vars => IInv'
<1> SUFFICES ASSUME IInv, [Next]_vars PROVE IInv'
  OBVIOUS
<1>1. CASE UNCHANGED vars
  BY <1>1, StutterKeeps
<1>2. CASE Next
  <2>1. PICK t \in Tasks :
          \/ \E c \in Tasks, isThread \in BOOLEAN : DupTask(t, c, isThread)
          \/ Copying(t) \/ CopyFails(t)
          \/ KvCall(t) \/ KvStep(t) \/ Exit(t)
    BY <1>2 DEF Next
  <2>2. CASE \E c \in Tasks, isThread \in BOOLEAN : DupTask(t, c, isThread)
    BY <2>2, DupTaskKeeps
  <2>3. CASE Copying(t)
    BY <2>3, ShareKvKeeps, InitKvKeeps, AllocStoreKeeps, AllocStoreFailsKeeps,
       AllocLocksKeeps, AllocLocksFailsKeeps, PublishKeeps DEF Copying
  <2>4. CASE KvStep(t)
    BY <2>4, KvLockKeeps, KvUnlockKeeps, OopsKeeps DEF KvStep
  <2> QED
    BY <2>1, <2>2, <2>3, <2>4, CopyFailsKeeps, KvCallKeeps, ExitKeeps
<1> QED
  BY <1>1, <1>2

\* The invariant that carries the theorems below, of every task, clone and call.
THEOREM InvariantHolds == Spec => []IInv
  BY InitIInv, NextKeeps, PTL DEF Spec

\* Type correctness: allocation never leads a pointer out of the memory.
THEOREM TypeCorrect == Spec => []TypeOK
<1>1. IInv => TypeOK
  BY DEF IInv
<1> QED
  BY <1>1, InvariantHolds, PTL

-----------------------------------------------------------------------------
\* Two tasks in one bucket are of one group, so they use one lock: they are one.
LEMMA OwnBucketFollows == IInv => OwnBucket
<1> SUFFICES ASSUME IInv, NEW t \in Tasks, Inside(t)
             PROVE  /\ kv_store[t] \in used
                    /\ owner[kv_store[t]] = group[t]
                    /\ \A u \in Tasks : Inside(u) /\ kv_store[u] = kv_store[t] => u = t
  BY DEF OwnBucket
<1>1. \A u \in Tasks : Inside(u) => /\ kv_store[u] \in used
                                    /\ owner[kv_store[u]] = group[u]
                                    /\ holder[kv_locks[u]] = u
  BY DEF IInv, Inside, At, PointersInv, HolderInv, Sound, Started
<1>2. ASSUME NEW u \in Tasks, Inside(u), kv_store[u] = kv_store[t]
      PROVE  u = t
  <2>1. group[u] = group[t]
    BY <1>1, <1>2
  <2>2. kv_locks[u] = kv_locks[t]
    BY <1>2, <2>1 DEF IInv, GroupShares, Inside, At
  <2> QED
    BY <1>1, <1>2, <2>2
<1> QED
  BY <1>1, <1>2

\* Whoever reaches a bucket through kv_store is alone in memory of its own group,
\* whatever allocations failed and whoever cloned or died.
THEOREM OwnBucketHolds == Spec => []OwnBucket
  BY OwnBucketFollows, InvariantHolds, PTL

\* The threads of a group see one store for as long as they live.
THEOREM GroupSharesHolds == Spec => []GroupShares
<1>1. IInv => GroupShares
  BY DEF IInv
<1> QED
  BY <1>1, InvariantHolds, PTL

\* The holder of an orphaned lock had no store, so its locks were not its own.
LEMMA OrphansFollow == IInv => OrphansExplained
<1> SUFFICES ASSUME IInv, NEW l \in Blocks, Orphaned(l)
             PROVE  kv_store[holder[l]] = NULL /\ owner[l] # group[holder[l]]
  BY DEF OrphansExplained
<1>1. holder[l] \in Tasks /\ kv_store[holder[l]] = NULL /\ kv_locks[holder[l]] = l
  BY DEF IInv, TypeOK, HolderInv, Orphaned
<1>2. Sound(NULL, l, group[holder[l]])
  BY <1>1 DEF IInv, PointersInv, Orphaned, Started
<1> QED
  BY <1>1, <1>2, ForkAssumption DEF IInv, TypeOK, Sound, ForkAssumption

\* A bucket lock is lost only by a process whose kv_store could not be allocated,
\* and then it is a lock of another group.
THEOREM OrphansExplainedHolds == Spec => []OrphansExplained
  BY OrphansFollow, InvariantHolds, PTL
=============================================================================
