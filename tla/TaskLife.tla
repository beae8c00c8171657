------------------------------ MODULE TaskLife ------------------------------
(***************************************************************************)
(* The task_struct and its kernel stack, from dup_task_struct to free_task *)
(* (kvm/linux-5.15.178/kernel/fork.c).  Stacks are cached per CPU when     *)
(* they are freed and handed to the next task without going through        *)
(* vmalloc: a stack is in the hands of a task under construction, of a     *)
(* task and its readers, of a cache, or of nobody.                         *)
(*                                                                         *)
(* Exit, reaping, the scheduler and the readers of a task in /proc are     *)
(* outside fork.c and appear as its callers.                               *)
(***************************************************************************)
EXTENDS Integers, FiniteSets, FiniteSetsExt

CONSTANTS Tasks,           \* slots of the task_struct cache
          Watched,         \* those a reader looks up, in /proc say
          Stacks,          \* areas vmalloc can hand out
          NrCpus,          \* the possible CPUs are numbered from 0
          NoStack,
          NrCachedStacks,  \* NR_CACHED_STACKS
          StackPages,      \* THREAD_SIZE / PAGE_SIZE
          RamPages, PageSize, \* totalram_pages() and PAGE_SIZE
          LongBits,        \* the width of the product in set_max_threads
          MinThreads, MaxThreads,
          CountBound       \* how far a counter of one CPU may drift from 0

\* The sizes are positive, and NoStack is no stack.
Sizes ==
  /\ NoStack \notin Stacks
  /\ NrCachedStacks \in Nat /\ NrCpus \in Nat
  /\ {StackPages, RamPages, PageSize, MaxThreads} \subseteq Nat \ {0}
  /\ MinThreads \in 1 .. MaxThreads

ASSUME SizesHold == Sizes

VARIABLES step,      \* step[t]: how far t has come
          tries,     \* tries[t]: the slot of the cache looked at next
          freeing,   \* freeing[t]: who is in free_thread_stack for t
          stack,     \* stack[t]: tsk->stack_vm_area
          stackRefs, \* stack_refcount
          rcuUsers, usage,
          hashed,    \* the tasks a lookup finds
          readers,   \* readers[t]: what a reader of t holds
          cached,    \* cached[c][i]: cached_stacks, per CPU
          data,      \* data[s]: the task whose data is on the stack, or NoStack
          charged,   \* charged[s]: pages charged to the memory cgroup
          counted,   \* the stacks counted in NR_KERNEL_STACK_KB
          rcu,       \* callbacks waiting for a grace period
          nrThreads, maxThreads,
          processCounts, \* process_counts, per CPU
          group,         \* group[t]: the leader of t's thread group
          warned         \* WARN_ONs that fired (history)

stackVars == <<stack, cached, data, charged, counted>>
refVars == <<stackRefs, rcuUsers, usage, hashed, readers, rcu>>
countVars == <<nrThreads, maxThreads, processCounts, group>>
taskVars == <<step, tries, freeing, stackVars, refVars, countVars, warned>>

Cpus == 0 .. NrCpus - 1
Slots == 1 .. NrCachedStacks

\* fls64(n), for n > 0.
Fls(n) == CHOOSE b \in 1 .. LongBits : 2^(b - 1) <= n /\ n < 2^b

\* set_max_threads: an eighth of the memory at most for the stacks.
SetMaxThreads(suggested) ==
  LET threads == IF Fls(RamPages) + Fls(PageSize) > LongBits THEN MaxThreads
                 ELSE (RamPages * PageSize) \div (StackPages * PageSize * 8)
  IN  Max({MinThreads, Min({threads, suggested, MaxThreads})})

\* fork_init: the limit, and no task yet but the one that boots.
TaskInit ==
  /\ step = [t \in Tasks |-> "free"]
  /\ tries = [t \in Tasks |-> 1]
  /\ freeing = [t \in Tasks |-> "nobody"]
  /\ stack = [t \in Tasks |-> NoStack]
  /\ stackRefs = [t \in Tasks |-> 0]
  /\ rcuUsers = [t \in Tasks |-> 0]
  /\ usage = [t \in Tasks |-> 0]
  /\ hashed = {}
  /\ readers = [t \in Tasks |-> {}]
  /\ cached = [c \in Cpus |-> [i \in Slots |-> NoStack]]
  /\ data = [s \in Stacks |-> NoStack]
  /\ charged = [s \in Stacks |-> 0]
  /\ counted = {}
  /\ rcu = {}
  /\ nrThreads = 0
  /\ maxThreads = SetMaxThreads(MaxThreads)
  /\ processCounts = [c \in Cpus |-> 0]
  /\ group = [t \in Tasks |-> t]
  /\ warned = {}

-----------------------------------------------------------------------------
(***************************************************************************)
(* dup_task_struct.                                                        *)
(***************************************************************************)
\* alloc_task_struct_node succeeds.  When it fails nothing has happened.
AllocTask(t) ==
  /\ step[t] = "free"
  /\ step' = [step EXCEPT ![t] = "alloc"]
  /\ tries' = [tries EXCEPT ![t] = 1]
  /\ UNCHANGED <<freeing, stackVars, refVars, countVars, warned>>

\* Mutant: the stack of another task is handed out as it is.
AllocCachedUncleared(t, c) ==
  /\ step[t] = "alloc"
  /\ tries[t] \in Slots
  /\ LET s == cached[c][tries[t]]
     IN  IF s = NoStack
         THEN /\ tries' = [tries EXCEPT ![t] = @ + 1]
              /\ UNCHANGED <<step, stack, cached, data>>
         ELSE /\ cached' = [cached EXCEPT ![c][tries[t]] = NoStack]
              /\ stack' = [stack EXCEPT ![t] = s]
              /\ step' = [step EXCEPT ![t] = "charge"]
              /\ UNCHANGED <<tries, data>>
  /\ UNCHANGED <<freeing, charged, counted, refVars, countVars, warned>>

\* One turn of alloc_thread_stack_node's loop, on whichever CPU it runs: the
\* slot is emptied with this_cpu_xchg, and the stack cleared.
AllocCached(t, c) ==
  /\ step[t] = "alloc"
  /\ tries[t] \in Slots
  /\ LET s == cached[c][tries[t]]
     IN  IF s = NoStack
         THEN /\ tries' = [tries EXCEPT ![t] = @ + 1]
              /\ UNCHANGED <<step, stack, cached, data>>
         ELSE /\ cached' = [cached EXCEPT ![c][tries[t]] = NoStack]
              /\ data' = [data EXCEPT ![s] = NoStack]
              /\ stack' = [stack EXCEPT ![t] = s]
              /\ step' = [step EXCEPT ![t] = "charge"]
              /\ UNCHANGED tries
  /\ UNCHANGED <<freeing, charged, counted, refVars, countVars, warned>>

\* The stacks vmalloc has not handed out.
Used == {stack[t] : t \in Tasks} \cup {cached[c][i] : c \in Cpus, i \in Slots}

Vmalloc(t, s) ==
  /\ step[t] = "alloc"
  /\ tries[t] \notin Slots
  /\ s \notin Used
  /\ stack' = [stack EXCEPT ![t] = s]
  /\ data' = [data EXCEPT ![s] = NoStack]
  /\ step' = [step EXCEPT ![t] = "charge"]
  /\ UNCHANGED <<tries, freeing, cached, charged, counted, refVars, countVars, warned>>

\* free_tsk: no stack.
AllocFails(t) ==
  /\ step[t] = "alloc"
  /\ tries[t] \notin Slots
  /\ step' = [step EXCEPT ![t] = "free"]
  /\ UNCHANGED <<tries, freeing, stackVars, refVars, countVars, warned>>

\* free_stack, in dup_task_struct.
FreeStack(t) ==
  /\ step' = [step EXCEPT ![t] = "free_stack"]
  /\ freeing' = [freeing EXCEPT ![t] = "dup"]
  /\ tries' = [tries EXCEPT ![t] = 1]

\* memcg_charge_kernel_stack: all the pages, or those before the one that
\* fails, and then free_stack.
Charge(t, n) ==
  /\ step[t] = "charge"
  /\ charged' = [charged EXCEPT ![stack[t]] = n]
  /\ IF n = StackPages
     THEN step' = [step EXCEPT ![t] = "dup"] /\ UNCHANGED <<freeing, tries>>
     ELSE FreeStack(t)
  /\ UNCHANGED <<stack, cached, data, counted, refVars, countVars, warned>>

\* arch_dup_task_struct or scs_prepare fails.
DupTaskFails(t) ==
  /\ step[t] = "dup"
  /\ FreeStack(t)
  /\ UNCHANGED <<stackVars, refVars, countVars, warned>>

\* The copy is made, the counters set and the stack accounted.
DupTask(t) ==
  /\ step[t] = "dup"
  /\ data' = [data EXCEPT ![stack[t]] = IF @ = NoStack THEN t ELSE @]
  /\ stackRefs' = [stackRefs EXCEPT ![t] = 1]
  /\ rcuUsers' = [rcuUsers EXCEPT ![t] = 2]
  /\ usage' = [usage EXCEPT ![t] = 1]
  /\ counted' = counted \cup {stack[t]}
  /\ step' = [step EXCEPT ![t] = "new"]
  /\ UNCHANGED <<tries, freeing, stack, cached, charged, hashed, readers, rcu, countVars, warned>>

-----------------------------------------------------------------------------
(***************************************************************************)
(* free_thread_stack: the pages are uncharged, then each slot of the cache *)
(* of this CPU is tried with this_cpu_cmpxchg, then vfree.                 *)
(***************************************************************************)
\* Then the pointer is cleared; in dup_task_struct free_tsk follows.
StackGone(t) ==
  /\ stack' = [stack EXCEPT ![t] = NoStack]
  /\ freeing' = [freeing EXCEPT ![t] = "nobody"]
  /\ step' = [step EXCEPT ![t] = IF freeing[t] = "dup" THEN "free" ELSE @]

FreeIntoCache(t, c) ==
  /\ freeing[t] # "nobody"
  /\ tries[t] \in Slots
  /\ charged' = [charged EXCEPT ![stack[t]] = 0]
  /\ tries' = [tries EXCEPT ![t] = @ + 1]
  /\ IF cached[c][tries[t]] = NoStack
     THEN cached' = [cached EXCEPT ![c][tries[t]] = stack[t]] /\ StackGone(t)
     ELSE UNCHANGED <<cached, stack, freeing, step>>
  /\ UNCHANGED <<data, counted, refVars, countVars, warned>>

Vfree(t) ==
  /\ freeing[t] # "nobody"
  /\ tries[t] \notin Slots
  /\ StackGone(t)
  /\ UNCHANGED <<tries, cached, data, charged, counted, refVars, countVars, warned>>

\* free_vm_stack_cache: a CPU goes offline.
FreeCache(c) ==
  /\ cached' = [cached EXCEPT ![c] = [i \in Slots |-> NoStack]]
  /\ UNCHANGED <<step, tries, freeing, stack, data, charged, counted, refVars, countVars, warned>>

Dead(t) == step[t] \in {"dead", "gone", "bad_fork"}

\* put_task_stack by the scheduler, copy_process or a reader.  The last one is
\* release_task_stack, which leaks the stack of a task that is not dead.
PutTaskStack(t, who, isDead) ==
  /\ stackRefs' = [stackRefs EXCEPT ![t] = @ - 1]
  /\ IF stackRefs[t] > 1
     THEN UNCHANGED <<tries, freeing, counted, warned>>
     ELSE IF isDead
     THEN /\ counted' = counted \ {stack[t]}
          /\ tries' = [tries EXCEPT ![t] = 1]
          /\ freeing' = [freeing EXCEPT ![t] = who]
          /\ UNCHANGED warned
     ELSE warned' = warned \cup {"not dead"} /\ UNCHANGED <<tries, freeing, counted>>

-----------------------------------------------------------------------------
(***************************************************************************)
(* copy_process after dup_task_struct, and its last label.                 *)
(***************************************************************************)
\* The limit is compared without a lock.
CheckLimit(t) ==
  /\ step[t] = "new"
  /\ nrThreads < maxThreads
  /\ step' = [step EXCEPT ![t] = "allowed"]
  /\ UNCHANGED <<tries, freeing, stackVars, refVars, countVars, warned>>

\* bad_fork_free, for the limit or for any later stage: the state becomes
\* TASK_DEAD and the stack is put, then the task is freed after a grace period.
BadForkFree(t) ==
  /\ step[t] = "allowed" \/ (step[t] = "new" /\ nrThreads >= maxThreads)
  /\ step' = [step EXCEPT ![t] = "bad_fork"]
  /\ PutTaskStack(t, "fork", TRUE)
  /\ UNCHANGED <<stack, cached, data, charged, rcuUsers, usage, hashed, readers, rcu, countVars>>

DelayedFreeTask(t) ==
  /\ step[t] = "bad_fork"
  /\ freeing[t] # "fork"
  /\ <<"free", t>> \notin rcu
  /\ rcu' = rcu \cup {<<"free", t>>}
  /\ UNCHANGED <<step, tries, freeing, stackVars, stackRefs, rcuUsers, usage, hashed,
                 readers, countVars, warned>>

\* Mutant: a thread is counted as a process.
PublishTaskCounted(t, c, leader) ==
  /\ step[t] = "allowed"
  /\ leader = t \/ \E current \in Tasks : step[current] = "run" /\ group[current] = leader
  /\ processCounts[c] < CountBound
  /\ processCounts' = [processCounts EXCEPT ![c] = @ + 1]
  /\ group' = [group EXCEPT ![t] = leader]
  /\ hashed' = hashed \cup {t}
  /\ nrThreads' = nrThreads + 1
  /\ step' = [step EXCEPT ![t] = "run"]
  /\ UNCHANGED <<tries, freeing, stackVars, stackRefs, rcuUsers, usage, readers, rcu,
                 maxThreads, warned>>

\* The task becomes visible: as the leader of a group of its own, which is a
\* process and counted as one, or, with CLONE_THREAD, in the group of current.
PublishTask(t, c, leader) ==
  /\ step[t] = "allowed"
  /\ IF leader = t
     THEN /\ processCounts[c] < CountBound
          /\ processCounts' = [processCounts EXCEPT ![c] = @ + 1]
     ELSE /\ \E current \in Tasks : step[current] = "run" /\ group[current] = leader
          /\ UNCHANGED processCounts
  /\ group' = [group EXCEPT ![t] = leader]
  /\ hashed' = hashed \cup {t}
  /\ nrThreads' = nrThreads + 1
  /\ step' = [step EXCEPT ![t] = "run"]
  /\ UNCHANGED <<tries, freeing, stackVars, stackRefs, rcuUsers, usage, readers, rcu,
                 maxThreads, warned>>

\* sysctl_max_threads: kernel.threads-max is written.
SysctlMaxThreads(n) ==
  /\ n \in 1 .. MaxThreads
  /\ maxThreads' = n
  /\ UNCHANGED <<step, tries, freeing, stackVars, refVars, nrThreads, processCounts, group,
                 warned>>

\* nr_processes: the counters of the CPUs, added up in turn.
NrProcesses ==
  LET total[i \in 0 .. NrCpus] == IF i = 0 THEN 0 ELSE total[i - 1] + processCounts[i - 1]
  IN  total[NrCpus]

-----------------------------------------------------------------------------
(***************************************************************************)
(* The end of a task.  finish_task_switch puts the stack and one of the    *)
(* two rcu_users, release_task the other; a grace period after the last    *)
(* the reference counted in usage is put.                                  *)
(***************************************************************************)
\* external: put_task_struct_rcu_user
PutRcuUser(t) ==
  /\ rcuUsers' = [rcuUsers EXCEPT ![t] = @ - 1]
  /\ rcu' = IF rcuUsers[t] = 1 THEN rcu \cup {<<"put", t>>} ELSE rcu

\* external: the task becomes a zombie.
Exit(t) ==
  /\ step[t] = "run"
  /\ step' = [step EXCEPT ![t] = "zombie"]
  /\ UNCHANGED <<tries, freeing, stackVars, refVars, countVars, warned>>

\* external: release_task, by the parent or by the task itself.  The leader is
\* released after the other threads of its group, and it is a process less.
Reap(t, c) ==
  /\ t \in hashed
  /\ step[t] # "run"
  /\ IF group[t] = t
     THEN /\ \A u \in hashed : group[u] = t => u = t
          /\ processCounts[c] > -CountBound
          /\ processCounts' = [processCounts EXCEPT ![c] = @ - 1]
     ELSE UNCHANGED processCounts
  /\ group' = [group EXCEPT ![t] = t]
  /\ hashed' = hashed \ {t}
  /\ nrThreads' = nrThreads - 1
  /\ PutRcuUser(t)
  /\ UNCHANGED <<step, tries, freeing, stackVars, stackRefs, usage, readers, maxThreads, warned>>

\* external: de_thread, execve by a thread when only the leader is left, and
\* has exited: the thread takes its place, and the leader is reaped as a thread.
DeThread(t) ==
  /\ step[t] = "run"
  /\ group[t] # t
  /\ step[group[t]] # "run"
  /\ \A u \in hashed : group[u] = group[t] => u \in {t, group[t]}
  /\ group' = [group EXCEPT ![t] = t, ![group[t]] = t]
  /\ UNCHANGED <<step, tries, freeing, stackVars, refVars, nrThreads, maxThreads, processCounts,
                 warned>>

\* external: finish_task_switch, after the last switch away from the task.
LastSwitch(t) ==
  /\ step[t] = "zombie"
  /\ step' = [step EXCEPT ![t] = "dead"]
  /\ PutTaskStack(t, "scheduler", TRUE)
  /\ UNCHANGED <<stack, cached, data, charged, rcuUsers, usage, hashed, readers, rcu, countVars>>

LastSwitchUser(t) ==
  /\ step[t] = "dead"
  /\ freeing[t] # "scheduler"
  /\ step' = [step EXCEPT ![t] = "gone"]
  /\ PutRcuUser(t)
  /\ UNCHANGED <<tries, freeing, stackVars, stackRefs, usage, hashed, readers, countVars, warned>>

\* free_task: the stack must be gone.
FreeTask(t) ==
  /\ warned' = IF stackRefs[t] # 0 THEN warned \cup {"stack_refcount"} ELSE warned
  /\ step' = [step EXCEPT ![t] = "free"]

\* put_task_struct, and __put_task_struct when it is the last.
PutTask(t) ==
  /\ usage' = [usage EXCEPT ![t] = @ - 1]
  /\ IF usage[t] = 1 THEN FreeTask(t) ELSE UNCHANGED <<step, warned>>

\* __delayed_free_task
DelayedFree(t) ==
  /\ <<"free", t>> \in rcu
  /\ rcu' = rcu \ {<<"free", t>>}
  /\ FreeTask(t)
  /\ UNCHANGED <<tries, freeing, stackVars, stackRefs, rcuUsers, usage, hashed, readers, countVars>>

\* __put_task_struct_rcu_cb
RcuPut(t) ==
  /\ <<"put", t>> \in rcu
  /\ rcu' = rcu \ {<<"put", t>>}
  /\ PutTask(t)
  /\ UNCHANGED <<tries, freeing, stackVars, stackRefs, rcuUsers, hashed, readers, countVars>>

-----------------------------------------------------------------------------
(***************************************************************************)
(* external: a reader, as in /proc/<pid>/stack: a reference to the task,   *)
(* then try_get_task_stack, and both are put in the opposite order.        *)
(***************************************************************************)
ReaderGet(t) ==
  /\ t \in hashed \cap Watched
  /\ readers[t] = {}
  /\ readers' = [readers EXCEPT ![t] = {"task"}]
  /\ usage' = [usage EXCEPT ![t] = @ + 1]
  /\ UNCHANGED <<step, tries, freeing, stackVars, stackRefs, rcuUsers, hashed, rcu,
                 countVars, warned>>

ReaderGetStack(t) ==
  /\ readers[t] = {"task"}
  /\ stackRefs[t] > 0
  /\ readers' = [readers EXCEPT ![t] = {"task", "stack"}]
  /\ stackRefs' = [stackRefs EXCEPT ![t] = @ + 1]
  /\ UNCHANGED <<step, tries, freeing, stackVars, rcuUsers, usage, hashed, rcu, countVars, warned>>

ReaderPutStack(t) ==
  /\ "stack" \in readers[t]
  /\ readers' = [readers EXCEPT ![t] = {"task"}]
  /\ PutTaskStack(t, "reader", Dead(t))
  /\ UNCHANGED <<step, stack, cached, data, charged, rcuUsers, usage, hashed, rcu, countVars>>

ReaderPut(t) ==
  /\ readers[t] = {"task"}
  /\ freeing[t] # "reader"
  /\ readers' = [readers EXCEPT ![t] = {}]
  /\ PutTask(t)
  /\ UNCHANGED <<tries, freeing, stackVars, stackRefs, rcuUsers, hashed, rcu, countVars>>

TaskNext ==
  \/ \E t \in Tasks :
       \/ AllocTask(t) \/ AllocFails(t) \/ DupTask(t) \/ DupTaskFails(t) \/ Vfree(t)
       \/ CheckLimit(t) \/ BadForkFree(t) \/ DelayedFreeTask(t)
       \/ Exit(t) \/ LastSwitch(t) \/ LastSwitchUser(t) \/ DelayedFree(t) \/ RcuPut(t)
       \/ ReaderGet(t) \/ ReaderGetStack(t) \/ ReaderPutStack(t) \/ ReaderPut(t)
       \/ DeThread(t)
       \/ \E c \in Cpus :
            \/ AllocCached(t, c) \/ FreeIntoCache(t, c) \/ Reap(t, c)
            \/ \E leader \in Tasks : PublishTask(t, c, leader)
       \/ \E s \in Stacks : Vmalloc(t, s)
       \/ \E n \in 0 .. StackPages : Charge(t, n)
  \/ \E c \in Cpus : FreeCache(c)
  \/ \E n \in 1 .. MaxThreads : SysctlMaxThreads(n)

TaskSpec == TaskInit /\ [][TaskNext]_taskVars

-----------------------------------------------------------------------------
\* The type invariant of the tasks, their stacks and their counters.
TaskTypeOK ==
  /\ step \in [Tasks -> {"free", "alloc", "charge", "dup", "free_stack", "new", "allowed",
                         "bad_fork", "run", "zombie", "dead", "gone"}]
  /\ tries \in [Tasks -> 1 .. NrCachedStacks + 1]
  /\ freeing \in [Tasks -> {"nobody", "dup", "fork", "scheduler", "reader"}]
  /\ stack \in [Tasks -> Stacks \cup {NoStack}]
  /\ stackRefs \in [Tasks -> 0 .. 2] /\ rcuUsers \in [Tasks -> 0 .. 2]
  /\ usage \in [Tasks -> 0 .. 2]
  /\ hashed \subseteq Tasks
  /\ readers \in [Tasks -> SUBSET {"task", "stack"}]
  /\ cached \in [Cpus -> [Slots -> Stacks \cup {NoStack}]]
  /\ data \in [Stacks -> Tasks \cup {NoStack}]
  /\ charged \in [Stacks -> 0 .. StackPages]
  /\ counted \subseteq Stacks
  /\ rcu \subseteq {"free", "put"} \X Tasks
  /\ nrThreads \in Nat /\ maxThreads \in 1 .. MaxThreads
  /\ processCounts \in [Cpus -> Int]
  /\ group \in [Tasks -> Tasks]

\* The places that may hand a stack on or work on it: the tasks that are built
\* or counted, those whose stack is being freed, and the slots of the caches.
Holders(s) ==
  {t \in Tasks : stack[t] = s} \cup {x \in Cpus \X Slots : cached[x[1]][x[2]] = s}

\* The kernel stacks in the face of reuse: a stack has one holder, so that no
\* two tasks run on it and no task runs on a cached one; a task never finds
\* the data of another one on its stack; and a stack in a cache is charged to
\* nobody and counted nowhere, while that of a task is charged in full.
StacksExact ==
  /\ \A s \in Stacks : Cardinality(Holders(s)) <= 1
  /\ \A t \in Tasks : stackRefs[t] > 0 => data[stack[t]] \in {t, NoStack}
  /\ \A c \in Cpus, i \in Slots : cached[c][i] # NoStack =>
        charged[cached[c][i]] = 0 /\ cached[c][i] \notin counted
  /\ \A t \in Tasks : step[t] \in {"new", "allowed", "run", "zombie"} =>
        charged[stack[t]] = StackPages /\ stack[t] \in counted

\* The tasks that are processes.
Leaders == {t \in hashed : group[t] = t}

\* The counters and the WARN_ONs of fork.c: a task_struct is freed without a
\* stack and without a reader, a stack only when its task is dead; nr_threads
\* counts the tasks, and the counters of the CPUs add up to the processes,
\* although one may be counted on one CPU and discounted on another, is not
\* discounted while a thread of it is left, and may get another leader.
TasksExact ==
  /\ warned = {}
  /\ \A t \in Tasks : step[t] = "free" => readers[t] = {} /\ stack[t] = NoStack
  /\ nrThreads = Cardinality(hashed)
  /\ NrProcesses = Cardinality(Leaders)
  /\ \A t \in hashed : group[t] \in Leaders
=============================================================================
