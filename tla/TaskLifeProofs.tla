--------------------------- MODULE TaskLifeProofs ---------------------------
(***************************************************************************)
(* Kernel stacks and task_structs, for any tasks, CPUs and stacks.  IInv   *)
(* has two parts for each task, the references to it (RefInv) and what     *)
(* they say about its stack (HoldInv), and four about all of them: a stack *)
(* is in one place, a cached one is uncharged, a counted one is used, and  *)
(* the threads are the tasks that a lookup finds, whose leaders each CPU   *)
(* counts, those it started less those it reaped, even if less than none.  *)
(***************************************************************************)
EXTENDS TaskLife, FiniteSetTheorems, WellFoundedInduction, TLAPS

\* A reference that is there counts one.
One(b) == IF b THEN 1 ELSE 0

\* A stack that was allocated and has no reference yet, the task's own
\* reference to its stack, and the one reference all rcu_users share.
Building(t) == step[t] \in {"charge", "dup"}
OnStack(t) == step[t] \in {"new", "allowed", "run", "zombie"}
Base(t) == \/ step[t] \in {"new", "allowed", "bad_fork", "run", "zombie", "dead"}
           \/ step[t] = "gone" /\ (t \in hashed \/ <<"put", t>> \in rcu)

\* Each counter is the number of references that are there: to the stack, by
\* the rcu_users, and to the task; and the callbacks wait only for dead tasks.
RefInv(t) ==
  /\ readers[t] \in {{}, {"task"}, {"task", "stack"}}
  /\ stackRefs[t] = One(OnStack(t)) + One("stack" \in readers[t])
  /\ readers[t] # {} \/ t \in hashed => step[t] \in {"run", "zombie", "dead", "gone"}
  /\ step[t] = "run" => t \in hashed
  /\ step[t] \in {"new", "allowed"} => rcuUsers[t] = 2
  /\ step[t] \in {"run", "zombie", "dead", "gone"} =>
       rcuUsers[t] = One(t \in hashed) + One(step[t] # "gone")
  /\ step[t] \in {"new", "allowed", "bad_fork", "run", "zombie", "dead", "gone"} =>
       usage[t] = One(Base(t)) + One(readers[t] # {}) /\ usage[t] > 0
  /\ <<"put", t>> \in rcu => step[t] = "gone" /\ t \notin hashed
  /\ <<"free", t>> \in rcu => step[t] = "bad_fork" /\ freeing[t] # "fork"

\* free_thread_stack runs after the last reference to the stack was put, by
\* the one who put it.
FreeInv(t) ==
  /\ freeing[t] = "dup" <=> step[t] = "free_stack"
  /\ freeing[t] = "fork" => step[t] = "bad_fork"
  /\ freeing[t] = "scheduler" => step[t] = "dead"
  /\ freeing[t] = "reader" => step[t] \in {"dead", "gone"} /\ readers[t] # {}
  /\ freeing[t] # "nobody" => stackRefs[t] = 0

\* A task has a stack while it is built, referred to or freed; its data, its
\* charge and its count are those of the task.
HoldInv(t) ==
  /\ stack[t] # NoStack <=> Building(t) \/ stackRefs[t] > 0 \/ freeing[t] # "nobody"
  /\ Building(t) => data[stack[t]] = NoStack
  /\ stackRefs[t] > 0 => data[stack[t]] \in {t, NoStack} /\ stack[t] \in counted
  /\ step[t] = "dup" \/ OnStack(t) => charged[stack[t]] = StackPages

\* All that is said of one task.
Of(t) == RefInv(t) /\ FreeInv(t) /\ HoldInv(t)

\* A stack is in one place.
OwnInv ==
  /\ \A t, u \in Tasks : stack[t] # NoStack /\ stack[t] = stack[u] => t = u
  /\ \A c, d \in Cpus : \A i, j \in Slots :
       cached[c][i] # NoStack /\ cached[c][i] = cached[d][j] => c = d /\ i = j
  /\ \A t \in Tasks : \A c \in Cpus : \A i \in Slots :
       stack[t] # NoStack => cached[c][i] # stack[t]

\* A cached stack is charged to nobody.
CacheInv ==
  \A c \in Cpus : \A i \in Slots : cached[c][i] # NoStack => charged[cached[c][i]] = 0

\* A counted stack is somebody's.
CountedInv ==
  \A s \in counted : \E t \in Tasks : stack[t] = s /\ stackRefs[t] > 0

\* s holds the partial sums of the counters.
PartialSums(s, counts) ==
  s = [i \in 0 .. NrCpus |-> IF i = 0 THEN 0 ELSE s[i - 1] + counts[i - 1]]

\* The counters of the CPUs add up to n.
AddUpTo(counts, n) ==
  \E s \in [0 .. NrCpus -> Int] : PartialSums(s, counts) /\ s[NrCpus] = n

\* nr_threads counts the tasks a lookup finds, all CPUs together those that are
\* leaders, and a task has a leader for as long as it is found.
ThreadInv ==
  /\ IsFiniteSet(hashed) /\ nrThreads = Cardinality(hashed)
  /\ AddUpTo(processCounts, Cardinality(Leaders))
  /\ \A t \in hashed : group[t] \in Leaders

\* The inductive invariant.
IInv ==
  /\ TaskTypeOK /\ warned = {}
  /\ \A t \in Tasks : Of(t)
  /\ OwnInv /\ CacheInv /\ CountedInv /\ ThreadInv

-----------------------------------------------------------------------------
\* Nothing changes for the references to u.
SameRefs(u) ==
  /\ step'[u] = step[u] /\ freeing'[u] = freeing[u] /\ stackRefs'[u] = stackRefs[u]
  /\ rcuUsers'[u] = rcuUsers[u] /\ usage'[u] = usage[u] /\ readers'[u] = readers[u]
  /\ u \in hashed' <=> u \in hashed
  /\ <<"put", u>> \in rcu' <=> <<"put", u>> \in rcu
  /\ <<"free", u>> \in rcu' <=> <<"free", u>> \in rcu

\* Nothing changes for the stack of u.
SameStack(u) ==
  /\ stack'[u] = stack[u]
  /\ stack[u] # NoStack => /\ data'[stack[u]] = data[stack[u]]
                           /\ charged'[stack[u]] = charged[stack[u]]
                           /\ stack[u] \in counted' <=> stack[u] \in counted

\* The least element of a set of naturals.
LEMMA LeastNat ==
  ASSUME NEW T, T \subseteq Nat, T # {}
  PROVE  \E i \in T : \A j \in T : ~(j < i)
<1> DEFINE R == {x \in Nat \X Nat : x[1] < x[2]}
<1>1. IsWellFoundedOn(R, Nat)
  BY NatLessThanWellFounded DEF OpToRel
<1> HIDE DEF R
<1>2. \E i \in T : \A j \in T : ~(<<j, i>> \in R)
  BY <1>1, WFMin, Zenon
<1> QED
  BY <1>2 DEF R

\* The loop of nr_processes finds the last of the partial sums, whichever
\* function they are given by: the least CPU where two of them differ would be
\* one where they do not.
LEMMA LoopAddsUp ==
  ASSUME Sizes, NEW n, AddUpTo(processCounts, n)
  PROVE  NrProcesses = n
<1>1. PICK s \in [0 .. NrCpus -> Int] : PartialSums(s, processCounts) /\ s[NrCpus] = n
  BY DEF AddUpTo
<1> DEFINE f == CHOOSE g : PartialSums(g, processCounts)
<1>2. PartialSums(f, processCounts)
  BY <1>1, Zenon
<1>3. NrProcesses = f[NrCpus]
  BY DEF NrProcesses, PartialSums
<1> HIDE DEF f
<1>4. ASSUME NEW k \in 0 .. NrCpus, f[k] # s[k] PROVE FALSE
  <2> DEFINE T == {i \in 0 .. NrCpus : f[i] # s[i]}
  <2>0. T \subseteq Nat /\ T # {}
    BY <1>4 DEF Sizes
  <2> HIDE DEF T
  <2>1. PICK i \in T : \A j \in T : ~(j < i)
    BY <2>0, LeastNat
  <2> USE DEF T
  <2>2. i # 0
    BY <1>1, <1>2 DEF PartialSums
  <2>3. i - 1 \in 0 .. NrCpus /\ f[i - 1] = s[i - 1]
    BY <2>1, <2>2 DEF Sizes
  <2> QED
    BY <1>1, <1>2, <2>2, <2>3 DEF PartialSums
<1> QED
  BY <1>1, <1>3, <1>4 DEF Sizes

\* No process is counted yet.
LEMMA NoneCounted ==
  ASSUME Sizes, processCounts = [c \in Cpus |-> 0]
  PROVE  AddUpTo(processCounts, 0)
<1> DEFINE s == [i \in 0 .. NrCpus |-> 0]
<1>1. s \in [0 .. NrCpus -> Int] /\ s[NrCpus] = 0
  BY DEF Sizes
<1>2. PartialSums(s, processCounts)
  <2>1. ASSUME NEW i \in 0 .. NrCpus, i # 0 PROVE i - 1 \in Cpus /\ i - 1 \in 0 .. NrCpus
    BY <2>1 DEF Cpus, Sizes
  <2> QED
    BY <2>1 DEF PartialSums
<1> QED
  BY <1>1, <1>2 DEF AddUpTo

\* One CPU counts one process more, or one less: the sums up to it stay, those
\* beyond it move with it.
LEMMA OneMoves ==
  ASSUME Sizes, NEW counts \in [Cpus -> Int], NEW c \in Cpus, NEW n \in Int, NEW d \in Int,
         AddUpTo(counts, n)
  PROVE  AddUpTo([counts EXCEPT ![c] = @ + d], n + d)
<1>1. PICK s \in [0 .. NrCpus -> Int] : PartialSums(s, counts) /\ s[NrCpus] = n
  BY DEF AddUpTo
<1> DEFINE r == [i \in 0 .. NrCpus |-> IF i > c THEN s[i] + d ELSE s[i]]
           moved == [counts EXCEPT ![c] = @ + d]
<1>2. c \in Nat /\ c < NrCpus /\ NrCpus \in Nat
  BY DEF Cpus, Sizes
<1>3. r \in [0 .. NrCpus -> Int] /\ r[NrCpus] = n + d
  BY <1>1, <1>2
<1>4. ASSUME NEW i \in 0 .. NrCpus
      PROVE  r[i] = IF i = 0 THEN 0 ELSE r[i - 1] + moved[i - 1]
  <2>1. CASE i = 0
    BY <1>1, <1>2, <2>1 DEF PartialSums
  <2>2. CASE i # 0
    <3>1. i - 1 \in 0 .. NrCpus /\ i - 1 \in Cpus
      BY <1>2, <2>2 DEF Cpus
    <3>2. s[i] = s[i - 1] + counts[i - 1]
      BY <1>1, <2>2 DEF PartialSums
    <3>3. s[i] \in Int /\ s[i - 1] \in Int /\ counts[i - 1] \in Int
      BY <3>1
    <3>4. CASE i - 1 = c
      <4>1. r[i] = s[i] + d /\ r[i - 1] = s[i - 1]
        BY <1>2, <3>1, <3>4
      <4>2. moved[i - 1] = counts[i - 1] + d
        BY <3>1, <3>4
      <4> QED
        BY <2>2, <3>2, <3>3, <4>1, <4>2
    <3>5. CASE i - 1 # c
      <4>1. moved[i - 1] = counts[i - 1]
        BY <3>1, <3>5
      <4>2. \/ r[i] = s[i] + d /\ r[i - 1] = s[i - 1] + d
            \/ r[i] = s[i] /\ r[i - 1] = s[i - 1]
        BY <1>2, <3>1, <3>5
      <4> QED
        BY <2>2, <3>2, <3>3, <4>1, <4>2
    <3> QED
      BY <3>4, <3>5
  <2> QED
    BY <2>1, <2>2
<1>5. PartialSums(r, moved)
  <2> DEFINE q == [i \in 0 .. NrCpus |-> IF i = 0 THEN 0 ELSE r[i - 1] + moved[i - 1]]
  <2>1. \A i \in 0 .. NrCpus : r[i] = q[i]
    BY <1>4
  <2>2. r = [i \in 0 .. NrCpus |-> r[i]] /\ q = [i \in 0 .. NrCpus |-> q[i]]
    OBVIOUS
  <2> HIDE DEF r, moved
  <2> QED
    BY <2>1, <2>2 DEF PartialSums
<1> HIDE DEF r, moved
<1> QED
  BY <1>3, <1>5 DEF AddUpTo, moved

\* A task that a step is not about.
LEMMA SameKept ==
  ASSUME NEW u \in Tasks, Of(u), SameRefs(u), SameStack(u)
  PROVE  Of(u)'
<1>1. /\ Building(u)' <=> Building(u)
      /\ OnStack(u)' <=> OnStack(u)
      /\ Base(u)' <=> Base(u)
  BY DEF SameRefs, Building, OnStack, Base
<1>2. RefInv(u)'
  BY <1>1 DEF SameRefs, Of, RefInv, One
<1>3. FreeInv(u)'
  BY DEF SameRefs, Of, FreeInv
<1>4. HoldInv(u)'
  <2>1. Building(u) \/ stackRefs[u] > 0 \/ step[u] = "dup" \/ OnStack(u) => stack[u] # NoStack
    BY DEF Of, RefInv, HoldInv, OnStack, Building, One
  <2> QED
    BY <1>1, <2>1 DEF SameRefs, SameStack, Of, HoldInv
<1> QED
  BY <1>2, <1>3, <1>4 DEF Of

\* A step about the task t.
LEMMA StepKeeps ==
  ASSUME IInv, NEW t \in Tasks, TaskTypeOK', warned' = {},
         \A u \in Tasks \ {t} : SameRefs(u) /\ SameStack(u), Of(t)',
         OwnInv', CacheInv', CountedInv', ThreadInv'
  PROVE  IInv'
  BY SameKept DEF IInv

\* A step that moves no stack.
LEMMA RefStepKeeps ==
  ASSUME IInv, NEW t \in Tasks, TaskTypeOK', warned' = {}, UNCHANGED stackVars,
         \A u \in Tasks \ {t} : SameRefs(u), RefInv(t)', FreeInv(t)',
         Building(t) <=> Building(t)', stackRefs[t] > 0 <=> stackRefs'[t] > 0,
         freeing[t] = "nobody" <=> freeing'[t] = "nobody",
         step'[t] = "dup" \/ OnStack(t)' => step[t] = "dup" \/ OnStack(t),
         ThreadInv'
  PROVE  IInv'
<1>1. stack' = stack /\ cached' = cached /\ data' = data /\ charged' = charged
      /\ counted' = counted
  BY DEF stackVars
<1>2. HoldInv(t)'
  BY <1>1 DEF IInv, Of, HoldInv
<1>3. OwnInv' /\ CacheInv'
  BY <1>1 DEF IInv, OwnInv, CacheInv
<1>4. CountedInv'
  <2> SUFFICES ASSUME NEW s \in counted PROVE \E u \in Tasks : stack[u] = s /\ stackRefs'[u] > 0
    BY <1>1 DEF CountedInv
  <2>1. PICK u \in Tasks : stack[u] = s /\ stackRefs[u] > 0
    BY DEF IInv, CountedInv
  <2>2. stackRefs'[u] > 0
    BY <2>1 DEF SameRefs
  <2> QED
    BY <2>1, <2>2
<1>5. \A u \in Tasks \ {t} : SameStack(u)
  BY <1>1 DEF SameStack
<1> QED
  BY <1>2, <1>3, <1>4, <1>5, StepKeeps DEF Of

\* alloc_task_struct_node.
LEMMA AllocTaskKeeps ==
  ASSUME Sizes, IInv, NEW t \in Tasks, AllocTask(t)
  PROVE  IInv'
<1> USE DEF AllocTask, stackVars, refVars, countVars
<1>1. RefInv(t)' /\ FreeInv(t)'
  <2> USE DEF IInv, TaskTypeOK, Of
  <2>1. RefInv(t)'
    BY DEF RefInv, FreeInv, Base, OnStack, One
  <2>2. FreeInv(t)'
    BY DEF RefInv, FreeInv, Base, OnStack, One
  <2> QED
    BY <2>1, <2>2
<1>2. TaskTypeOK' /\ warned' = {}
  BY DEF Sizes, IInv, TaskTypeOK
<1>3. ASSUME NEW u \in Tasks \ {t} PROVE SameRefs(u)
  BY DEF IInv, TaskTypeOK, SameRefs
<1>4. ThreadInv' /\ UNCHANGED stackVars
  BY DEF IInv, ThreadInv, Leaders
<1>5. /\ Building(t) <=> Building(t)'
      /\ stackRefs[t] > 0 <=> stackRefs'[t] > 0
      /\ freeing[t] = "nobody" <=> freeing'[t] = "nobody"
      /\ step'[t] = "dup" \/ OnStack(t)' => step[t] = "dup" \/ OnStack(t)
  BY DEF IInv, TaskTypeOK, Building, OnStack
<1> QED
  BY <1>1, <1>2, <1>3, <1>4, <1>5, RefStepKeeps

\* No stack: free_tsk.
LEMMA AllocFailsKeeps ==
  ASSUME Sizes, IInv, NEW t \in Tasks, AllocFails(t)
  PROVE  IInv'
<1> USE DEF AllocFails, stackVars, refVars, countVars
<1>1. RefInv(t)' /\ FreeInv(t)'
  <2> USE DEF IInv, TaskTypeOK, Of
  <2>1. RefInv(t)'
    BY DEF RefInv, FreeInv, Base, OnStack, One
  <2>2. FreeInv(t)'
    BY DEF RefInv, FreeInv, Base, OnStack, One
  <2> QED
    BY <2>1, <2>2
<1>2. TaskTypeOK' /\ warned' = {}
  BY DEF Sizes, IInv, TaskTypeOK
<1>3. ASSUME NEW u \in Tasks \ {t} PROVE SameRefs(u)
  BY DEF IInv, TaskTypeOK, SameRefs
<1>4. ThreadInv' /\ UNCHANGED stackVars
  BY DEF IInv, ThreadInv, Leaders
<1>5. /\ Building(t) <=> Building(t)'
      /\ stackRefs[t] > 0 <=> stackRefs'[t] > 0
      /\ freeing[t] = "nobody" <=> freeing'[t] = "nobody"
      /\ step'[t] = "dup" \/ OnStack(t)' => step[t] = "dup" \/ OnStack(t)
  BY DEF IInv, TaskTypeOK, Building, OnStack
<1> QED
  BY <1>1, <1>2, <1>3, <1>4, <1>5, RefStepKeeps

\* The limit is compared.
LEMMA CheckLimitKeeps ==
  ASSUME Sizes, IInv, NEW t \in Tasks, CheckLimit(t)
  PROVE  IInv'
<1> USE DEF CheckLimit, stackVars, refVars, countVars
<1>1. RefInv(t)' /\ FreeInv(t)'
  <2> USE DEF IInv, TaskTypeOK, Of
  <2>1. RefInv(t)'
    BY DEF RefInv, FreeInv, Base, OnStack, One
  <2>2. FreeInv(t)'
    BY DEF RefInv, FreeInv, Base, OnStack, One
  <2> QED
    BY <2>1, <2>2
<1>2. TaskTypeOK' /\ warned' = {}
  BY DEF Sizes, IInv, TaskTypeOK
<1>3. ASSUME NEW u \in Tasks \ {t} PROVE SameRefs(u)
  BY DEF IInv, TaskTypeOK, SameRefs
<1>4. ThreadInv' /\ UNCHANGED stackVars
  BY DEF IInv, ThreadInv, Leaders
<1>5. /\ Building(t) <=> Building(t)'
      /\ stackRefs[t] > 0 <=> stackRefs'[t] > 0
      /\ freeing[t] = "nobody" <=> freeing'[t] = "nobody"
      /\ step'[t] = "dup" \/ OnStack(t)' => step[t] = "dup" \/ OnStack(t)
  BY DEF IInv, TaskTypeOK, Building, OnStack
<1> QED
  BY <1>1, <1>2, <1>3, <1>4, <1>5, RefStepKeeps

\* The task that failed waits for a grace period.
LEMMA DelayedFreeTaskKeeps ==
  ASSUME Sizes, IInv, NEW t \in Tasks, DelayedFreeTask(t)
  PROVE  IInv'
<1> USE DEF DelayedFreeTask, stackVars, refVars, countVars
<1>1. RefInv(t)' /\ FreeInv(t)'
  <2> USE DEF IInv, TaskTypeOK, Of
  <2>1. RefInv(t)'
    BY DEF RefInv, FreeInv, Base, OnStack, One
  <2>2. FreeInv(t)'
    BY DEF RefInv, FreeInv, Base, OnStack, One
  <2> QED
    BY <2>1, <2>2
<1>2. TaskTypeOK' /\ warned' = {}
  BY DEF Sizes, IInv, TaskTypeOK
<1>3. ASSUME NEW u \in Tasks \ {t} PROVE SameRefs(u)
  BY DEF IInv, TaskTypeOK, SameRefs
<1>4. ThreadInv' /\ UNCHANGED stackVars
  BY DEF IInv, ThreadInv, Leaders
<1>5. /\ Building(t) <=> Building(t)'
      /\ stackRefs[t] > 0 <=> stackRefs'[t] > 0
      /\ freeing[t] = "nobody" <=> freeing'[t] = "nobody"
      /\ step'[t] = "dup" \/ OnStack(t)' => step[t] = "dup" \/ OnStack(t)
  BY DEF IInv, TaskTypeOK, Building, OnStack
<1> QED
  BY <1>1, <1>2, <1>3, <1>4, <1>5, RefStepKeeps

\* The task becomes a zombie.
LEMMA ExitKeeps ==
  ASSUME Sizes, IInv, NEW t \in Tasks, Exit(t)
  PROVE  IInv'
<1> USE DEF Exit, stackVars, refVars, countVars
<1>1. RefInv(t)' /\ FreeInv(t)'
  <2> USE DEF IInv, TaskTypeOK, Of
  <2>1. RefInv(t)'
    BY DEF RefInv, FreeInv, Base, OnStack, One
  <2>2. FreeInv(t)'
    BY DEF RefInv, FreeInv, Base, OnStack, One
  <2> QED
    BY <2>1, <2>2
<1>2. TaskTypeOK' /\ warned' = {}
  BY DEF Sizes, IInv, TaskTypeOK
<1>3. ASSUME NEW u \in Tasks \ {t} PROVE SameRefs(u)
  BY DEF IInv, TaskTypeOK, SameRefs
<1>4. ThreadInv' /\ UNCHANGED stackVars
  BY DEF IInv, ThreadInv, Leaders
<1>5. /\ Building(t) <=> Building(t)'
      /\ stackRefs[t] > 0 <=> stackRefs'[t] > 0
      /\ freeing[t] = "nobody" <=> freeing'[t] = "nobody"
      /\ step'[t] = "dup" \/ OnStack(t)' => step[t] = "dup" \/ OnStack(t)
  BY DEF IInv, TaskTypeOK, Building, OnStack
<1> QED
  BY <1>1, <1>2, <1>3, <1>4, <1>5, RefStepKeeps

\* What a reader holds, and what that makes of the references to the stack.
LEMMA ReaderCases ==
  ASSUME IInv, NEW t \in Tasks
  PROVE  /\ readers[t] = {} \/ readers[t] = {"task"} \/ readers[t] = {"task", "stack"}
         /\ readers[t] = {} \/ readers[t] = {"task"} => stackRefs[t] = One(OnStack(t))
         /\ readers[t] = {"task", "stack"} <=> "stack" \in readers[t]
         /\ "stack" \in readers[t] => stackRefs[t] = One(OnStack(t)) + 1
<1>1. readers[t] \in {{}, {"task"}, {"task", "stack"}}
      /\ stackRefs[t] = One(OnStack(t)) + One("stack" \in readers[t])
  BY DEF IInv, Of, RefInv
<1>2. readers[t] = {} \/ readers[t] = {"task"} => "stack" \notin readers[t]
  OBVIOUS
<1>3. readers[t] = {"task", "stack"} => "stack" \in readers[t]
  OBVIOUS
<1>4. One(OnStack(t)) \in {0, 1}
  BY DEF One
<1>5. "stack" \notin readers[t] => stackRefs[t] = One(OnStack(t))
  BY <1>1, <1>4 DEF One
<1>6. "stack" \in readers[t] => stackRefs[t] = One(OnStack(t)) + 1
  BY <1>1, <1>4 DEF One
<1> QED
  BY <1>1, <1>2, <1>3, <1>5, <1>6

\* The scheduler puts its rcu_user.
LEMMA LastSwitchUserKeeps ==
  ASSUME IInv, NEW t \in Tasks, LastSwitchUser(t)
  PROVE  IInv'
<1> USE DEF LastSwitchUser, PutRcuUser, stackVars, refVars, countVars
<1>1. /\ step[t] = "dead" /\ freeing[t] # "scheduler" /\ step'[t] = "gone"
      /\ rcuUsers[t] = 1 + One(t \in hashed) /\ rcuUsers'[t] = rcuUsers[t] - 1
  <2>1. step[t] = "dead" /\ freeing[t] # "scheduler"
    OBVIOUS
  <2>2. rcuUsers[t] = 1 + One(t \in hashed)
    <3>1. rcuUsers[t] = One(t \in hashed) + One(step[t] # "gone")
      BY <2>1 DEF IInv, Of, RefInv
    <3> HIDE DEF LastSwitchUser, PutRcuUser
    <3> QED
      BY <2>1, <3>1 DEF One
  <2>3. step'[t] = "gone" /\ rcuUsers'[t] = rcuUsers[t] - 1
    BY DEF IInv, TaskTypeOK
  <2> QED
    BY <2>1, <2>2, <2>3
<1>2. RefInv(t)' /\ FreeInv(t)'
  <2> USE DEF IInv, TaskTypeOK, Of
  <2>1. RefInv(t)'
    BY <1>1 DEF RefInv, FreeInv, Base, OnStack, One
  <2>2. FreeInv(t)'
    BY <1>1 DEF RefInv, FreeInv, Base, OnStack, One
  <2> QED
    BY <2>1, <2>2
<1>3. TaskTypeOK' /\ warned' = {}
  <2>1. rcuUsers' \in [Tasks -> 0 .. 2]
    BY <1>1 DEF IInv, TaskTypeOK, One
  <2>2. rcu' \subseteq {"free", "put"} \X Tasks
    BY DEF IInv, TaskTypeOK
  <2> QED
    BY <2>1, <2>2 DEF IInv, TaskTypeOK
<1>4. ASSUME NEW u \in Tasks \ {t} PROVE SameRefs(u)
  BY DEF IInv, TaskTypeOK, SameRefs
<1>5. ThreadInv' /\ UNCHANGED stackVars
  BY DEF IInv, ThreadInv, Leaders
<1>6. /\ Building(t) <=> Building(t)'
      /\ stackRefs[t] > 0 <=> stackRefs'[t] > 0
      /\ freeing[t] = "nobody" <=> freeing'[t] = "nobody"
      /\ step'[t] = "dup" \/ OnStack(t)' => step[t] = "dup" \/ OnStack(t)
  BY <1>1 DEF Building, OnStack
<1> QED
  BY <1>2, <1>3, <1>4, <1>5, <1>6, RefStepKeeps

\* A task whose last reference is put has no stack and no reader left.
LEMMA LastReference ==
  ASSUME IInv, NEW t \in Tasks,
         \/ <<"free", t>> \in rcu
         \/ /\ step[t] = "gone" /\ usage[t] = 1 /\ freeing[t] # "reader"
            /\ readers[t] # {"task", "stack"}
  PROVE  stackRefs[t] = 0 /\ freeing[t] = "nobody" /\ step[t] \in {"bad_fork", "gone"}
<1>1. CASE <<"free", t>> \in rcu
  <2>1. step[t] = "bad_fork" /\ freeing[t] # "fork" /\ ~OnStack(t)
    BY <1>1 DEF IInv, Of, RefInv, OnStack
  <2>2. readers[t] = {}
    BY <2>1 DEF IInv, Of, RefInv
  <2>3. stackRefs[t] = 0
    BY <2>1, <2>2, ReaderCases DEF One
  <2>4. freeing[t] = "nobody"
    BY <2>1 DEF IInv, TaskTypeOK, Of, FreeInv
  <2> QED
    BY <2>1, <2>3, <2>4
<1>2. CASE step[t] = "gone" /\ usage[t] = 1 /\ freeing[t] # "reader"
           /\ readers[t] # {"task", "stack"}
  <2>1. stackRefs[t] = 0
    <3>1. ~OnStack(t)
      BY <1>2 DEF OnStack
    <3> QED
      BY <1>2, <3>1, ReaderCases DEF One
  <2>2. freeing[t] = "nobody"
    BY <1>2 DEF IInv, TaskTypeOK, Of, FreeInv
  <2> QED
    BY <1>2, <2>1, <2>2
<1> QED
  BY <1>1, <1>2

\* The task that failed is freed.
LEMMA DelayedFreeKeeps ==
  ASSUME IInv, NEW t \in Tasks, DelayedFree(t)
  PROVE  IInv'
<1> USE DEF DelayedFree, FreeTask, stackVars, refVars, countVars
<1>1. /\ stackRefs[t] = 0 /\ freeing[t] = "nobody" /\ step[t] = "bad_fork"
      /\ readers[t] = {} /\ t \notin hashed /\ <<"put", t>> \notin rcu
      /\ step'[t] = "free" /\ <<"put", t>> \notin rcu' /\ <<"free", t>> \notin rcu'
  BY LastReference DEF IInv, TaskTypeOK, Of, RefInv
<1>2. RefInv(t)' /\ FreeInv(t)'
  BY <1>1 DEF RefInv, FreeInv, OnStack, One
<1>3. TaskTypeOK' /\ warned' = {}
  BY <1>1 DEF IInv, TaskTypeOK
<1>4. ASSUME NEW u \in Tasks \ {t} PROVE SameRefs(u)
  BY DEF IInv, TaskTypeOK, SameRefs
<1>5. ThreadInv' /\ UNCHANGED stackVars
  BY DEF IInv, ThreadInv, Leaders
<1>6. /\ Building(t) <=> Building(t)'
      /\ stackRefs[t] > 0 <=> stackRefs'[t] > 0
      /\ freeing[t] = "nobody" <=> freeing'[t] = "nobody"
      /\ step'[t] = "dup" \/ OnStack(t)' => step[t] = "dup" \/ OnStack(t)
  BY <1>1 DEF Building, OnStack
<1> QED
  BY <1>2, <1>3, <1>4, <1>5, <1>6, RefStepKeeps

\* The reference of the rcu_users is put, maybe the last one.
LEMMA RcuPutKeeps ==
  ASSUME IInv, NEW t \in Tasks, RcuPut(t)
  PROVE  IInv'
<1> USE DEF RcuPut, PutTask, FreeTask, stackVars, refVars, countVars
<1>1. /\ step[t] = "gone" /\ t \notin hashed /\ <<"free", t>> \notin rcu
      /\ <<"put", t>> \in rcu /\ usage[t] = 1 + One(readers[t] # {})
      /\ rcuUsers[t] = 0
  BY DEF IInv, Of, RefInv, Base, One
<1>2. /\ <<"put", t>> \notin rcu' /\ <<"free", t>> \notin rcu' /\ readers' = readers
      /\ hashed' = hashed /\ freeing' = freeing /\ stackRefs' = stackRefs
      /\ rcuUsers' = rcuUsers /\ usage'[t] = One(readers[t] # {})
  BY <1>1 DEF IInv, TaskTypeOK, One
<1>3. ~OnStack(t) /\ stackRefs[t] = One("stack" \in readers[t])
  BY <1>1 DEF IInv, Of, RefInv, OnStack, One
<1>4. CASE readers[t] = {}
  <2>1. stackRefs[t] = 0 /\ freeing[t] = "nobody"
    BY <1>1, <1>4, LastReference DEF IInv, Of, RefInv, FreeInv, One
  <2>2. step'[t] = "free" /\ warned' = {}
    BY <1>1, <1>4, <2>1 DEF IInv, TaskTypeOK, One
  <2>3. RefInv(t)' /\ FreeInv(t)'
    BY <1>1, <1>2, <1>4, <2>1, <2>2 DEF RefInv, FreeInv, OnStack, One
  <2>4. TaskTypeOK'
    <3>1. usage[t] = 1 /\ usage' = [usage EXCEPT ![t] = usage[t] - 1]
          /\ step' = [step EXCEPT ![t] = "free"]
      BY <1>1, <1>4 DEF One
    <3>2. usage' \in [Tasks -> 0 .. 2]
      BY <3>1 DEF IInv, TaskTypeOK
    <3> QED
      BY <1>2, <3>1, <3>2 DEF IInv, TaskTypeOK
  <2>5. ASSUME NEW u \in Tasks \ {t} PROVE SameRefs(u)
    BY <1>1, <1>4 DEF IInv, TaskTypeOK, SameRefs, One
  <2>6. ThreadInv' /\ UNCHANGED stackVars
    BY DEF IInv, ThreadInv, Leaders
  <2>7. /\ Building(t) <=> Building(t)'
        /\ stackRefs[t] > 0 <=> stackRefs'[t] > 0
        /\ freeing[t] = "nobody" <=> freeing'[t] = "nobody"
        /\ step'[t] = "dup" \/ OnStack(t)' => step[t] = "dup" \/ OnStack(t)
    BY <1>1, <1>2, <2>2 DEF Building, OnStack
  <2> QED
    BY <2>2, <2>3, <2>4, <2>5, <2>6, <2>7, RefStepKeeps
<1>5. CASE readers[t] # {}
  <2>1. step' = step /\ warned' = {} /\ usage[t] = 2
    BY <1>1, <1>5 DEF IInv, One
  <2>2. RefInv(t)'
    BY <1>1, <1>2, <1>3, <1>5, <2>1 DEF IInv, Of, RefInv, Base, OnStack, One
  <2>3. FreeInv(t)'
    BY <1>2, <2>1 DEF IInv, Of, FreeInv
  <2>4. TaskTypeOK'
    <3>1. usage' \in [Tasks -> 0 .. 2]
      BY <2>1 DEF IInv, TaskTypeOK
    <3> QED
      BY <1>2, <2>1, <3>1 DEF IInv, TaskTypeOK
  <2>5. ASSUME NEW u \in Tasks \ {t} PROVE SameRefs(u)
    BY <2>1 DEF IInv, TaskTypeOK, SameRefs
  <2>6. ThreadInv' /\ UNCHANGED stackVars
    BY DEF IInv, ThreadInv, Leaders
  <2> QED
    BY <1>2, <2>1, <2>2, <2>3, <2>4, <2>5, <2>6, RefStepKeeps DEF Building, OnStack
<1> QED
  BY <1>4, <1>5

\* A reader finds the task.
LEMMA ReaderGetKeeps ==
  ASSUME IInv, NEW t \in Tasks, ReaderGet(t)
  PROVE  IInv'
<1> USE DEF ReaderGet, stackVars, refVars, countVars
<1>1. /\ t \in hashed /\ readers[t] = {} /\ step[t] \in {"run", "zombie", "dead", "gone"}
      /\ usage[t] = 1
  <2>1. /\ t \in hashed /\ readers[t] = {}
        /\ step[t] \in {"run", "zombie", "dead", "gone"}
    BY DEF IInv, Of, RefInv
  <2>2. Base(t)
    BY <2>1 DEF Base
  <2>3. usage[t] = One(Base(t)) + One(readers[t] # {})
    BY <2>1 DEF IInv, Of, RefInv
  <2> HIDE DEF ReaderGet
  <2>4. usage[t] = 1
    BY <2>1, <2>2, <2>3 DEF One
  <2> QED
    BY <2>1, <2>4
<1>2. readers'[t] = {"task"} /\ usage'[t] = 2
  BY <1>1 DEF IInv, TaskTypeOK
<1>3. RefInv(t)' /\ FreeInv(t)'
  <2> USE DEF IInv, TaskTypeOK, Of
  <2>1. RefInv(t)'
    BY <1>1, <1>2 DEF RefInv, Base, OnStack, One
  <2>2. FreeInv(t)'
    BY <1>1, <1>2 DEF FreeInv
  <2> QED
    BY <2>1, <2>2
<1>4. TaskTypeOK' /\ warned' = {}
  <2>1. usage' \in [Tasks -> 0 .. 2]
    BY <1>1 DEF IInv, TaskTypeOK
  <2> QED
    BY <2>1 DEF IInv, TaskTypeOK
<1>5. ASSUME NEW u \in Tasks \ {t} PROVE SameRefs(u)
  BY DEF IInv, TaskTypeOK, SameRefs
<1>6. ThreadInv' /\ UNCHANGED stackVars
  BY DEF IInv, ThreadInv, Leaders
<1> QED
  BY <1>3, <1>4, <1>5, <1>6, RefStepKeeps DEF Building, OnStack

\* A reader takes the stack, while it is counted.
LEMMA ReaderGetStackKeeps ==
  ASSUME IInv, NEW t \in Tasks, ReaderGetStack(t)
  PROVE  IInv'
<1> USE DEF ReaderGetStack, stackVars, refVars, countVars
<1>1. /\ readers[t] = {"task"} /\ stackRefs[t] = 1 /\ OnStack(t)
      /\ freeing[t] = "nobody" /\ step[t] \in {"run", "zombie"}
  <2>1. readers[t] = {"task"} /\ stackRefs[t] > 0
    OBVIOUS
  <2>2. OnStack(t) /\ stackRefs[t] = 1
    BY <2>1, ReaderCases DEF One
  <2>3. step[t] \in {"run", "zombie", "dead", "gone"}
    BY <2>1 DEF IInv, Of, RefInv
  <2>4. freeing[t] = "nobody"
    BY <2>2 DEF IInv, Of, FreeInv
  <2> QED
    BY <2>1, <2>2, <2>3, <2>4 DEF OnStack
<1>2. /\ readers'[t] = {"task", "stack"} /\ stackRefs'[t] = 2 /\ step' = step
      /\ freeing' = freeing /\ rcuUsers' = rcuUsers /\ usage' = usage /\ hashed' = hashed
      /\ rcu' = rcu
  BY <1>1 DEF IInv, TaskTypeOK
<1>3. RefInv(t)'
  BY <1>1, <1>2 DEF IInv, Of, RefInv, Base, OnStack, One
<1>4. FreeInv(t)'
  BY <1>1, <1>2 DEF FreeInv
<1>5. TaskTypeOK' /\ warned' = {}
  <2>1. stackRefs' \in [Tasks -> 0 .. 2] /\ readers' \in [Tasks -> SUBSET {"task", "stack"}]
    BY <1>1 DEF IInv, TaskTypeOK
  <2> QED
    BY <2>1 DEF IInv, TaskTypeOK
<1>6. ASSUME NEW u \in Tasks \ {t} PROVE SameRefs(u)
  BY DEF IInv, TaskTypeOK, SameRefs
<1>7. ThreadInv' /\ UNCHANGED stackVars
  BY DEF IInv, ThreadInv, Leaders
<1> QED
  BY <1>1, <1>2, <1>3, <1>4, <1>5, <1>6, <1>7, RefStepKeeps DEF Building, OnStack

\* A reader puts the task, maybe the last reference.
LEMMA ReaderPutKeeps ==
  ASSUME IInv, NEW t \in Tasks, ReaderPut(t)
  PROVE  IInv'
<1> USE DEF ReaderPut, PutTask, FreeTask, stackVars, refVars, countVars
<1>1. /\ readers[t] = {"task"} /\ freeing[t] # "reader"
      /\ step[t] \in {"run", "zombie", "dead", "gone"} /\ usage[t] = One(Base(t)) + 1
  BY DEF IInv, Of, RefInv, One
<1>2. /\ readers'[t] = {} /\ hashed' = hashed /\ freeing' = freeing /\ stackRefs' = stackRefs
      /\ rcuUsers' = rcuUsers /\ rcu' = rcu /\ usage'[t] = One(Base(t))
  BY <1>1 DEF IInv, TaskTypeOK, One
<1>3. stackRefs[t] = One(OnStack(t)) /\ readers[t] # {"task", "stack"}
  BY <1>1, ReaderCases
<1>4. readers' \in [Tasks -> SUBSET {"task", "stack"}]
  BY DEF IInv, TaskTypeOK
<1>5. CASE ~Base(t)
  <2>1. step[t] = "gone" /\ usage[t] = 1
    BY <1>1, <1>5 DEF Base, One
  <2>2. stackRefs[t] = 0 /\ freeing[t] = "nobody"
    BY <1>1, <1>3, <2>1, LastReference
  <2>3. step'[t] = "free" /\ warned' = {}
    BY <2>1, <2>2 DEF IInv, TaskTypeOK
  <2>4. t \notin hashed /\ <<"put", t>> \notin rcu /\ <<"free", t>> \notin rcu
    BY <1>5, <2>1 DEF Base, IInv, Of, RefInv
  <2>5. RefInv(t)' /\ FreeInv(t)'
    BY <1>2, <2>2, <2>3, <2>4 DEF RefInv, FreeInv, OnStack, One
  <2>6. TaskTypeOK'
    <3>1. usage' \in [Tasks -> 0 .. 2]
      BY <2>1 DEF IInv, TaskTypeOK
    <3>2. step' = [step EXCEPT ![t] = "free"]
      BY <2>1
    <3> QED
      BY <1>2, <1>4, <3>1, <3>2 DEF IInv, TaskTypeOK
  <2>7. ASSUME NEW u \in Tasks \ {t} PROVE SameRefs(u)
    BY <2>1 DEF IInv, TaskTypeOK, SameRefs
  <2>8. ThreadInv' /\ UNCHANGED stackVars
    BY DEF IInv, ThreadInv, Leaders
  <2>9. /\ Building(t) <=> Building(t)'
        /\ step'[t] = "dup" \/ OnStack(t)' => step[t] = "dup" \/ OnStack(t)
    BY <2>1, <2>3 DEF Building, OnStack
  <2> QED
    BY <1>2, <2>3, <2>5, <2>6, <2>7, <2>8, <2>9, RefStepKeeps
<1>6. CASE Base(t)
  <2>1. usage[t] = 2 /\ usage'[t] = 1 /\ step' = step /\ warned' = {}
    BY <1>1, <1>2, <1>6 DEF IInv, One
  <2>2. RefInv(t)'
    <3>1. Base(t)'
      BY <1>2, <1>6, <2>1 DEF Base
    <3> QED
      BY <1>1, <1>2, <1>3, <2>1, <3>1 DEF IInv, Of, RefInv, OnStack, One
  <2>3. FreeInv(t)'
    BY <1>1, <1>2, <2>1 DEF IInv, Of, FreeInv
  <2>4. TaskTypeOK'
    <3>1. usage' \in [Tasks -> 0 .. 2]
      BY <2>1 DEF IInv, TaskTypeOK
    <3> QED
      BY <1>2, <1>4, <2>1, <3>1 DEF IInv, TaskTypeOK
  <2>5. ASSUME NEW u \in Tasks \ {t} PROVE SameRefs(u)
    BY <2>1 DEF IInv, TaskTypeOK, SameRefs
  <2>6. ThreadInv' /\ UNCHANGED stackVars
    BY DEF IInv, ThreadInv, Leaders
  <2> QED
    BY <1>2, <2>1, <2>2, <2>3, <2>4, <2>5, <2>6, RefStepKeeps DEF Building, OnStack
<1> QED
  BY <1>5, <1>6

\* The counter of the CPU c follows a leader that comes.
LEMMA LeaderCounted ==
  ASSUME IInv, NEW t \in Tasks, NEW c \in Cpus, t \notin Leaders, Leaders' = Leaders \cup {t},
         processCounts' = [processCounts EXCEPT ![c] = @ + 1]
  PROVE  AddUpTo(processCounts', Cardinality(Leaders')) /\ processCounts' \in [Cpus -> Int]
<1>1. AddUpTo(processCounts, Cardinality(Leaders)) /\ processCounts \in [Cpus -> Int]
  BY DEF IInv, ThreadInv, TaskTypeOK
<1>2. IsFiniteSet(Leaders)
  BY FS_Subset DEF IInv, ThreadInv, Leaders
<1>3. Cardinality(Leaders) \in Int /\ Cardinality(Leaders') = Cardinality(Leaders) + 1
  <2>1. Cardinality(Leaders) \in Nat
    BY <1>2, FS_CardinalityType
  <2>2. Cardinality(Leaders \cup {t}) = Cardinality(Leaders) + 1
    BY <1>2, FS_AddElement
  <2>3. Cardinality(Leaders \cup {t}) = Cardinality(Leaders')
    OBVIOUS
  <2> QED
    BY <2>1, <2>2, <2>3
<1>4. AddUpTo([processCounts EXCEPT ![c] = @ + 1], Cardinality(Leaders) + 1)
  <2>1. 1 \in Int
    OBVIOUS
  <2> QED
    BY <1>1, <1>3, <2>1, OneMoves, SizesHold, Zenon
<1>5. AddUpTo(processCounts', Cardinality(Leaders'))
  BY <1>3, <1>4
<1> QED
  BY <1>1, <1>5

\* The counter of the CPU c follows a leader that goes.
LEMMA LeaderDiscounted ==
  ASSUME IInv, NEW t \in Leaders, NEW c \in Cpus, Leaders' = Leaders \ {t},
         processCounts' = [processCounts EXCEPT ![c] = @ - 1]
  PROVE  AddUpTo(processCounts', Cardinality(Leaders')) /\ processCounts' \in [Cpus -> Int]
<1>1. AddUpTo(processCounts, Cardinality(Leaders)) /\ processCounts \in [Cpus -> Int]
  BY DEF IInv, ThreadInv, TaskTypeOK
<1>2. IsFiniteSet(Leaders)
  BY FS_Subset DEF IInv, ThreadInv, Leaders
<1>3. Cardinality(Leaders) \in Int /\ Cardinality(Leaders') = Cardinality(Leaders) + (-1)
  <2>1. Cardinality(Leaders) \in Nat
    BY <1>2, FS_CardinalityType
  <2>2. Cardinality(Leaders \ {t}) = Cardinality(Leaders) - 1
    BY <1>2, FS_RemoveElement
  <2>3. Cardinality(Leaders \ {t}) = Cardinality(Leaders')
    OBVIOUS
  <2> QED
    BY <2>1, <2>2, <2>3
<1>4. AddUpTo([processCounts EXCEPT ![c] = @ + (-1)], Cardinality(Leaders) + (-1))
  <2>1. -1 \in Int
    OBVIOUS
  <2> QED
    BY <1>1, <1>3, <2>1, OneMoves, SizesHold, Zenon
<1>5. processCounts' = [processCounts EXCEPT ![c] = @ + (-1)]
  BY <1>1
<1>6. AddUpTo(processCounts', Cardinality(Leaders'))
  BY <1>3, <1>4, <1>5
<1>7. processCounts' \in [Cpus -> Int]
  BY <1>1
<1> QED
  BY <1>6, <1>7

\* The task is published, on the CPU c.
LEMMA PublishKeeps ==
  ASSUME IInv, NEW t \in Tasks, NEW c \in Cpus, NEW leader \in Tasks, PublishTask(t, c, leader)
  PROVE  IInv'
<1> USE DEF PublishTask, stackVars, refVars, countVars
<1>1. /\ step[t] = "allowed" /\ step'[t] = "run" /\ hashed' = hashed \cup {t}
      /\ rcu' = rcu /\ readers' = readers /\ stackRefs' = stackRefs /\ freeing' = freeing
      /\ rcuUsers' = rcuUsers /\ usage' = usage
  BY DEF IInv, TaskTypeOK
<1>2. /\ rcuUsers[t] = 2 /\ readers[t] = {} /\ t \notin hashed
      /\ <<"put", t>> \notin rcu /\ <<"free", t>> \notin rcu
  BY <1>1 DEF IInv, Of, RefInv
<1>3. OnStack(t) /\ OnStack(t)' /\ Base(t) /\ Base(t)'
  BY <1>1 DEF OnStack, Base
<1>4. usage[t] = 1 /\ stackRefs[t] = 1
  <2>1. usage[t] = One(Base(t)) + One(readers[t] # {})
    BY <1>1 DEF IInv, Of, RefInv
  <2> HIDE DEF PublishTask
  <2> QED
    BY <1>2, <1>3, <2>1, ReaderCases DEF One
<1>5. RefInv(t)'
  <2> HIDE DEF PublishTask
  <2> QED
    BY <1>1, <1>2, <1>3, <1>4 DEF RefInv, One
<1>6. FreeInv(t)'
  BY <1>1 DEF IInv, Of, FreeInv
<1>7. ThreadInv' /\ processCounts' \in [Cpus -> Int]
  <2>1. nrThreads' = nrThreads + 1 /\ processCounts \in [Cpus -> Int] /\ group'[t] = leader
        /\ \A u \in Tasks \ {t} : group'[u] = group[u]
    BY DEF IInv, TaskTypeOK
  <2>2. IsFiniteSet(hashed') /\ Cardinality(hashed') = Cardinality(hashed) + 1
    BY <1>1, <1>2, FS_AddElement DEF IInv, ThreadInv
  <2>3. hashed \subseteq Tasks /\ t \notin Leaders
    BY <1>2 DEF IInv, TaskTypeOK, Leaders
  <2>4. CASE leader = t
    <3>1. Leaders' = Leaders \cup {t}
      BY <1>1, <1>2, <2>1, <2>3, <2>4 DEF Leaders
    <3>2. AddUpTo(processCounts', Cardinality(Leaders')) /\ processCounts' \in [Cpus -> Int]
      BY <2>1, <2>3, <2>4, <3>1, LeaderCounted
    <3> QED
      BY <1>1, <1>2, <2>1, <2>2, <2>3, <2>4, <3>1, <3>2 DEF IInv, ThreadInv
  <2>5. CASE leader # t
    <3>1. Leaders' = Leaders /\ processCounts' = processCounts
      BY <1>1, <1>2, <2>1, <2>3, <2>5 DEF Leaders
    <3>2. PICK current \in Tasks : step[current] = "run" /\ group[current] = leader
      BY <2>5
    <3>3. current \in hashed
      BY <3>2 DEF IInv, Of, RefInv
    <3>4. leader \in Leaders
      BY <3>2, <3>3 DEF IInv, ThreadInv
    <3> QED
      BY <1>1, <1>2, <2>1, <2>2, <2>3, <3>1, <3>4 DEF IInv, ThreadInv
  <2> QED
    BY <2>4, <2>5
<1>8. TaskTypeOK' /\ warned' = {} /\ UNCHANGED stackVars
  BY <1>7 DEF IInv, TaskTypeOK
<1>9. ASSUME NEW u \in Tasks \ {t} PROVE SameRefs(u)
  BY DEF IInv, TaskTypeOK, SameRefs
<1> QED
  BY <1>1, <1>3, <1>5, <1>6, <1>7, <1>8, <1>9, RefStepKeeps DEF Building, OnStack

\* The task is released, on the CPU c.
LEMMA ReapKeeps ==
  ASSUME IInv, NEW t \in Tasks, NEW c \in Cpus, Reap(t, c)
  PROVE  IInv'
<1> USE DEF Reap, PutRcuUser, stackVars, refVars, countVars
<1>1. /\ t \in hashed /\ step[t] \in {"zombie", "dead", "gone"} /\ step' = step
      /\ hashed' = hashed \ {t} /\ readers' = readers /\ stackRefs' = stackRefs
      /\ freeing' = freeing /\ usage' = usage
  BY DEF IInv, Of, RefInv
<1>2. rcuUsers[t] = 1 + One(step[t] # "gone") /\ rcuUsers'[t] = One(step[t] # "gone")
  <2>1. rcuUsers[t] = One(t \in hashed) + One(step[t] # "gone")
    BY <1>1 DEF IInv, Of, RefInv
  <2>2. rcuUsers'[t] = rcuUsers[t] - 1
    BY DEF IInv, TaskTypeOK
  <2> HIDE DEF Reap, PutRcuUser
  <2> QED
    BY <1>1, <2>1, <2>2 DEF One
<1>3. <<"put", t>> \notin rcu /\ <<"free", t>> \notin rcu
  BY <1>1 DEF IInv, Of, RefInv
<1>4. /\ <<"put", t>> \in rcu' <=> step[t] = "gone"
      /\ <<"free", t>> \notin rcu'
  BY <1>2, <1>3 DEF One
<1>5. Base(t) /\ Base(t)' /\ (OnStack(t)' <=> OnStack(t))
  BY <1>1, <1>4 DEF Base, OnStack
<1>6. RefInv(t)'
  <2>1. /\ readers[t] \in {{}, {"task"}, {"task", "stack"}}
        /\ stackRefs[t] = One(OnStack(t)) + One("stack" \in readers[t])
        /\ usage[t] = One(Base(t)) + One(readers[t] # {}) /\ usage[t] > 0
    BY <1>1 DEF IInv, Of, RefInv
  <2> HIDE DEF Reap, PutRcuUser
  <2>2. usage'[t] = One(Base(t)') + One(readers'[t] # {}) /\ usage'[t] > 0
    BY <1>1, <1>5, <2>1 DEF One
  <2>3. stackRefs'[t] = One(OnStack(t)') + One("stack" \in readers'[t])
    BY <1>1, <1>5, <2>1 DEF One
  <2>4. rcuUsers'[t] = One(t \in hashed') + One(step'[t] # "gone")
    BY <1>1, <1>2 DEF One
  <2> QED
    BY <1>1, <1>4, <2>1, <2>2, <2>3, <2>4 DEF RefInv
<1>7. FreeInv(t)'
  BY <1>1 DEF IInv, Of, FreeInv
<1>8. ThreadInv' /\ nrThreads' \in Nat /\ processCounts' \in [Cpus -> Int]
  <2>1. /\ nrThreads' = nrThreads - 1 /\ nrThreads \in Nat /\ hashed \subseteq Tasks
        /\ processCounts \in [Cpus -> Int] /\ group'[t] = t
        /\ \A u \in Tasks \ {t} : group'[u] = group[u]
    BY DEF IInv, TaskTypeOK
  <2>2. /\ IsFiniteSet(hashed) /\ nrThreads = Cardinality(hashed)
        /\ IsFiniteSet(hashed') /\ Cardinality(hashed') = Cardinality(hashed) - 1
    BY <1>1, FS_RemoveElement DEF IInv, ThreadInv
  <2>3. Cardinality(hashed') \in Nat
    BY <2>2, FS_CardinalityType
  <2>4. Leaders' = Leaders \ {t}
    BY <1>1, <2>1 DEF Leaders
  <2>5. \A u \in hashed' : group'[u] \in Leaders'
    <3> SUFFICES ASSUME NEW u \in hashed, u # t PROVE group[u] \in Leaders \ {t}
      BY <1>1, <2>1, <2>4
    <3>1. group[u] \in Leaders
      BY DEF IInv, ThreadInv
    <3> QED
      BY <3>1 DEF Leaders
  <2>6. CASE group[t] = t
    <3>1. t \in Leaders /\ processCounts' = [processCounts EXCEPT ![c] = @ - 1]
      BY <1>1, <2>6 DEF Leaders
    <3>2. AddUpTo(processCounts', Cardinality(Leaders')) /\ processCounts' \in [Cpus -> Int]
      BY <2>4, <3>1, LeaderDiscounted
    <3> QED
      BY <2>1, <2>2, <2>3, <2>5, <3>2 DEF ThreadInv
  <2>7. CASE group[t] # t
    <3>1. Leaders' = Leaders /\ processCounts' = processCounts
      BY <2>4, <2>7 DEF Leaders
    <3> QED
      BY <2>1, <2>2, <2>3, <2>5, <3>1 DEF IInv, ThreadInv
  <2> QED
    BY <2>6, <2>7
<1>9. TaskTypeOK' /\ warned' = {} /\ UNCHANGED stackVars
  <2>1. rcuUsers' \in [Tasks -> 0 .. 2]
    BY <1>2 DEF IInv, TaskTypeOK, One
  <2>2. rcu' \subseteq {"free", "put"} \X Tasks
    BY DEF IInv, TaskTypeOK
  <2> QED
    BY <1>1, <1>8, <2>1, <2>2 DEF IInv, TaskTypeOK
<1>10. ASSUME NEW u \in Tasks \ {t} PROVE SameRefs(u)
  BY DEF IInv, TaskTypeOK, SameRefs
<1> QED
  BY <1>1, <1>5, <1>6, <1>7, <1>8, <1>9, <1>10, RefStepKeeps DEF Building

\* A thread takes the place of its leader.
LEMMA DeThreadKeeps ==
  ASSUME IInv, NEW t \in Tasks, DeThread(t)
  PROVE  IInv'
<1> DEFINE l == group[t]
<1> USE DEF stackVars, refVars
<1>1. /\ step[t] = "run" /\ l # t /\ group' = [group EXCEPT ![t] = t, ![l] = t]
      /\ \A u \in hashed : group[u] = l => u \in {t, l}
      /\ UNCHANGED <<step, tries, freeing, stackVars, refVars, nrThreads, maxThreads, processCounts,
                     warned>>
  BY DEF DeThread
<1>2. TaskTypeOK' /\ warned' = {}
  BY <1>1 DEF IInv, TaskTypeOK
<1>3. ASSUME NEW u \in Tasks PROVE Of(u)'
  BY <1>1, SameKept DEF IInv, SameRefs, SameStack
<1>4. OwnInv' /\ CacheInv' /\ CountedInv'
  BY <1>1 DEF IInv, OwnInv, CacheInv, CountedInv
<1>5. t \in hashed /\ l \in Leaders /\ t \notin Leaders /\ hashed \subseteq Tasks
  BY <1>1 DEF IInv, Of, RefInv, ThreadInv, Leaders, TaskTypeOK
<1>6. /\ group'[t] = t /\ group'[l] = t /\ group \in [Tasks -> Tasks]
      /\ \A u \in Tasks \ {t, l} : group'[u] = group[u]
  BY <1>1 DEF IInv, TaskTypeOK
<1>7. Leaders' = (Leaders \ {l}) \cup {t}
  BY <1>1, <1>5, <1>6 DEF Leaders
<1>8. Cardinality(Leaders') = Cardinality(Leaders)
  <2>1. IsFiniteSet(Leaders)
    BY FS_Subset DEF IInv, ThreadInv, Leaders
  <2>2. IsFiniteSet(Leaders \ {l}) /\ Cardinality(Leaders \ {l}) = Cardinality(Leaders) - 1
    BY <1>5, <2>1, FS_RemoveElement
  <2>3. Cardinality((Leaders \ {l}) \cup {t}) = Cardinality(Leaders \ {l}) + 1
    BY <1>5, <2>2, FS_AddElement
  <2>4. Cardinality(Leaders) \in Nat
    BY <2>1, FS_CardinalityType
  <2> QED
    BY <1>7, <2>2, <2>3, <2>4
<1>9. \A u \in hashed : group'[u] \in Leaders'
  <2> SUFFICES ASSUME NEW u \in hashed, u \notin {t, l} PROVE group[u] \in Leaders /\ group[u] # l
    BY <1>5, <1>6, <1>7
  <2> QED
    BY <1>1 DEF IInv, ThreadInv
<1>10. ThreadInv'
  BY <1>1, <1>8, <1>9 DEF IInv, ThreadInv
<1> QED
  BY <1>2, <1>3, <1>4, <1>10 DEF IInv

\* kernel.threads-max is written.
LEMMA SysctlKeeps ==
  ASSUME IInv, NEW n, SysctlMaxThreads(n)
  PROVE  IInv'
<1> USE DEF SysctlMaxThreads, stackVars, refVars, countVars
<1>1. TaskTypeOK' /\ warned' = {}
  BY DEF IInv, TaskTypeOK
<1>2. ASSUME NEW u \in Tasks PROVE Of(u)'
  BY SameKept DEF IInv, SameRefs, SameStack
<1>3. OwnInv' /\ CacheInv' /\ CountedInv' /\ ThreadInv'
  BY DEF IInv, OwnInv, CacheInv, CountedInv, ThreadInv, Leaders
<1> QED
  BY <1>1, <1>2, <1>3 DEF IInv

-----------------------------------------------------------------------------
\* A reference to the stack of t is put, and the last one starts to free it.
LEMMA PutStackKeeps ==
  ASSUME Sizes, IInv, NEW t \in Tasks, NEW who \in {"fork", "scheduler", "reader"},
         stackRefs[t] > 0, PutTaskStack(t, who, TRUE),
         UNCHANGED <<stack, cached, data, charged, hashed, nrThreads>>,
         step' \in [Tasks -> {"free", "alloc", "charge", "dup", "free_stack", "new", "allowed",
                         "bad_fork", "run", "zombie", "dead", "gone"}],
         readers' \in [Tasks -> SUBSET {"task", "stack"}],
         UNCHANGED <<rcuUsers, usage, rcu, maxThreads, processCounts, group>>,
         \A u \in Tasks \ {t} : step'[u] = step[u] /\ readers'[u] = readers[u],
         RefInv(t)', FreeInv(t)', ~Building(t), ~Building(t)', OnStack(t)' => OnStack(t)
  PROVE  IInv'
<1>1. /\ stackRefs'[t] = stackRefs[t] - 1 /\ stackRefs[t] \in {1, 2}
      /\ freeing'[t] = (IF stackRefs[t] > 1 THEN "nobody" ELSE who)
      /\ counted' = (IF stackRefs[t] > 1 THEN counted ELSE counted \ {stack[t]})
      /\ warned' = {}
  BY DEF PutTaskStack, IInv, TaskTypeOK, Of, FreeInv
<1>2. stackRefs' \in [Tasks -> 0 .. 2]
  BY <1>1 DEF PutTaskStack, IInv, TaskTypeOK
<1>3. TaskTypeOK'
  <2>1. freeing' \in [Tasks -> {"nobody", "dup", "fork", "scheduler", "reader"}]
    BY DEF PutTaskStack, IInv, TaskTypeOK
  <2>2. tries' \in [Tasks -> 1 .. NrCachedStacks + 1]
    BY DEF PutTaskStack, IInv, TaskTypeOK, Sizes
  <2>3. counted' \subseteq Stacks
    BY <1>1 DEF IInv, TaskTypeOK
  <2> QED
    BY <1>2, <2>1, <2>2, <2>3 DEF IInv, TaskTypeOK
<1>4. stack[t] # NoStack /\ data[stack[t]] \in {t, NoStack} /\ stack[t] \in counted
  BY DEF IInv, Of, HoldInv
<1>5. ASSUME NEW u \in Tasks \ {t} PROVE SameRefs(u) /\ SameStack(u)
  <2>1. SameRefs(u)
    BY DEF PutTaskStack, IInv, TaskTypeOK, SameRefs
  <2>2. stack[u] # NoStack => stack[u] # stack[t]
    BY DEF IInv, OwnInv
  <2> QED
    BY <1>1, <2>1, <2>2 DEF SameStack
<1>6. HoldInv(t)'
  <2>1. stackRefs'[t] > 0 \/ freeing'[t] # "nobody"
    BY <1>1
  <2>2. stackRefs'[t] > 0 => stack[t] \in counted'
    BY <1>1, <1>4
  <2>3. step'[t] = "dup" \/ OnStack(t)' => OnStack(t)
    BY DEF Building
  <2>4. OnStack(t) => charged[stack[t]] = StackPages
    BY DEF IInv, Of, HoldInv
  <2> QED
    BY <1>4, <2>1, <2>2, <2>3, <2>4 DEF HoldInv
<1>7. OwnInv' /\ CacheInv' /\ ThreadInv'
  BY DEF IInv, OwnInv, CacheInv, ThreadInv, Leaders
<1>8. CountedInv'
  <2> SUFFICES ASSUME NEW s \in counted'
               PROVE  \E u \in Tasks : stack[u] = s /\ stackRefs'[u] > 0
    BY DEF CountedInv
  <2>1. PICK u \in Tasks : stack[u] = s /\ stackRefs[u] > 0
    BY <1>1 DEF IInv, CountedInv
  <2>2. stackRefs'[u] > 0
    BY <1>1, <1>5, <2>1 DEF SameRefs
  <2> QED
    BY <2>1, <2>2
<1> QED
  BY <1>1, <1>3, <1>5, <1>6, <1>7, <1>8, StepKeeps DEF Of

\* bad_fork_free puts the only reference.
LEMMA BadForkFreeKeeps ==
  ASSUME Sizes, IInv, NEW t \in Tasks, BadForkFree(t)
  PROVE  IInv'
<1> USE DEF BadForkFree, countVars
<1>1. /\ step[t] \in {"new", "allowed"} /\ step'[t] = "bad_fork" /\ hashed' = hashed
      /\ rcu' = rcu /\ readers' = readers /\ rcuUsers' = rcuUsers /\ usage' = usage
  BY DEF IInv, TaskTypeOK
<1>2. /\ readers[t] = {} /\ t \notin hashed
      /\ <<"put", t>> \notin rcu /\ <<"free", t>> \notin rcu
  BY <1>1 DEF IInv, Of, RefInv
<1>3. OnStack(t) /\ ~OnStack(t)' /\ Base(t) /\ Base(t)' /\ ~Building(t) /\ ~Building(t)'
  BY <1>1 DEF OnStack, Base, Building
<1>4. usage[t] = 1 /\ stackRefs[t] = 1
  <2>1. usage[t] = One(Base(t)) + One(readers[t] # {})
    BY <1>1 DEF IInv, Of, RefInv
  <2> HIDE DEF BadForkFree
  <2> QED
    BY <1>2, <1>3, <2>1, ReaderCases DEF One
<1>5. PutTaskStack(t, "fork", TRUE) /\ stackRefs'[t] = 0 /\ freeing'[t] = "fork"
  BY <1>4 DEF PutTaskStack, IInv, TaskTypeOK
<1>6. RefInv(t)'
  <2> HIDE DEF BadForkFree
  <2> QED
    BY <1>1, <1>2, <1>3, <1>4, <1>5 DEF RefInv, One
<1>7. FreeInv(t)'
  <2> HIDE DEF BadForkFree
  <2> QED
    BY <1>1, <1>5 DEF FreeInv
<1>8. ASSUME NEW u \in Tasks \ {t} PROVE step'[u] = step[u] /\ readers'[u] = readers[u]
  BY DEF IInv, TaskTypeOK
<1>9. step' \in [Tasks -> {"free", "alloc", "charge", "dup", "free_stack", "new", "allowed",
                         "bad_fork", "run", "zombie", "dead", "gone"}]
      /\ readers' \in [Tasks -> SUBSET {"task", "stack"}]
  BY DEF IInv, TaskTypeOK
<1>10. UNCHANGED <<stack, cached, data, charged, hashed, nrThreads>>
       /\ UNCHANGED <<rcuUsers, usage, rcu, maxThreads, processCounts, group>> /\ stackRefs[t] > 0
  BY <1>4
<1> HIDE DEF BadForkFree
<1> QED
  BY <1>3, <1>5, <1>6, <1>7, <1>8, <1>9, <1>10, PutStackKeeps

\* The scheduler puts the stack of a task that is dead.
LEMMA LastSwitchKeeps ==
  ASSUME Sizes, IInv, NEW t \in Tasks, LastSwitch(t)
  PROVE  IInv'
<1> USE DEF LastSwitch, countVars
<1>1. /\ step[t] = "zombie" /\ step'[t] = "dead" /\ hashed' = hashed
      /\ rcu' = rcu /\ readers' = readers /\ rcuUsers' = rcuUsers /\ usage' = usage
  BY DEF IInv, TaskTypeOK
<1>2. OnStack(t) /\ ~OnStack(t)' /\ Base(t) /\ Base(t)' /\ ~Building(t) /\ ~Building(t)'
  BY <1>1 DEF OnStack, Base, Building
<1>3. /\ readers[t] \in {{}, {"task"}, {"task", "stack"}}
      /\ stackRefs[t] = One(OnStack(t)) + One("stack" \in readers[t])
      /\ usage[t] = One(Base(t)) + One(readers[t] # {}) /\ usage[t] > 0
      /\ rcuUsers[t] = One(t \in hashed) + One(step[t] # "gone")
      /\ <<"put", t>> \notin rcu /\ <<"free", t>> \notin rcu
  BY <1>1 DEF IInv, Of, RefInv
<1>4. stackRefs[t] = 1 + One("stack" \in readers[t]) /\ stackRefs[t] > 0
  <2> HIDE DEF LastSwitch
  <2> QED
    BY <1>2, <1>3 DEF One
<1>5. freeing[t] = "nobody"
  BY <1>4 DEF IInv, Of, FreeInv
<1>6. PutTaskStack(t, "scheduler", TRUE) /\ stackRefs'[t] = stackRefs[t] - 1
      /\ freeing'[t] = (IF stackRefs[t] > 1 THEN "nobody" ELSE "scheduler")
  BY <1>5 DEF PutTaskStack, IInv, TaskTypeOK
<1>7. RefInv(t)'
  <2> HIDE DEF LastSwitch
  <2>1. stackRefs'[t] = One(OnStack(t)') + One("stack" \in readers'[t])
    BY <1>1, <1>2, <1>4, <1>6 DEF One
  <2>2. usage'[t] = One(Base(t)') + One(readers'[t] # {}) /\ usage'[t] > 0
    BY <1>1, <1>2, <1>3 DEF One
  <2>3. rcuUsers'[t] = One(t \in hashed') + One(step'[t] # "gone")
    BY <1>1, <1>3 DEF One
  <2> QED
    BY <1>1, <1>3, <2>1, <2>2, <2>3 DEF RefInv
<1>8. FreeInv(t)'
  <2> HIDE DEF LastSwitch
  <2> QED
    BY <1>1, <1>4, <1>6 DEF FreeInv, One
<1>9. ASSUME NEW u \in Tasks \ {t} PROVE step'[u] = step[u] /\ readers'[u] = readers[u]
  BY DEF IInv, TaskTypeOK
<1>10. step' \in [Tasks -> {"free", "alloc", "charge", "dup", "free_stack", "new", "allowed",
                         "bad_fork", "run", "zombie", "dead", "gone"}]
       /\ readers' \in [Tasks -> SUBSET {"task", "stack"}]
  BY DEF IInv, TaskTypeOK
<1> QED
  BY <1>2, <1>4, <1>6, <1>7, <1>8, <1>9, <1>10, PutStackKeeps

\* A reader puts the stack: it is the last one only when the task is dead.
LEMMA ReaderPutStackKeeps ==
  ASSUME Sizes, IInv, NEW t \in Tasks, ReaderPutStack(t)
  PROVE  IInv'
<1> USE DEF ReaderPutStack, countVars
<1>1. /\ "stack" \in readers[t] /\ readers'[t] = {"task"} /\ step' = step
      /\ hashed' = hashed /\ rcu' = rcu /\ rcuUsers' = rcuUsers /\ usage' = usage
  BY DEF IInv, TaskTypeOK
<1>2. /\ readers[t] # {} /\ step[t] \in {"run", "zombie", "dead", "gone"}
      /\ step[t] = "run" => t \in hashed
      /\ usage[t] = One(Base(t)) + One(readers[t] # {}) /\ usage[t] > 0
      /\ rcuUsers[t] = One(t \in hashed) + One(step[t] # "gone")
      /\ <<"put", t>> \in rcu => step[t] = "gone" /\ t \notin hashed
      /\ <<"free", t>> \notin rcu
  BY <1>1 DEF IInv, Of, RefInv
<1>3. stackRefs[t] = One(OnStack(t)) + 1 /\ stackRefs[t] > 0
  <2> HIDE DEF ReaderPutStack
  <2> QED
    BY <1>1, ReaderCases DEF One
<1>4. /\ OnStack(t)' <=> OnStack(t)
      /\ Base(t)' <=> Base(t)
      /\ ~Building(t) /\ ~Building(t)'
      /\ OnStack(t) <=> step[t] \in {"run", "zombie"}
  BY <1>1, <1>2 DEF OnStack, Base, Building
<1>5. freeing[t] = "nobody" /\ (stackRefs[t] > 1 \/ Dead(t))
  <2>1. freeing[t] = "nobody"
    BY <1>3 DEF IInv, Of, FreeInv
  <2>2. OnStack(t) \/ Dead(t)
    BY <1>2, <1>4 DEF Dead
  <2> HIDE DEF ReaderPutStack
  <2> QED
    BY <1>3, <2>1, <2>2 DEF One
<1>6. PutTaskStack(t, "reader", TRUE) /\ stackRefs'[t] = stackRefs[t] - 1
      /\ freeing'[t] = (IF stackRefs[t] > 1 THEN "nobody" ELSE "reader")
  BY <1>5 DEF PutTaskStack, IInv, TaskTypeOK
<1>7. RefInv(t)'
  <2> HIDE DEF ReaderPutStack
  <2>1. readers'[t] \in {{}, {"task"}, {"task", "stack"}} /\ "stack" \notin readers'[t]
        /\ readers'[t] # {}
    BY <1>1
  <2>2. stackRefs'[t] = One(OnStack(t)') + One("stack" \in readers'[t])
    BY <1>3, <1>4, <1>6, <2>1 DEF One
  <2>3. usage'[t] = One(Base(t)') + One(readers'[t] # {}) /\ usage'[t] > 0
    BY <1>1, <1>2, <1>4, <2>1 DEF One
  <2>4. rcuUsers'[t] = One(t \in hashed') + One(step'[t] # "gone")
    BY <1>1, <1>2 DEF One
  <2> QED
    BY <1>1, <1>2, <2>1, <2>2, <2>3, <2>4 DEF RefInv
<1>8. FreeInv(t)'
  <2> HIDE DEF ReaderPutStack
  <2>1. ~OnStack(t) \/ stackRefs[t] > 1
    BY <1>3 DEF One
  <2>2. ~OnStack(t) => stackRefs[t] = 1
    BY <1>3 DEF One
  <2>3. readers'[t] # {}
    BY <1>1
  <2>4. OnStack(t) => freeing'[t] = "nobody"
    BY <1>6, <2>1
  <2>5. ~OnStack(t) => step[t] \in {"dead", "gone"} /\ freeing'[t] = "reader"
                       /\ stackRefs'[t] = 0
    BY <1>2, <1>4, <1>6, <2>2
  <2> QED
    BY <1>1, <1>2, <2>3, <2>4, <2>5 DEF FreeInv
<1>9. ASSUME NEW u \in Tasks \ {t} PROVE step'[u] = step[u] /\ readers'[u] = readers[u]
  BY DEF IInv, TaskTypeOK
<1>10. step' \in [Tasks -> {"free", "alloc", "charge", "dup", "free_stack", "new", "allowed",
                         "bad_fork", "run", "zombie", "dead", "gone"}]
       /\ readers' \in [Tasks -> SUBSET {"task", "stack"}]
  BY DEF IInv, TaskTypeOK
<1> QED
  BY <1>3, <1>4, <1>6, <1>7, <1>8, <1>9, <1>10, PutStackKeeps

-----------------------------------------------------------------------------
\* A step that works on the stack of t and leaves it where it is.
LEMMA OwnStackKeeps ==
  ASSUME IInv, NEW t \in Tasks, TaskTypeOK', warned' = {}, UNCHANGED <<stack, cached>>,
         stack[t] # NoStack,
         \A s \in Stacks \ {stack[t]} : data'[s] = data[s] /\ charged'[s] = charged[s],
         \A u \in Tasks \ {t} : SameRefs(u), Of(t)',
         stackRefs[t] > 0 => stackRefs'[t] > 0,
         counted \subseteq counted', counted' \subseteq counted \cup {stack[t]},
         counted' # counted => stackRefs'[t] > 0,
         ThreadInv'
  PROVE  IInv'
<1>1. ASSUME NEW u \in Tasks \ {t} PROVE SameStack(u)
  <2>1. stack[u] # NoStack => stack[u] # stack[t] /\ stack[u] \in Stacks
    BY DEF IInv, OwnInv, TaskTypeOK
  <2> QED
    BY <2>1 DEF SameStack
<1>2. OwnInv'
  BY DEF IInv, OwnInv
<1>3. CacheInv'
  <2> SUFFICES ASSUME NEW c \in Cpus, NEW i \in Slots, cached[c][i] # NoStack
               PROVE  charged'[cached[c][i]] = 0
    BY DEF CacheInv
  <2>1. cached[c][i] \in Stacks \ {stack[t]}
    BY DEF IInv, OwnInv, TaskTypeOK
  <2> QED
    BY <2>1 DEF IInv, CacheInv
<1>4. CountedInv'
  <2> SUFFICES ASSUME NEW s \in counted'
               PROVE  \E u \in Tasks : stack[u] = s /\ stackRefs'[u] > 0
    BY DEF CountedInv
  <2>1. CASE s \in counted
    <3>1. PICK u \in Tasks : stack[u] = s /\ stackRefs[u] > 0
      BY <2>1 DEF IInv, CountedInv
    <3>2. stackRefs'[u] > 0
      BY <3>1 DEF SameRefs
    <3> QED
      BY <3>1, <3>2
  <2>2. CASE s \notin counted
    BY <2>2
  <2> QED
    BY <2>1, <2>2
<1> QED
  BY <1>1, <1>2, <1>3, <1>4, StepKeeps

\* A task that is not built to the end: nobody refers to it yet.
LEMMA EarlyFacts ==
  ASSUME IInv, NEW t \in Tasks, step[t] \in {"alloc", "charge", "dup", "free_stack"}
  PROVE  /\ readers[t] = {} /\ stackRefs[t] = 0 /\ t \notin hashed
         /\ <<"put", t>> \notin rcu /\ <<"free", t>> \notin rcu
         /\ freeing[t] = (IF step[t] = "free_stack" THEN "dup" ELSE "nobody")
<1>1. /\ readers[t] = {} /\ t \notin hashed
      /\ <<"put", t>> \notin rcu /\ <<"free", t>> \notin rcu
  BY DEF IInv, Of, RefInv
<1>2. stackRefs[t] = 0
  BY <1>1, ReaderCases DEF OnStack, One
<1>3. freeing[t] = (IF step[t] = "free_stack" THEN "dup" ELSE "nobody")
  BY DEF IInv, TaskTypeOK, Of, FreeInv
<1> QED
  BY <1>1, <1>2, <1>3

\* And it stays so on its way through dup_task_struct.
LEMMA EarlyRefs ==
  ASSUME IInv, NEW t \in Tasks, step[t] \in {"alloc", "charge", "dup", "free_stack"},
         UNCHANGED refVars,
         step'[t] \in {"free", "alloc", "charge", "dup", "free_stack"},
         freeing'[t] = (IF step'[t] = "free_stack" THEN "dup" ELSE "nobody")
  PROVE  RefInv(t)' /\ FreeInv(t)'
<1>1. /\ readers'[t] = {} /\ stackRefs'[t] = 0 /\ t \notin hashed'
      /\ <<"put", t>> \notin rcu' /\ <<"free", t>> \notin rcu'
  BY EarlyFacts DEF refVars
<1>2. RefInv(t)'
  BY <1>1 DEF RefInv, OnStack, One
<1>3. FreeInv(t)'
  BY <1>1 DEF FreeInv
<1> QED
  BY <1>2, <1>3

\* The tasks a step of dup_task_struct or free_thread_stack is not about.
LEMMA OthersSame ==
  ASSUME IInv, NEW t \in Tasks, UNCHANGED refVars, NEW x, NEW y,
         step' = [step EXCEPT ![t] = x], freeing' = [freeing EXCEPT ![t] = y]
  PROVE  \A u \in Tasks \ {t} : SameRefs(u)
  BY DEF IInv, TaskTypeOK, refVars, SameRefs

\* arch_dup_task_struct or scs_prepare fails.
LEMMA DupTaskFailsKeeps ==
  ASSUME Sizes, IInv, NEW t \in Tasks, DupTaskFails(t)
  PROVE  IInv'
<1>1. /\ step[t] = "dup" /\ step'[t] = "free_stack" /\ freeing'[t] = "dup"
      /\ step' = [step EXCEPT ![t] = "free_stack"]
      /\ freeing' = [freeing EXCEPT ![t] = "dup"]
      /\ tries' = [tries EXCEPT ![t] = 1]
      /\ UNCHANGED <<stack, cached, data, charged, counted, nrThreads, maxThreads,
                     processCounts, group, warned>> /\ UNCHANGED refVars
  BY DEF DupTaskFails, FreeStack, stackVars, refVars, countVars, IInv, TaskTypeOK
<1>2. RefInv(t)' /\ FreeInv(t)'
  BY <1>1, EarlyRefs
<1>3. stack[t] # NoStack /\ stackRefs'[t] = 0
  BY <1>1, EarlyFacts DEF IInv, Of, HoldInv, Building, refVars
<1>4. HoldInv(t)'
  BY <1>1, <1>3 DEF HoldInv, Building, OnStack
<1>5. TaskTypeOK' /\ warned' = {}
  BY <1>1 DEF Sizes, IInv, TaskTypeOK, refVars
<1>6. ThreadInv'
  BY <1>1 DEF IInv, ThreadInv, Leaders, refVars
<1>7. \A u \in Tasks \ {t} : SameRefs(u)
  BY <1>1, OthersSame
<1>8. /\ stackRefs[t] > 0 => stackRefs'[t] > 0
      /\ UNCHANGED <<stack, cached>> /\ counted' = counted
      /\ \A s \in Stacks \ {stack[t]} : data'[s] = data[s] /\ charged'[s] = charged[s]
  BY <1>1 DEF refVars
<1>9. Of(t)'
  BY <1>2, <1>4 DEF Of
<1> QED
  BY <1>3, <1>5, <1>6, <1>7, <1>8, <1>9, OwnStackKeeps

\* The pages of the stack are charged, or some of them.
LEMMA ChargeKeeps ==
  ASSUME Sizes, IInv, NEW t \in Tasks, NEW n \in 0 .. StackPages, Charge(t, n)
  PROVE  IInv'
<1>1. /\ step[t] = "charge"
      /\ charged' = [charged EXCEPT ![stack[t]] = n]
      /\ UNCHANGED <<stack, cached, data, counted, nrThreads, maxThreads,
                     processCounts, group, warned>> /\ UNCHANGED refVars
  BY DEF Charge, refVars, countVars
<1>2. /\ stack[t] \in Stacks /\ stack[t] # NoStack /\ data[stack[t]] = NoStack
      /\ charged'[stack[t]] = n
      /\ stackRefs'[t] = 0 /\ stackRefs[t] = 0 /\ freeing[t] = "nobody"
  <2>1. Building(t)
    BY <1>1 DEF Building
  <2>2. stack[t] # NoStack /\ data[stack[t]] = NoStack
    BY <2>1 DEF IInv, Of, HoldInv
  <2>3. stack[t] \in Stacks
    BY <2>2 DEF IInv, TaskTypeOK
  <2>4. stackRefs'[t] = 0 /\ stackRefs[t] = 0 /\ freeing[t] = "nobody"
    BY <1>1, EarlyFacts DEF refVars
  <2>5. charged'[stack[t]] = n
    BY <1>1, <2>3 DEF IInv, TaskTypeOK
  <2> QED
    BY <2>2, <2>3, <2>4, <2>5
<1>3. charged' \in [Stacks -> 0 .. StackPages]
  BY <1>1, <1>2 DEF IInv, TaskTypeOK
<1>4. ASSUME NEW s \in Stacks \ {stack[t]} PROVE data'[s] = data[s] /\ charged'[s] = charged[s]
  BY <1>1 DEF IInv, TaskTypeOK
<1>5. /\ ThreadInv' /\ warned' = {} /\ counted' = counted
      /\ UNCHANGED <<stack, cached>> /\ (stackRefs[t] > 0 => stackRefs'[t] > 0)
  BY <1>1 DEF IInv, ThreadInv, Leaders, refVars
<1>6. CASE n = StackPages
  <2>1. step' = [step EXCEPT ![t] = "dup"] /\ freeing' = freeing /\ tries' = tries
    BY <1>6 DEF Charge
  <2>2. step'[t] = "dup" /\ freeing'[t] = "nobody" /\ freeing' = [freeing EXCEPT ![t] = "nobody"]
    BY <1>2, <2>1 DEF IInv, TaskTypeOK
  <2>3. RefInv(t)' /\ FreeInv(t)'
    BY <1>1, <2>2, EarlyRefs
  <2>4. HoldInv(t)'
    BY <1>1, <1>2, <1>6, <2>2 DEF HoldInv, Building, OnStack
  <2>5. TaskTypeOK'
    BY <1>1, <1>3, <2>1 DEF IInv, TaskTypeOK, refVars
  <2>6. \A u \in Tasks \ {t} : SameRefs(u)
    BY <1>1, <2>1, <2>2, OthersSame
  <2>7. Of(t)'
    BY <2>3, <2>4 DEF Of
  <2> QED
    BY <1>2, <1>4, <1>5, <2>5, <2>6, <2>7, OwnStackKeeps
<1>7. CASE n # StackPages
  <2>1. /\ step' = [step EXCEPT ![t] = "free_stack"] /\ freeing' = [freeing EXCEPT ![t] = "dup"]
        /\ tries' = [tries EXCEPT ![t] = 1]
    BY <1>7 DEF Charge, FreeStack
  <2>2. step'[t] = "free_stack" /\ freeing'[t] = "dup"
    BY <2>1 DEF IInv, TaskTypeOK
  <2>3. RefInv(t)' /\ FreeInv(t)'
    BY <1>1, <2>2, EarlyRefs
  <2>4. HoldInv(t)'
    BY <1>1, <1>2, <2>2 DEF HoldInv, Building, OnStack
  <2>5. TaskTypeOK'
    BY <1>1, <1>3, <2>1 DEF Sizes, IInv, TaskTypeOK, refVars
  <2>6. \A u \in Tasks \ {t} : SameRefs(u)
    BY <1>1, <2>1, OthersSame
  <2>7. Of(t)'
    BY <2>3, <2>4 DEF Of
  <2> QED
    BY <1>2, <1>4, <1>5, <2>5, <2>6, <2>7, OwnStackKeeps
<1> QED
  BY <1>6, <1>7

\* The copy is made and the stack gets its first reference.
LEMMA DupTaskKeeps ==
  ASSUME Sizes, IInv, NEW t \in Tasks, DupTask(t)
  PROVE  IInv'
<1>1. /\ step[t] = "dup" /\ step'[t] = "new" /\ stackRefs'[t] = 1 /\ rcuUsers'[t] = 2
      /\ usage'[t] = 1 /\ counted' = counted \cup {stack[t]}
      /\ UNCHANGED <<tries, freeing, stack, cached, charged, hashed, readers, rcu,
                     nrThreads, maxThreads, processCounts, group, warned>>
  BY DEF DupTask, IInv, TaskTypeOK, countVars
<1>2. /\ readers[t] = {} /\ stackRefs[t] = 0 /\ t \notin hashed /\ freeing[t] = "nobody"
      /\ <<"put", t>> \notin rcu /\ <<"free", t>> \notin rcu
  BY <1>1, EarlyFacts
<1>3. Building(t) /\ ~Building(t)' /\ OnStack(t)' /\ Base(t)'
  BY <1>1 DEF Building, OnStack, Base
<1>4. /\ stack[t] # NoStack /\ data[stack[t]] = NoStack /\ charged[stack[t]] = StackPages
  BY <1>1, <1>3 DEF IInv, Of, HoldInv
<1>5. stack[t] \in Stacks
  BY <1>4 DEF IInv, TaskTypeOK
<1>6. data' = [data EXCEPT ![stack[t]] = t] /\ data'[stack[t]] = t
      /\ data' \in [Stacks -> Tasks \cup {NoStack}]
  BY <1>4, <1>5 DEF DupTask, IInv, TaskTypeOK
<1>7. RefInv(t)'
  BY <1>1, <1>2, <1>3 DEF RefInv, One
<1>8. FreeInv(t)'
  BY <1>1, <1>2 DEF FreeInv
<1>9. HoldInv(t)'
  BY <1>1, <1>3, <1>4, <1>6 DEF HoldInv
<1>10. TaskTypeOK' /\ warned' = {}
  <2>1. /\ step' \in [Tasks -> {"free", "alloc", "charge", "dup", "free_stack", "new",
                         "allowed", "bad_fork", "run", "zombie", "dead", "gone"}]
        /\ stackRefs' \in [Tasks -> 0 .. 2] /\ rcuUsers' \in [Tasks -> 0 .. 2]
        /\ usage' \in [Tasks -> 0 .. 2]
    BY DEF DupTask, IInv, TaskTypeOK
  <2> QED
    BY <1>1, <1>5, <1>6, <2>1 DEF IInv, TaskTypeOK
<1>11. ThreadInv'
  BY <1>1 DEF IInv, ThreadInv, Leaders
<1>12. \A u \in Tasks \ {t} : SameRefs(u)
  BY DEF DupTask, IInv, TaskTypeOK, SameRefs
<1>13. ASSUME NEW s \in Stacks \ {stack[t]} PROVE data'[s] = data[s] /\ charged'[s] = charged[s]
  BY <1>1, <1>6 DEF IInv, TaskTypeOK
<1> QED
  BY <1>1, <1>4, <1>7, <1>8, <1>9, <1>10, <1>11, <1>12, <1>13, OwnStackKeeps DEF Of

-----------------------------------------------------------------------------
\* A stack that no task and no cache has left comes to a task under construction.
LEMMA TakeKeeps ==
  ASSUME Sizes, IInv, NEW t \in Tasks, NEW s \in Stacks, step[t] = "alloc",
         stack' = [stack EXCEPT ![t] = s], data' = [data EXCEPT ![s] = NoStack],
         step' = [step EXCEPT ![t] = "charge"], UNCHANGED refVars,
         UNCHANGED <<tries, freeing, charged, counted, nrThreads, maxThreads, processCounts, group, warned>>,
         \A u \in Tasks : stack[u] # s,
         cached' \in [Cpus -> [Slots -> Stacks \cup {NoStack}]],
         \A d \in Cpus : \A j \in Slots :
           cached'[d][j] # s /\ (cached'[d][j] = cached[d][j] \/ cached'[d][j] = NoStack)
  PROVE  IInv'
<1>1. /\ step'[t] = "charge" /\ stack'[t] = s /\ data'[s] = NoStack /\ s # NoStack
      /\ data' \in [Stacks -> Tasks \cup {NoStack}]
      /\ \A u \in Tasks \ {t} : stack'[u] = stack[u]
      /\ \A r \in Stacks \ {s} : data'[r] = data[r]
  BY DEF IInv, TaskTypeOK, Sizes
<1>2. stackRefs[t] = 0 /\ stackRefs' = stackRefs /\ freeing[t] = "nobody" /\ hashed' = hashed
  BY EarlyFacts DEF refVars
<1>3. RefInv(t)' /\ FreeInv(t)'
  BY <1>1, <1>2, EarlyRefs
<1>4. HoldInv(t)'
  BY <1>1, <1>2 DEF HoldInv, Building, OnStack
<1>5. ASSUME NEW u \in Tasks \ {t} PROVE SameRefs(u) /\ SameStack(u)
  <2>1. SameRefs(u)
    BY DEF IInv, TaskTypeOK, refVars, SameRefs
  <2>2. stack[u] # NoStack => stack[u] \in Stacks \ {s}
    BY DEF IInv, TaskTypeOK
  <2> QED
    BY <1>1, <2>1, <2>2 DEF SameStack
<1>6. TaskTypeOK' /\ warned' = {}
  BY <1>1 DEF IInv, TaskTypeOK, refVars
<1>7. OwnInv'
  <2>1. ASSUME NEW u \in Tasks, NEW v \in Tasks, stack'[u] # NoStack, stack'[u] = stack'[v]
        PROVE  u = v
    BY <1>1, <2>1 DEF IInv, OwnInv
  <2>2. ASSUME NEW c \in Cpus, NEW d \in Cpus, NEW i \in Slots, NEW j \in Slots,
               cached'[c][i] # NoStack, cached'[c][i] = cached'[d][j]
        PROVE  c = d /\ i = j
    <3>1. cached[c][i] = cached[d][j] /\ cached[c][i] # NoStack
      BY <2>2
    <3> QED
      BY <3>1 DEF IInv, OwnInv
  <2>3. ASSUME NEW u \in Tasks, NEW c \in Cpus, NEW i \in Slots, stack'[u] # NoStack
        PROVE  cached'[c][i] # stack'[u]
    <3>1. CASE u = t
      BY <1>1, <3>1
    <3>2. CASE u # t
      <4>1. stack'[u] = stack[u] /\ cached[c][i] # stack[u]
        BY <1>1, <2>3, <3>2 DEF IInv, OwnInv
      <4> QED
        BY <2>3, <4>1
    <3> QED
      BY <3>1, <3>2
  <2> QED
    BY <2>1, <2>2, <2>3 DEF OwnInv
<1>8. CacheInv'
  <2> SUFFICES ASSUME NEW c \in Cpus, NEW i \in Slots, cached'[c][i] # NoStack
               PROVE  charged[cached'[c][i]] = 0
    BY DEF CacheInv
  <2>1. cached'[c][i] = cached[c][i]
    OBVIOUS
  <2> QED
    BY <2>1 DEF IInv, CacheInv
<1>9. CountedInv'
  <2> SUFFICES ASSUME NEW r \in counted
               PROVE  \E u \in Tasks : stack'[u] = r /\ stackRefs'[u] > 0
    BY DEF CountedInv
  <2>1. PICK u \in Tasks : stack[u] = r /\ stackRefs[u] > 0
    BY DEF IInv, CountedInv
  <2>2. u # t
    BY <1>2, <2>1
  <2> QED
    BY <1>1, <1>2, <2>1, <2>2
<1>10. ThreadInv'
  BY <1>2 DEF IInv, ThreadInv, Leaders
<1> QED
  BY <1>3, <1>4, <1>5, <1>6, <1>7, <1>8, <1>9, <1>10, StepKeeps DEF Of

\* One turn of the loop of alloc_thread_stack_node.
LEMMA AllocCachedKeeps ==
  ASSUME Sizes, IInv, NEW t \in Tasks, NEW c \in Cpus, AllocCached(t, c)
  PROVE  IInv'
<1> DEFINE i == tries[t]
           s == cached[c][i]
<1>1. /\ step[t] = "alloc" /\ i \in Slots /\ UNCHANGED refVars
      /\ UNCHANGED <<freeing, charged, counted, nrThreads, maxThreads, processCounts, group, warned>>
  BY DEF AllocCached, refVars, countVars
<1>2. CASE s = NoStack
  <2>1. tries' = [tries EXCEPT ![t] = i + 1] /\ UNCHANGED <<step, stack, cached, data>>
    BY <1>2 DEF AllocCached
  <2>2. tries' \in [Tasks -> 1 .. NrCachedStacks + 1]
    BY <1>1, <2>1 DEF IInv, TaskTypeOK, Sizes, Slots
  <2>3. TaskTypeOK' /\ warned' = {}
    BY <1>1, <2>1, <2>2 DEF IInv, TaskTypeOK, refVars
  <2>4. ASSUME NEW u \in Tasks PROVE Of(u)'
    BY <1>1, <2>1, SameKept DEF IInv, SameRefs, SameStack, refVars
  <2>5. OwnInv' /\ CacheInv' /\ CountedInv' /\ ThreadInv'
    BY <1>1, <2>1 DEF IInv, OwnInv, CacheInv, CountedInv, ThreadInv, Leaders, refVars
  <2> QED
    BY <2>3, <2>4, <2>5 DEF IInv
<1>3. CASE s # NoStack
  <2>1. /\ cached' = [cached EXCEPT ![c][i] = NoStack] /\ data' = [data EXCEPT ![s] = NoStack]
        /\ stack' = [stack EXCEPT ![t] = s] /\ step' = [step EXCEPT ![t] = "charge"]
        /\ tries' = tries
    BY <1>3 DEF AllocCached
  <2>2. s \in Stacks
    BY <1>1, <1>3 DEF IInv, TaskTypeOK
  <2>3. ASSUME NEW u \in Tasks PROVE stack[u] # s
    BY <1>1, <1>3 DEF IInv, OwnInv
  <2>4. cached' \in [Cpus -> [Slots -> Stacks \cup {NoStack}]]
    BY <2>1 DEF IInv, TaskTypeOK
  <2>5. ASSUME NEW d \in Cpus, NEW j \in Slots
        PROVE  cached'[d][j] # s /\ (cached'[d][j] = cached[d][j] \/ cached'[d][j] = NoStack)
    <3>1. cached'[d][j] = IF d = c /\ j = i THEN NoStack ELSE cached[d][j]
      BY <1>1, <2>1 DEF IInv, TaskTypeOK
    <3>2. cached[d][j] = s => d = c /\ j = i
      BY <1>1, <1>3 DEF IInv, OwnInv
    <3> QED
      BY <1>3, <3>1, <3>2
  <2> HIDE DEF i, s
  <2> QED
    BY <1>1, <2>1, <2>2, <2>3, <2>4, <2>5, TakeKeeps
<1> QED
  BY <1>2, <1>3

\* vmalloc hands out a stack that is nowhere.
LEMMA VmallocKeeps ==
  ASSUME Sizes, IInv, NEW t \in Tasks, NEW s \in Stacks, Vmalloc(t, s)
  PROVE  IInv'
<1>1. /\ step[t] = "alloc" /\ stack' = [stack EXCEPT ![t] = s]
      /\ data' = [data EXCEPT ![s] = NoStack] /\ step' = [step EXCEPT ![t] = "charge"]
      /\ cached' = cached /\ UNCHANGED refVars
      /\ UNCHANGED <<tries, freeing, charged, counted, nrThreads, maxThreads, processCounts, group, warned>>
  BY DEF Vmalloc, refVars, countVars
<1>2. ASSUME NEW u \in Tasks PROVE stack[u] # s
  BY DEF Vmalloc, Used
<1>3. ASSUME NEW d \in Cpus, NEW j \in Slots PROVE cached'[d][j] # s /\ cached'[d][j] = cached[d][j]
  BY <1>1 DEF Vmalloc, Used
<1>4. cached' \in [Cpus -> [Slots -> Stacks \cup {NoStack}]]
  BY <1>1 DEF IInv, TaskTypeOK
<1> QED
  BY <1>1, <1>2, <1>3, <1>4, TakeKeeps

\* A stack that is being freed: nobody counts on it.
LEMMA FreeingFacts ==
  ASSUME Sizes, IInv, NEW t \in Tasks, freeing[t] # "nobody"
  PROVE  /\ stackRefs[t] = 0 /\ ~Building(t) /\ ~OnStack(t) /\ stack[t] \in Stacks
         /\ stack[t] # NoStack
<1>1. stackRefs[t] = 0
  BY DEF IInv, Of, FreeInv
<1>2. ~Building(t)
  BY EarlyFacts DEF Building
<1>3. ~OnStack(t)
  BY <1>1, ReaderCases DEF One
<1>4. stack[t] # NoStack
  BY DEF IInv, Of, HoldInv
<1> QED
  BY <1>1, <1>2, <1>3, <1>4 DEF IInv, TaskTypeOK

\* The stack leaves the task.
LEMMA GoneKeeps ==
  ASSUME Sizes, IInv, NEW t \in Tasks, freeing[t] # "nobody", StackGone(t), UNCHANGED refVars,
         UNCHANGED <<data, counted, nrThreads, maxThreads, processCounts, group, warned>>,
         tries' \in [Tasks -> 1 .. NrCachedStacks + 1],
         charged' \in [Stacks -> 0 .. StackPages],
         \A s \in Stacks \ {stack[t]} : charged'[s] = charged[s],
         cached' \in [Cpus -> [Slots -> Stacks \cup {NoStack}]],
         OwnInv', CacheInv'
  PROVE  IInv'
<1>1. /\ stackRefs[t] = 0 /\ ~Building(t) /\ ~OnStack(t) /\ stack[t] \in Stacks
      /\ stack[t] # NoStack
  BY FreeingFacts
<1>2. /\ stack'[t] = NoStack /\ freeing'[t] = "nobody"
      /\ step'[t] = IF freeing[t] = "dup" THEN "free" ELSE step[t]
      /\ \A u \in Tasks \ {t} : stack'[u] = stack[u]
      /\ stackRefs' = stackRefs /\ hashed' = hashed
  BY DEF StackGone, IInv, TaskTypeOK, refVars
<1>3. RefInv(t)' /\ FreeInv(t)'
  <2>1. CASE freeing[t] = "dup"
    <3>1. step[t] = "free_stack"
      BY <2>1 DEF IInv, Of, FreeInv
    <3> QED
      BY <1>2, <2>1, <3>1, EarlyRefs
  <2>2. CASE freeing[t] # "dup"
    <3>1. step'[t] = step[t] /\ step[t] # "free_stack"
      BY <1>2, <2>2 DEF IInv, Of, FreeInv
    <3>2. (OnStack(t)' <=> OnStack(t)) /\ (Base(t)' <=> Base(t))
      BY <3>1 DEF OnStack, Base, refVars
    <3>3. RefInv(t)'
      BY <1>2, <3>1, <3>2 DEF IInv, Of, RefInv, refVars, One
    <3>4. FreeInv(t)'
      BY <1>2, <3>1 DEF FreeInv
    <3> QED
      BY <3>3, <3>4
  <2> QED
    BY <2>1, <2>2
<1>4. HoldInv(t)'
  <2>1. ~Building(t)' /\ ~OnStack(t)' /\ step'[t] # "dup"
    BY <1>1, <1>2 DEF Building, OnStack
  <2> QED
    BY <1>1, <1>2, <2>1 DEF HoldInv
<1>5. ASSUME NEW u \in Tasks \ {t} PROVE SameRefs(u) /\ SameStack(u)
  <2>1. SameRefs(u)
    BY DEF StackGone, IInv, TaskTypeOK, refVars, SameRefs
  <2>2. stack[u] # NoStack => stack[u] \in Stacks \ {stack[t]}
    BY DEF IInv, TaskTypeOK, OwnInv
  <2> QED
    BY <1>2, <2>1, <2>2 DEF SameStack
<1>6. TaskTypeOK' /\ warned' = {}
  BY DEF StackGone, IInv, TaskTypeOK, refVars
<1>7. CountedInv'
  <2> SUFFICES ASSUME NEW r \in counted
               PROVE  \E u \in Tasks : stack'[u] = r /\ stackRefs'[u] > 0
    BY DEF CountedInv
  <2>1. PICK u \in Tasks : stack[u] = r /\ stackRefs[u] > 0
    BY DEF IInv, CountedInv
  <2>2. u # t
    BY <1>1, <2>1
  <2> QED
    BY <1>2, <2>1, <2>2
<1>8. ThreadInv'
  BY <1>2 DEF IInv, ThreadInv, Leaders
<1> QED
  BY <1>3, <1>4, <1>5, <1>6, <1>7, <1>8, StepKeeps DEF Of

\* vfree.
LEMMA VfreeKeeps ==
  ASSUME Sizes, IInv, NEW t \in Tasks, Vfree(t)
  PROVE  IInv'
<1>1. /\ freeing[t] # "nobody" /\ StackGone(t) /\ UNCHANGED refVars
      /\ UNCHANGED <<tries, cached, charged>>
      /\ UNCHANGED <<data, counted, nrThreads, maxThreads, processCounts, group, warned>>
  BY DEF Vfree, refVars, countVars
<1>2. /\ stack'[t] = NoStack /\ \A u \in Tasks \ {t} : stack'[u] = stack[u]
  BY <1>1 DEF StackGone, IInv, TaskTypeOK
<1>3. OwnInv'
  <2>1. ASSUME NEW u \in Tasks, stack'[u] # NoStack PROVE u # t /\ stack'[u] = stack[u]
    BY <1>2, <2>1
  <2> QED
    BY <1>1, <2>1 DEF IInv, OwnInv
<1>4. CacheInv'
  BY <1>1 DEF IInv, CacheInv
<1>5. /\ tries' \in [Tasks -> 1 .. NrCachedStacks + 1]
      /\ charged' \in [Stacks -> 0 .. StackPages]
      /\ \A s \in Stacks \ {stack[t]} : charged'[s] = charged[s]
      /\ cached' \in [Cpus -> [Slots -> Stacks \cup {NoStack}]]
  BY <1>1 DEF IInv, TaskTypeOK
<1> QED
  BY <1>1, <1>3, <1>4, <1>5, GoneKeeps

\* One turn of the loop of free_thread_stack.
LEMMA FreeIntoCacheKeeps ==
  ASSUME Sizes, IInv, NEW t \in Tasks, NEW c \in Cpus, FreeIntoCache(t, c)
  PROVE  IInv'
<1> DEFINE i == tries[t]
           s == stack[t]
<1>1. /\ freeing[t] # "nobody" /\ i \in Slots /\ UNCHANGED refVars
      /\ charged' = [charged EXCEPT ![s] = 0] /\ tries' = [tries EXCEPT ![t] = i + 1]
      /\ UNCHANGED <<data, counted, nrThreads, maxThreads, processCounts, group, warned>>
  BY DEF FreeIntoCache, refVars, countVars
<1>2. /\ stackRefs[t] = 0 /\ ~Building(t) /\ ~OnStack(t) /\ s \in Stacks /\ s # NoStack
  BY <1>1, FreeingFacts
<1>3. tries' \in [Tasks -> 1 .. NrCachedStacks + 1]
  BY <1>1 DEF IInv, TaskTypeOK, Sizes, Slots
<1>4. charged' \in [Stacks -> 0 .. StackPages] /\ charged'[s] = 0
      /\ \A r \in Stacks \ {s} : charged'[r] = charged[r]
  BY <1>1, <1>2 DEF IInv, TaskTypeOK, Sizes
<1>5. CASE cached[c][i] = NoStack
  <2>1. cached' = [cached EXCEPT ![c][i] = s] /\ StackGone(t)
    BY <1>5 DEF FreeIntoCache
  <2>2. cached' \in [Cpus -> [Slots -> Stacks \cup {NoStack}]]
    BY <1>2, <2>1 DEF IInv, TaskTypeOK
  <2>3. ASSUME NEW d \in Cpus, NEW j \in Slots
        PROVE  cached'[d][j] = IF d = c /\ j = i THEN s ELSE cached[d][j]
    BY <1>1, <2>1 DEF IInv, TaskTypeOK
  <2>4. ASSUME NEW d \in Cpus, NEW j \in Slots PROVE cached[d][j] # s
    BY <1>2 DEF IInv, OwnInv
  <2>5. stack'[t] = NoStack /\ \A u \in Tasks \ {t} : stack'[u] = stack[u]
    BY <2>1 DEF StackGone, IInv, TaskTypeOK
  <2>6. ASSUME NEW u \in Tasks, stack'[u] # NoStack
        PROVE  u # t /\ stack'[u] = stack[u] /\ stack[u] # s
    BY <2>5, <2>6 DEF IInv, OwnInv
  <2>7. OwnInv'
    <3>1. ASSUME NEW u \in Tasks, NEW v \in Tasks, stack'[u] # NoStack, stack'[u] = stack'[v]
          PROVE  u = v
      BY <2>6, <3>1 DEF IInv, OwnInv
    <3>2. ASSUME NEW d \in Cpus, NEW e \in Cpus, NEW j \in Slots, NEW k \in Slots,
                 cached'[d][j] # NoStack, cached'[d][j] = cached'[e][k]
          PROVE  d = e /\ j = k
      <4>1. CASE cached[d][j] = cached'[d][j] /\ cached[e][k] = cached'[e][k]
        BY <3>2, <4>1 DEF IInv, OwnInv
      <4>2. CASE ~(cached[d][j] = cached'[d][j] /\ cached[e][k] = cached'[e][k])
        BY <2>3, <2>4, <3>2, <4>2
      <4> QED
        BY <4>1, <4>2
    <3>3. ASSUME NEW u \in Tasks, NEW d \in Cpus, NEW j \in Slots, stack'[u] # NoStack
          PROVE  cached'[d][j] # stack'[u]
      <4>1. stack'[u] = stack[u] /\ stack[u] # s
        BY <2>6, <3>3
      <4>2. cached[d][j] # stack[u]
        BY <3>3, <4>1 DEF IInv, OwnInv
      <4> QED
        BY <2>3, <4>1, <4>2
    <3> QED
      BY <3>1, <3>2, <3>3 DEF OwnInv
  <2>8. CacheInv'
    <3> SUFFICES ASSUME NEW d \in Cpus, NEW j \in Slots, cached'[d][j] # NoStack
                 PROVE  charged'[cached'[d][j]] = 0
      BY DEF CacheInv
    <3>1. CASE cached'[d][j] = s
      BY <1>4, <3>1
    <3>2. CASE cached'[d][j] = cached[d][j]
      <4>1. cached[d][j] \in Stacks \ {s} /\ charged[cached[d][j]] = 0
        BY <2>4, <3>2 DEF IInv, TaskTypeOK, CacheInv
      <4> QED
        BY <1>4, <3>2, <4>1
    <3> QED
      BY <2>3, <3>1, <3>2
  <2> QED
    BY <1>1, <1>3, <1>4, <2>1, <2>2, <2>7, <2>8, GoneKeeps
<1>6. CASE cached[c][i] # NoStack
  <2>1. UNCHANGED <<cached, stack, freeing, step>>
    BY <1>6 DEF FreeIntoCache
  <2>2. TaskTypeOK' /\ warned' = {}
    BY <1>1, <1>3, <1>4, <2>1 DEF IInv, TaskTypeOK, refVars
  <2>3. RefInv(t)' /\ FreeInv(t)' /\ ThreadInv' /\ stackRefs' = stackRefs
    BY <1>1, <2>1 DEF IInv, Of, RefInv, FreeInv, OnStack, Base, ThreadInv, Leaders, refVars
  <2>4. HoldInv(t)'
    BY <1>1, <1>2, <2>1, <2>3 DEF IInv, Of, HoldInv, Building, OnStack
  <2>5. ASSUME NEW u \in Tasks \ {t} PROVE SameRefs(u)
    BY <1>1, <2>1 DEF SameRefs, refVars
  <2>6. Of(t)'
    BY <2>3, <2>4 DEF Of
  <2>7. UNCHANGED <<stack, cached>> /\ counted' = counted /\ data' = data
    BY <1>1, <2>1
  <2> QED
    BY <1>2, <1>4, <2>2, <2>3, <2>5, <2>6, <2>7, OwnStackKeeps
<1> QED
  BY <1>5, <1>6

\* free_vm_stack_cache.
LEMMA FreeCacheKeeps ==
  ASSUME IInv, NEW c \in Cpus, FreeCache(c)
  PROVE  IInv'
<1>1. /\ UNCHANGED refVars
      /\ UNCHANGED <<step, tries, freeing, stack, data, charged, counted, nrThreads, maxThreads,
                     processCounts, group, warned>>
      /\ cached' = [cached EXCEPT ![c] = [i \in Slots |-> NoStack]]
  BY DEF FreeCache, refVars, countVars
<1>2. TaskTypeOK' /\ warned' = {}
  BY <1>1 DEF IInv, TaskTypeOK, refVars
<1>3. ASSUME NEW u \in Tasks PROVE Of(u)'
  BY <1>1, SameKept DEF IInv, SameRefs, SameStack, refVars
<1>4. ASSUME NEW d \in Cpus, NEW j \in Slots, cached'[d][j] # NoStack
      PROVE  cached'[d][j] = cached[d][j]
  BY <1>1, <1>4 DEF IInv, TaskTypeOK
<1>5. CountedInv' /\ ThreadInv'
  BY <1>1 DEF IInv, CountedInv, ThreadInv, Leaders, refVars
<1>6. CacheInv'
  BY <1>1, <1>4 DEF IInv, CacheInv
<1>7. OwnInv'
  BY <1>1, <1>4 DEF IInv, OwnInv
<1> QED
  BY <1>2, <1>3, <1>5, <1>6, <1>7 DEF IInv

-----------------------------------------------------------------------------
\* The limit of fork_init is between 1 and MaxThreads.
LEMMA LimitType ==
  ASSUME Sizes
  PROVE  SetMaxThreads(MaxThreads) \in 1 .. MaxThreads
<1> DEFINE e == (RamPages * PageSize) \div (StackPages * PageSize * 8)
           h == IF Fls(RamPages) + Fls(PageSize) > LongBits THEN MaxThreads ELSE e
           m == Min({h, MaxThreads, MaxThreads})
<1>1. MaxThreads \in Nat /\ MinThreads \in 1 .. MaxThreads
  BY DEF Sizes
<1>2. e \in Int
  <2>1. RamPages * PageSize \in Int /\ StackPages * PageSize \in Int
    BY DEF Sizes
  <2>2. StackPages * PageSize > 0
    BY DEF Sizes
  <2>3. StackPages * PageSize * 8 \in Int /\ StackPages * PageSize * 8 > 0
    BY <2>1, <2>2
  <2> QED
    BY <2>1, <2>3
<1>3. h \in Int
  <2> HIDE DEF e
  <2> QED
    BY <1>1, <1>2
<1>4. m \in Int /\ m <= MaxThreads
  <2> HIDE DEF h
  <2>1. \E x \in {h, MaxThreads, MaxThreads} :
          \A y \in {h, MaxThreads, MaxThreads} : x <= y
    <3>1. CASE h <= MaxThreads
      BY <1>1, <1>3, <3>1
    <3>2. CASE ~(h <= MaxThreads)
      BY <1>1, <1>3, <3>2
    <3> QED
      BY <3>1, <3>2
  <2>2. /\ m \in {h, MaxThreads, MaxThreads}
        /\ \A y \in {h, MaxThreads, MaxThreads} : m <= y
    BY <2>1 DEF Min
  <2> HIDE DEF m
  <2> QED
    BY <1>1, <1>3, <2>2
<1>5. Max({MinThreads, m}) \in 1 .. MaxThreads
  <2> HIDE DEF m
  <2>1. \E x \in {MinThreads, m} : \A y \in {MinThreads, m} : x >= y
    <3>1. CASE m <= MinThreads
      BY <1>1, <1>4, <3>1
    <3>2. CASE ~(m <= MinThreads)
      BY <1>1, <1>4, <3>2
    <3> QED
      BY <3>1, <3>2
  <2>2. /\ Max({MinThreads, m}) \in {MinThreads, m}
        /\ \A y \in {MinThreads, m} : Max({MinThreads, m}) >= y
    BY <2>1 DEF Max
  <2> QED
    BY <1>1, <1>4, <2>2
<1> QED
  BY <1>5 DEF SetMaxThreads

\* fork_init establishes the invariant.
LEMMA InitInv ==
  ASSUME Sizes, TaskInit
  PROVE  IInv
<1>1. TaskTypeOK
  <2>1. maxThreads \in 1 .. MaxThreads
    BY LimitType DEF TaskInit
  <2> QED
    BY <2>1 DEF TaskInit, Sizes, TaskTypeOK
<1>2. ASSUME NEW t \in Tasks PROVE Of(t)
  <2>1. /\ step[t] = "free" /\ freeing[t] = "nobody" /\ stack[t] = NoStack
        /\ stackRefs[t] = 0 /\ readers[t] = {} /\ hashed = {} /\ rcu = {}
    BY DEF TaskInit
  <2>2. RefInv(t)
    BY <2>1 DEF RefInv, OnStack, One
  <2>3. FreeInv(t) /\ HoldInv(t)
    BY <2>1 DEF FreeInv, HoldInv, Building, OnStack
  <2> QED
    BY <2>2, <2>3 DEF Of
<1>3. OwnInv /\ CacheInv
  BY DEF TaskInit, OwnInv, CacheInv
<1>4. ThreadInv
  <2>1. hashed = {} /\ Leaders = {}
    BY DEF TaskInit, Leaders
  <2> QED
    BY <2>1, FS_EmptySet, NoneCounted DEF TaskInit, ThreadInv
<1>5. CountedInv /\ warned = {}
  BY DEF TaskInit, CountedInv
<1> QED
  BY <1>1, <1>2, <1>3, <1>4, <1>5 DEF IInv

\* Every step of every task, reader and CPU keeps the invariant.
LEMMA NextKeeps ==
  ASSUME Sizes, IInv, [TaskNext]_taskVars
  PROVE  IInv'
<1>1. CASE UNCHANGED taskVars
  <2> USE <1>1 DEF taskVars, stackVars, refVars, countVars
  <2>1. TaskTypeOK' /\ warned' = {}
    BY DEF IInv, TaskTypeOK
  <2>2. ASSUME NEW u \in Tasks PROVE Of(u)'
    BY SameKept DEF IInv, SameRefs, SameStack
  <2>3. OwnInv' /\ CacheInv' /\ CountedInv' /\ ThreadInv'
    BY DEF IInv, OwnInv, CacheInv, CountedInv, ThreadInv, Leaders
  <2> QED
    BY <2>1, <2>2, <2>3 DEF IInv
<1>2. ASSUME NEW t \in Tasks,
             \/ AllocTask(t) \/ AllocFails(t) \/ DupTask(t) \/ DupTaskFails(t) \/ Vfree(t)
             \/ CheckLimit(t) \/ BadForkFree(t) \/ DelayedFreeTask(t)
             \/ Exit(t) \/ LastSwitch(t) \/ LastSwitchUser(t) \/ DelayedFree(t) \/ RcuPut(t)
             \/ ReaderGet(t) \/ ReaderGetStack(t) \/ ReaderPutStack(t) \/ ReaderPut(t)
             \/ DeThread(t)
      PROVE  IInv'
  BY <1>2, AllocTaskKeeps, AllocFailsKeeps, DupTaskKeeps, DupTaskFailsKeeps, VfreeKeeps,
     CheckLimitKeeps, BadForkFreeKeeps, DelayedFreeTaskKeeps, ExitKeeps, LastSwitchKeeps,
     LastSwitchUserKeeps, DelayedFreeKeeps, RcuPutKeeps, ReaderGetKeeps, ReaderGetStackKeeps,
     ReaderPutStackKeeps, ReaderPutKeeps, DeThreadKeeps
<1>3. ASSUME NEW t \in Tasks, NEW c \in Cpus,
             \/ AllocCached(t, c) \/ FreeIntoCache(t, c) \/ Reap(t, c)
             \/ \E leader \in Tasks : PublishTask(t, c, leader)
      PROVE  IInv'
  BY <1>3, AllocCachedKeeps, FreeIntoCacheKeeps, PublishKeeps, ReapKeeps
<1>4. ASSUME NEW t \in Tasks, NEW s \in Stacks, Vmalloc(t, s) PROVE IInv'
  BY <1>4, VmallocKeeps
<1>5. ASSUME NEW t \in Tasks, NEW n \in 0 .. StackPages, Charge(t, n) PROVE IInv'
  BY <1>5, ChargeKeeps
<1>6. ASSUME NEW c \in Cpus, FreeCache(c) PROVE IInv'
  BY <1>6, FreeCacheKeeps
<1>7. ASSUME NEW n \in 1 .. MaxThreads, SysctlMaxThreads(n) PROVE IInv'
  BY <1>7, SysctlKeeps
<1> QED
  BY <1>1, <1>2, <1>3, <1>4, <1>5, <1>6, <1>7 DEF TaskNext

\* The inductive invariant holds always.
THEOREM Invariance ==
  TaskSpec => []IInv
<1>1. TaskInit => IInv
  BY SizesHold, InitInv
<1>2. IInv /\ [TaskNext]_taskVars => IInv'
  BY SizesHold, NextKeeps
<1> QED
  BY <1>1, <1>2, PTL DEF TaskSpec

\* The counters and pointers of fork.c stay in their types, the limit on
\* threads between 1 and MAX_THREADS.
THEOREM TypesAreKept ==
  TaskSpec => []TaskTypeOK
<1>1. IInv => TaskTypeOK
  BY DEF IInv
<1> QED
  BY <1>1, Invariance, PTL

\* A stack is in one place, whoever reuses it: never under two tasks, never
\* under a task and in a cache, never in two slots.
LEMMA OneHolder ==
  ASSUME IInv, NEW s \in Stacks, Sizes
  PROVE  Cardinality(Holders(s)) <= 1
<1>1. ASSUME NEW x \in Holders(s), NEW y \in Holders(s) PROVE x = y
  <2>1. s # NoStack
    BY DEF Sizes
  <2>2. CASE x \in Tasks /\ stack[x] = s /\ y \in Tasks /\ stack[y] = s
    BY <2>1, <2>2 DEF IInv, OwnInv
  <2>3. CASE /\ x \in Cpus \X Slots /\ cached[x[1]][x[2]] = s
             /\ y \in Cpus \X Slots /\ cached[y[1]][y[2]] = s
    <3>1. x[1] \in Cpus /\ x[2] \in Slots /\ y[1] \in Cpus /\ y[2] \in Slots
          /\ x = <<x[1], x[2]>> /\ y = <<y[1], y[2]>>
      BY <2>3
    <3>2. x[1] = y[1] /\ x[2] = y[2]
      BY <2>1, <2>3, <3>1 DEF IInv, OwnInv
    <3> QED
      BY <3>1, <3>2
  <2>4. ASSUME NEW t \in Tasks, NEW z \in Cpus \X Slots, stack[t] = s, cached[z[1]][z[2]] = s
        PROVE  FALSE
    BY <2>1, <2>4 DEF IInv, OwnInv
  <2> QED
    BY <2>2, <2>3, <2>4 DEF Holders
<1>2. CASE Holders(s) = {}
  BY <1>2, FS_EmptySet
<1>3. CASE Holders(s) # {}
  <2>1. PICK x : x \in Holders(s)
    BY <1>3
  <2>2. Holders(s) = {x}
    BY <1>1, <2>1
  <2>3. Cardinality({x}) = 1
    BY FS_Singleton, Zenon
  <2>4. Cardinality(Holders(s)) = 1
    BY <2>2, <2>3, Zenon
  <2> QED
    BY <2>4
<1> QED
  BY <1>2, <1>3

\* The kernel stacks in the face of reuse (StacksExact), for any tasks, CPUs,
\* cache sizes and stacks.
THEOREM StacksAreExact ==
  TaskSpec => []StacksExact
<1>1. ASSUME IInv PROVE StacksExact
  <2>1. \A s \in Stacks : Cardinality(Holders(s)) <= 1
    BY <1>1, OneHolder, SizesHold
  <2>2. \A t \in Tasks : stackRefs[t] > 0 => data[stack[t]] \in {t, NoStack}
    BY <1>1 DEF IInv, Of, HoldInv
  <2>3. ASSUME NEW c \in Cpus, NEW i \in Slots, cached[c][i] # NoStack
        PROVE  charged[cached[c][i]] = 0 /\ cached[c][i] \notin counted
    <3>1. charged[cached[c][i]] = 0
      BY <1>1, <2>3 DEF IInv, CacheInv
    <3>2. cached[c][i] \notin counted
      BY <1>1, <2>3 DEF IInv, CountedInv, OwnInv
    <3> QED
      BY <3>1, <3>2
  <2>4. ASSUME NEW t \in Tasks, step[t] \in {"new", "allowed", "run", "zombie"}
        PROVE  charged[stack[t]] = StackPages /\ stack[t] \in counted
    <3>1. OnStack(t)
      BY <2>4 DEF OnStack
    <3>2. stackRefs[t] > 0
      BY <1>1, <3>1, ReaderCases DEF One
    <3> QED
      BY <1>1, <3>1, <3>2 DEF IInv, Of, HoldInv
  <2> QED
    BY <2>1, <2>2, <2>3, <2>4 DEF StacksExact
<1>2. IInv => StacksExact
  BY <1>1
<1> QED
  BY <1>2, Invariance, PTL

\* No WARN_ON of free_task or release_task_stack fires, a task_struct is freed
\* without a stack and without a reader, nr_threads counts the tasks that a
\* lookup finds, threads included, and nr_processes their leaders, although one
\* may be counted on one CPU and discounted on another and execve may make a
\* thread the leader (TasksExact).
THEOREM TasksAreExact ==
  TaskSpec => []TasksExact
<1>1. ASSUME IInv PROVE TasksExact
  <2>1. ASSUME NEW t \in Tasks, step[t] = "free"
        PROVE  readers[t] = {} /\ stack[t] = NoStack
    <3>1. readers[t] = {}
      BY <1>1, <2>1 DEF IInv, Of, RefInv
    <3>2. stackRefs[t] = 0
      BY <1>1, <2>1, <3>1, ReaderCases DEF OnStack, One
    <3>3. freeing[t] = "nobody"
      BY <1>1, <2>1 DEF IInv, TaskTypeOK, Of, FreeInv
    <3>4. stack[t] = NoStack
      BY <1>1, <2>1, <3>2, <3>3 DEF IInv, Of, HoldInv, Building
    <3> QED
      BY <3>1, <3>4
  <2> QED
    BY <1>1, <2>1, LoopAddsUp, SizesHold DEF TasksExact, IInv, ThreadInv
<1>2. IInv => TasksExact
  BY <1>1
<1> QED
  BY <1>2, Invariance, PTL

=============================================================================
