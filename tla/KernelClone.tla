----------------------------- MODULE KernelClone -----------------------------
(***************************************************************************)
(* kernel_clone and the system calls that lead to it                       *)
(* (kvm/linux-5.15.178/kernel/fork.c), as seen by the parent: the check of *)
(* the arguments, the wait of vfork for a child that still uses the        *)
(* parent's address space, ended by mm_release or by a fatal signal, and   *)
(* the pidfd, polled while the threads of the child exit.                  *)
(*                                                                         *)
(* The completion of vfork lives on the parent's kernel stack: nobody may  *)
(* touch it once kernel_clone has returned.                                *)
(***************************************************************************)
EXTENDS Integers, FiniteSets

CONSTANTS Children,   \* the processes the parent creates
          Threads,    \* further threads a child may start
          Requests,   \* the calls that are made, as records of the caller's
                      \* entry, flags, exit_signal, stack, stack_size, usize,
                      \* set_tid, set_tid_size, cgroup, pidfd and parent_tid
          Null

VARIABLES at,        \* at[c]: where kernel_clone is, for the child c
          req,       \* req[c]: the request c was made for
          vforkDone, \* vforkDone[c]: c->vfork_done points to the completion
          frame,     \* frame[c]: the completion, "none", "waiting" or "done"
          killed,    \* a fatal signal is pending for the parent
          child,     \* child[c]: what c is doing
          leaving,   \* leaving[c]: why c leaves its address space
          usesMm,    \* the children that use the parent's address space
          scribbled, \* writes of c after the parent had gone on (history)
          childUsage, \* childUsage[c]: references to the task_struct of c
          threads,   \* threads[c]: threads of c, besides the leader
          pidRefs,   \* pidRefs[c]: references to the struct pid of c
          pidTask,   \* the pids that still have a task
          pidfd,     \* pidfd[c]: "closed", "open", and "polling" or "asleep"
          queued,    \* the pidfds whose poller is in wait_pidfd
          ready,     \* the pidfds a poller was told about
          dangling   \* completions of frames that were gone (history)

waitVars == <<at, vforkDone, frame, killed, dangling>>
childVars == <<child, leaving, usesMm, childUsage, threads, scribbled>>
pidVars == <<pidRefs, pidTask, pidfd, queued, ready>>
cloneVars == <<waitVars, req, childVars, pidVars>>

-----------------------------------------------------------------------------
(***************************************************************************)
(* The arguments.                                                          *)
(***************************************************************************)
\* Of CLONE_LEGACY_FLAGS, those that are told apart here.
LegacyFlags ==
  {"VM", "FS", "FILES", "SIGHAND", "PIDFD", "VFORK", "PARENT", "THREAD", "PARENT_SETTID",
   "CHILD_CLEARTID", "DETACHED", "UNTRACED"}

\* copy_clone_args_from_user; sizes are versions of the structure, 3 a page.
CopyArgsOk(r) ==
  /\ r.usize \in 0 .. 2
  /\ r.set_tid = (r.set_tid_size > 0) /\ r.set_tid_size <= 1
  /\ r.exit_signal \in {"none", "SIGCHLD"}
  /\ "INTO_CGROUP" \in r.flags => r.cgroup /\ r.usize = 2

\* clone3_args_valid and clone3_stack_valid
Clone3ArgsValid(r) ==
  /\ r.flags \subseteq LegacyFlags \cup {"CLEAR_SIGHAND", "INTO_CGROUP"}
  /\ "DETACHED" \notin r.flags
  /\ ~({"SIGHAND", "CLEAR_SIGHAND"} \subseteq r.flags)
  /\ r.flags \cap {"THREAD", "PARENT"} # {} => r.exit_signal = "none"
  /\ r.stack = (r.stack_size > 0)

\* What each entry hands to kernel_clone: fork and vfork fix their flags,
\* kernel_thread adds its own, clone uses one pointer for
\* the pidfd and the parent's tid.
Args(r) ==
  CASE r.entry = "fork" -> [r EXCEPT !.flags = {}, !.exit_signal = "SIGCHLD"]
    [] r.entry = "vfork" -> [r EXCEPT !.flags = {"VFORK", "VM"}, !.exit_signal = "SIGCHLD"]
    [] r.entry = "kernel_thread" -> [r EXCEPT !.flags = @ \cup {"VM", "UNTRACED"}]
    [] r.entry = "clone" -> [r EXCEPT !.pidfd = r.parent_tid]
    [] OTHER -> r

\* No request is the value that stands for none.
NullIsNoRequest == \A r \in Requests : Args(r) # Null

ASSUME NullHolds == NullIsNoRequest

\* The system call clone3 goes on to kernel_clone.
Clone3(r) == CopyArgsOk(r) /\ Clone3ArgsValid(r)

\* The request reaches copy_process.
Accepted(r) ==
  /\ r.entry = "clone3" => Clone3(r)
  /\ LET a == Args(r)
     IN  ~({"PIDFD", "PARENT_SETTID"} \subseteq a.flags /\ a.pidfd = a.parent_tid)

HasFlag(c, f) == req[c] # Null /\ f \in req[c].flags

CloneInit ==
  /\ at = [c \in Children |-> "none"]
  /\ req = [c \in Children |-> Null]
  /\ vforkDone = [c \in Children |-> FALSE]
  /\ frame = [c \in Children |-> "none"]
  /\ killed = FALSE
  /\ child = [c \in Children |-> "none"]
  /\ leaving = [c \in Children |-> "exit"]
  /\ usesMm = {} /\ scribbled = {}
  /\ childUsage = [c \in Children |-> 0]
  /\ threads = [c \in Children |-> {}]
  /\ pidRefs = [c \in Children |-> 0]
  /\ pidTask = {}
  /\ pidfd = [c \in Children |-> "closed"]
  /\ queued = {} /\ ready = {} /\ dangling = {}

-----------------------------------------------------------------------------
(***************************************************************************)
(* kernel_clone, in the parent: one call at a time.                        *)
(***************************************************************************)
Idle == \A c \in Children : at[c] \in {"none", "returned"}

\* -EINVAL for a request that is not accepted, or an error of copy_process:
\* nothing remains (CopyProcess).
Refuse(c, r) ==
  /\ Idle /\ at[c] = "none"
  /\ at' = [at EXCEPT ![c] = "returned"]
  /\ UNCHANGED <<req, vforkDone, frame, killed, dangling, childVars, pidVars>>

\* copy_process succeeds; get_task_pid; vfork_done is set and the task pinned.
Clone(c, r) ==
  /\ Idle /\ at[c] = "none"
  /\ Accepted(r)
  /\ LET a == Args(r)
         vfork == "VFORK" \in a.flags
     IN  /\ req' = [req EXCEPT ![c] = a]
         /\ usesMm' = IF "VM" \in a.flags THEN usesMm \cup {c} ELSE usesMm
         /\ vforkDone' = [vforkDone EXCEPT ![c] = vfork]
         /\ frame' = [frame EXCEPT ![c] = IF vfork THEN "waiting" ELSE "none"]
         /\ childUsage' = [childUsage EXCEPT ![c] = IF vfork THEN 2 ELSE 1]
         /\ pidRefs' = [pidRefs EXCEPT ![c] = IF "PIDFD" \in a.flags THEN 3 ELSE 2]
         /\ pidfd' = [pidfd EXCEPT ![c] = IF "PIDFD" \in a.flags THEN "open" ELSE "closed"]
  /\ pidTask' = pidTask \cup {c}
  /\ child' = [child EXCEPT ![c] = "new"]
  /\ at' = [at EXCEPT ![c] = "wake"]
  /\ UNCHANGED <<killed, dangling, leaving, threads, scribbled, queued, ready>>

\* wake_up_new_task
Wake(c) ==
  /\ at[c] = "wake"
  /\ child' = [child EXCEPT ![c] = "run"]
  /\ at' = [at EXCEPT ![c] = IF HasFlag(c, "VFORK") THEN "wait" ELSE "put"]
  /\ UNCHANGED <<req, vforkDone, frame, killed, dangling, leaving, usesMm, childUsage, threads,
                 scribbled, pidVars>>

\* A fatal signal for the parent.
Kill ==
  /\ ~killed
  /\ killed' = TRUE
  /\ UNCHANGED <<at, vforkDone, frame, dangling, req, childVars, pidVars>>

\* wait_for_vfork_done: the completion came, or the wait was killed.
WaitDone(c) ==
  /\ at[c] = "wait"
  /\ frame[c] = "done"
  /\ at' = [at EXCEPT ![c] = "put_task"]
  /\ UNCHANGED <<req, vforkDone, frame, killed, dangling, childVars, pidVars>>

\* Mutant: a killed parent leaves vfork_done as it is.
WaitKilledLeaves(c) ==
  /\ at[c] = "wait"
  /\ killed /\ frame[c] # "done"
  /\ at' = [at EXCEPT ![c] = "put_task"]
  /\ UNCHANGED <<req, vforkDone, frame, killed, dangling, childVars, pidVars>>

WaitKilled(c) ==
  /\ at[c] = "wait"
  /\ killed /\ frame[c] # "done"
  /\ at' = [at EXCEPT ![c] = "unset"]
  /\ UNCHANGED <<req, vforkDone, frame, killed, dangling, childVars, pidVars>>

\* Under task_lock(child): the child is told not to touch the completion;
\* it may have done so since the wait ended.
UnsetVfork(c) ==
  /\ at[c] = "unset"
  /\ vforkDone' = [vforkDone EXCEPT ![c] = FALSE]
  /\ at' = [at EXCEPT ![c] = "put_task"]
  /\ UNCHANGED <<req, frame, killed, dangling, childVars, pidVars>>

PutTaskStruct(c) ==
  /\ at[c] = "put_task"
  /\ childUsage' = [childUsage EXCEPT ![c] = @ - 1]
  /\ at' = [at EXCEPT ![c] = "put"]
  /\ UNCHANGED <<req, vforkDone, frame, killed, dangling, child, leaving, usesMm, threads,
                 scribbled, pidVars>>

\* put_pid, and the frame is gone.
CloneReturns(c) ==
  /\ at[c] = "put"
  /\ pidRefs' = [pidRefs EXCEPT ![c] = @ - 1]
  /\ frame' = [frame EXCEPT ![c] = "none"]
  /\ at' = [at EXCEPT ![c] = "returned"]
  /\ UNCHANGED <<req, vforkDone, killed, dangling, childVars, pidTask, pidfd, queued, ready>>

-----------------------------------------------------------------------------
(***************************************************************************)
(* The child.  execve and exit call mm_release: it clears the child's tid  *)
(* in memory, looks at vfork_done without a lock, and complete_vfork_done  *)
(* looks again under task_lock.                                            *)
(***************************************************************************)
\* The parent went on because the child let it, and uses its memory again.
Resumed(c) == HasFlag(c, "VFORK") /\ frame[c] # "waiting" /\ ~killed

\* A user program, or an interrupted execve, starts to leave; external:
\* de_thread has ended the other threads before execve gets here.
MmRelease(c, how) ==
  /\ child[c] = "run"
  /\ how = "exec" => threads[c] = {}
  /\ child' = [child EXCEPT ![c] = "clear_tid"]
  /\ leaving' = [leaving EXCEPT ![c] = how]
  /\ UNCHANGED <<waitVars, req, usesMm, childUsage, threads, scribbled, pidVars>>

\* put_user(0, clear_child_tid), unless a core is dumped (coredump) or the
\* memory has no other user; then the first look at vfork_done.
ClearTid(c, coredump) ==
  /\ child[c] = "clear_tid"
  /\ LET writes == HasFlag(c, "CHILD_CLEARTID") /\ ~coredump
                   /\ (c \in usesMm \/ threads[c] # {})
     IN  scribbled' = IF writes /\ c \in usesMm /\ Resumed(c)
                      THEN scribbled \cup {c} ELSE scribbled
  /\ child' = [child EXCEPT ![c] = IF vforkDone[c] THEN "complete" ELSE "left"]
  /\ UNCHANGED <<waitVars, req, leaving, usesMm, childUsage, threads, pidVars>>

CompleteVfork(c) ==
  /\ child[c] = "complete"
  /\ vforkDone' = [vforkDone EXCEPT ![c] = FALSE]
  /\ frame' = [frame EXCEPT ![c] = IF vforkDone[c] /\ @ = "waiting" THEN "done" ELSE @]
  /\ dangling' = IF vforkDone[c] /\ frame[c] = "none" THEN dangling \cup {c} ELSE dangling
  /\ child' = [child EXCEPT ![c] = "left"]
  /\ UNCHANGED <<at, killed, req, leaving, usesMm, childUsage, threads, scribbled, pidVars>>

\* The mm is put; the child runs another program, or exits.
LeaveMm(c) ==
  /\ child[c] = "left"
  /\ usesMm' = usesMm \ {c}
  /\ child' = [child EXCEPT ![c] = IF leaving[c] = "exec" THEN "run" ELSE "exiting"]
  /\ UNCHANGED <<waitVars, req, leaving, childUsage, threads, scribbled, pidVars>>

StartThread(c, h) ==
  /\ child[c] = "run"
  /\ h \notin threads[c]
  /\ threads' = [threads EXCEPT ![c] = @ \cup {h}]
  /\ UNCHANGED <<waitVars, req, child, leaving, usesMm, childUsage, scribbled, pidVars>>

-----------------------------------------------------------------------------
(***************************************************************************)
(* Exit of the child's threads, and the pidfd.                             *)
(***************************************************************************)
\* external: thread_group_exited
GroupExited(c) == c \notin pidTask \/ (child[c] = "zombie" /\ threads[c] = {})

\* external: the task that empties the group wakes those in wait_pidfd.
Notify(c, gone) ==
  /\ queued' = IF gone THEN queued \ {c} ELSE queued
  /\ pidfd' = [pidfd EXCEPT ![c] = IF gone /\ @ = "asleep" THEN "polling" ELSE @]

ExitLeader(c) ==
  /\ child[c] = "exiting"
  /\ child' = [child EXCEPT ![c] = "zombie"]
  /\ Notify(c, threads[c] = {})
  /\ UNCHANGED <<waitVars, req, leaving, usesMm, childUsage, threads, scribbled, pidRefs, pidTask,
                 ready>>

ExitThread(c, h) ==
  /\ h \in threads[c]
  /\ threads' = [threads EXCEPT ![c] = @ \ {h}]
  /\ Notify(c, child[c] = "zombie" /\ threads[c] = {h})
  /\ UNCHANGED <<waitVars, req, child, leaving, usesMm, childUsage, scribbled, pidRefs, pidTask,
                 ready>>

\* external: wait4 reaps the child; the pid loses its task.
ReapChild(c) ==
  /\ child[c] = "zombie" /\ threads[c] = {}
  /\ child' = [child EXCEPT ![c] = "reaped"]
  /\ childUsage' = [childUsage EXCEPT ![c] = @ - 1]
  /\ pidTask' = pidTask \ {c}
  /\ pidRefs' = [pidRefs EXCEPT ![c] = @ - 1]
  /\ UNCHANGED <<waitVars, req, leaving, usesMm, threads, scribbled, pidfd, queued, ready>>

\* Mutant: the group is looked at before the poller is queued.
PollLate(c) ==
  /\ pidfd[c] = "open"
  /\ pidfd' = [pidfd EXCEPT ![c] = IF GroupExited(c) THEN "polling" ELSE "asleep"]
  /\ UNCHANGED <<waitVars, req, childVars, pidRefs, pidTask, queued, ready>>

\* pidfd_poll: poll_wait, and then the look at the thread group.
Poll(c) ==
  /\ pidfd[c] = "open"
  /\ queued' = queued \cup {c}
  /\ pidfd' = [pidfd EXCEPT ![c] = "polling"]
  /\ UNCHANGED <<waitVars, req, childVars, pidRefs, pidTask, ready>>

PollCheck(c) ==
  /\ pidfd[c] = "polling"
  /\ IF GroupExited(c)
     THEN /\ ready' = ready \cup {c}
          /\ queued' = queued \ {c}
          /\ pidfd' = [pidfd EXCEPT ![c] = "open"]
     ELSE /\ pidfd' = [pidfd EXCEPT ![c] = "asleep"]
          /\ queued' = queued \cup {c}
          /\ UNCHANGED ready
  /\ UNCHANGED <<waitVars, req, childVars, pidRefs, pidTask>>

\* pidfd_release
PidfdRelease(c) ==
  /\ pidfd[c] = "open"
  /\ pidfd' = [pidfd EXCEPT ![c] = "closed"]
  /\ pidRefs' = [pidRefs EXCEPT ![c] = @ - 1]
  /\ UNCHANGED <<waitVars, req, childVars, pidTask, queued, ready>>

\* pidfd_show_fdinfo: the number (1 stands for any), or -1 once the task is reaped.
FdInfo(c) == IF c \in pidTask THEN 1 ELSE -1

CloneNext ==
  \/ Kill
  \/ \E c \in Children :
       \/ \E r \in Requests : Refuse(c, r) \/ Clone(c, r)
       \/ Wake(c) \/ WaitDone(c) \/ WaitKilled(c) \/ UnsetVfork(c) \/ PutTaskStruct(c)
       \/ CloneReturns(c)
       \/ \E how \in {"exec", "exit"} : MmRelease(c, how)
       \/ \E coredump \in BOOLEAN : ClearTid(c, coredump)
       \/ CompleteVfork(c) \/ LeaveMm(c) \/ ExitLeader(c) \/ ReapChild(c)
       \/ \E h \in Threads : StartThread(c, h) \/ ExitThread(c, h)
       \/ Poll(c) \/ PollCheck(c) \/ PidfdRelease(c)

CloneSpec == CloneInit /\ [][CloneNext]_cloneVars
-----------------------------------------------------------------------------
\* Every variable has its type.
CloneTypeOK ==
  /\ at \in [Children -> {"none", "wake", "wait", "unset", "put_task", "put", "returned"}]
  /\ req \in [Children -> {Args(r) : r \in Requests} \cup {Null}]
  /\ vforkDone \in [Children -> BOOLEAN]
  /\ frame \in [Children -> {"none", "waiting", "done"}]
  /\ killed \in BOOLEAN
  /\ child \in [Children -> {"none", "new", "run", "clear_tid", "complete", "left", "exiting",
                             "zombie", "reaped"}]
  /\ leaving \in [Children -> {"exec", "exit"}]
  /\ childUsage \in [Children -> 0 .. 2]
  /\ pidRefs \in [Children -> 0 .. 3]
  /\ threads \in [Children -> SUBSET Threads]
  /\ pidfd \in [Children -> {"closed", "open", "polling", "asleep"}]
  /\ \A S \in {usesMm, scribbled, pidTask, queued, ready, dangling} : S \subseteq Children

\* A vfork is safe for both: nobody completes a completion whose stack frame
\* is gone; as long as the child has the pointer the frame is there and the
\* task of the child is pinned; and a parent that was not killed never runs
\* while the child still runs in, or writes to, the shared memory
\* (kernel_clone, wait_for_vfork_done, mm_release, complete_vfork_done).
VforkSafe ==
  /\ dangling = {} /\ scribbled = {}
  /\ \A c \in Children :
       /\ vforkDone[c] => at[c] \in {"wake", "wait", "unset"} /\ frame[c] = "waiting"
       /\ at[c] \in {"wait", "unset", "put_task"} => childUsage[c] >= 1
       /\ ~killed /\ at[c] = "returned" /\ HasFlag(c, "VFORK") /\ c \in usesMm
            => child[c] = "left"

\* A poller of a pidfd is not forgotten: one that sleeps is queued where the
\* last exit of the group looks, and it never sleeps once the whole group is
\* gone; it is told so, and fdinfo shows no pid, only then.  The struct pid it
\* uses is counted exactly: by its task, by kernel_clone until it returns, and
\* by the file (pidfd_poll, pidfd_release, copy_process, kernel_clone).
PidfdFaithful ==
  \A c \in Children :
    /\ pidfd[c] = "asleep" => c \in queued /\ ~GroupExited(c)
    /\ c \in ready \/ (at[c] # "none" /\ req[c] # Null /\ FdInfo(c) = -1) => GroupExited(c)
    /\ pidRefs[c] = Cardinality({x \in {"task", "clone", "file"} :
                       \/ x = "task" /\ c \in pidTask
                       \/ x = "clone" /\ at[c] \notin {"none", "returned"}
                       \/ x = "file" /\ pidfd[c] # "closed"})
=============================================================================
