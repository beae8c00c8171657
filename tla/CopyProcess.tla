---------------------------- MODULE CopyProcess ----------------------------
(***************************************************************************)
(* One call of copy_process (kvm/linux-5.15.178/kernel/fork.c): the stages *)
(* that give a new task its resources, the failure each can meet, and the  *)
(* bad_fork labels that take back what was given, falling from one to the  *)
(* next; concurrently, signals are sent to the process group.              *)
(*                                                                         *)
(* Some objects are shared with the parent under a clone flag and counted; *)
(* dup_task_struct copies the pointers to them before anything is counted, *)
(* so releasing one too early would take the parent's reference.           *)
(***************************************************************************)
EXTENDS Naturals, Sequences, FiniteSets, SequencesExt

CONSTANTS Flags,    \* the clone flags that are tried
          Signals,  \* signals sent to the process group
          Fatal     \* those that kill

\* The objects the parent may share, and the flag that shares each.
Shared == {"files", "fs", "sighand", "signal", "mm", "io"}
ShareFlag ==
  [files |-> "FILES", fs |-> "FS", sighand |-> "SIGHAND", signal |-> "THREAD",
   mm |-> "VM", io |-> "IO"]

\* The stages after dup_task_struct, in order.
Stages ==
  <<"creds", "limits", "mempolicy", "sched", "perf", "audit", "security",
    "semundo", "files", "fs", "sighand", "signal", "mm", "namespaces", "io",
    "thread", "pid", "pidfd", "put_pidfd", "kv", "cgroup", "publish">>

\* The label a failing stage jumps to, named for what is released there.
Gotos ==
  [creds |-> "free", limits |-> "count", mempolicy |-> "delayacct",
   sched |-> "policy", perf |-> "policy", audit |-> "perf",
   security |-> "audit", semundo |-> "security", files |-> "semundo",
   fs |-> "files", sighand |-> "fs", signal |-> "sighand", mm |-> "signal",
   namespaces |-> "mm", io |-> "namespaces", thread |-> "io",
   pid |-> "thread", pidfd |-> "pid", put_pidfd |-> "pidfd",
   cgroup |-> "pidfd", publish |-> "cgroup"]

\* Mutants: a label too high for copy_files, one too low for cgroup_can_fork.
FailsToHigher == [Gotos EXCEPT !.files = "files"]
FailsToLower == [Gotos EXCEPT !.cgroup = "pid"]

FailsTo == Gotos

\* The labels, in the order in which they fall through.
Labels ==
  <<"cgroup", "pidfd", "pid", "thread", "io", "namespaces", "mm", "signal",
    "sighand", "fs", "files", "semundo", "security", "audit", "perf",
    "policy", "delayacct", "count", "free", "fork_out">>

VARIABLES pc,       \* <<"stage", s>>, <<"label", l>> or <<"out", result>>
          flags,    \* the clone flags of the call
          kthread,  \* current has neither mm nor files
          ptr,      \* ptr[o]: where the child's pointer points
          refs,     \* refs[o]: references to the parent's object
          own,      \* what was allocated for the child
          locks,    \* tasklist_lock and siglock, when copy_process holds them
          node,     \* delayed.node is in the list of the parent's group
          delayed,  \* delayed.signal
          pending,  \* signals pending for current
          sent,     \* signals sent to the group since the call began (history)
          childPending  \* signals pending for the child's group

resVars == <<ptr, refs, own>>
sigVars == <<node, delayed, pending, sent, childPending>>
copyVars == <<pc, flags, kthread, resVars, locks, sigVars>>

Stage(s) == pc = <<"stage", s>>
Label(l) == pc = <<"label", l>>
Out(result) == pc = <<"out", result>>
Following(seq, x) == seq[CHOOSE i \in 2 .. Len(seq) : seq[i - 1] = x]
Advance(s) == pc' = <<"stage", Following(Stages, s)>>
Jump(s) == pc' = <<"label", FailsTo[s]>>

\* What current may be: unkillable, with other namespaces for its children.
Currents == {"unkillable", "pid_ns_for_children", "time_ns_for_children"}

\* The calls that copy_process refuses, with no effect.
Refused(fl, current) ==
  \/ {"NEWNS", "FS"} \subseteq fl
  \/ {"NEWUSER", "FS"} \subseteq fl
  \/ "THREAD" \in fl /\ "SIGHAND" \notin fl
  \/ "SIGHAND" \in fl /\ "VM" \notin fl
  \/ "PARENT" \in fl /\ "unkillable" \in current
  \/ "THREAD" \in fl /\ (fl \cap {"NEWUSER", "NEWPID"} # {} \/ "pid_ns_for_children" \in current)
  \/ fl \cap {"THREAD", "VM"} # {} /\ "time_ns_for_children" \in current
  \/ "PIDFD" \in fl /\ fl \cap {"DETACHED", "THREAD"} # {}

CopyInit ==
  /\ pc = <<"out", "none">>
  /\ flags = {}
  /\ kthread \in BOOLEAN
  /\ ptr = [o \in Shared |-> "null"]
  /\ refs = [o \in Shared |-> 1]
  /\ own = {} /\ locks = {}
  /\ node = FALSE /\ delayed = {} /\ pending = {} /\ sent = {}
  /\ childPending = {}

-----------------------------------------------------------------------------
\* Mutant: the call does not register for the signals of the group.
BeginUnregistered(fl, current) ==
  /\ Out("none")
  /\ ~Refused(fl, current)
  /\ flags' = fl
  /\ pc' = <<"stage", "sigpending">>
  /\ UNCHANGED <<kthread, resVars, locks, sigVars>>

\* The call begins: a process registers for the signals of the group.
Begin(fl, current) ==
  /\ Out("none")
  /\ ~Refused(fl, current)
  /\ flags' = fl
  /\ node' = ("THREAD" \notin fl)
  /\ pc' = <<"stage", "sigpending">>
  /\ UNCHANGED <<kthread, resVars, locks, delayed, pending, sent, childPending>>

\* -ERESTARTNOINTR: signals received so far are handled before the fork.
Restart ==
  /\ Stage("sigpending")
  /\ pending # {}
  /\ pc' = <<"label", "fork_out">>
  /\ UNCHANGED <<flags, kthread, resVars, locks, sigVars>>

\* dup_task_struct: the child's pointers are those of the parent.
Dup ==
  /\ Stage("sigpending")
  /\ pending = {}
  /\ ptr' = [o \in Shared |-> IF kthread /\ o \in {"files", "mm"} THEN "null" ELSE "parent"]
  /\ own' = {"task"}
  /\ pc' = <<"stage", "creds">>
  /\ UNCHANGED <<flags, kthread, refs, locks, sigVars>>

DupFails ==
  /\ Stage("sigpending")
  /\ pending = {}
  /\ pc' = <<"label", "fork_out">>
  /\ UNCHANGED <<flags, kthread, resVars, locks, sigVars>>

\* What the stages that share nothing allocate.  delayacct_tsk_init and
\* cgroup_fork come with the limits, and p->io_context is cleared there; the
\* rest of the assignments to the child between the stages is not modelled.
Gains ==
  [creds |-> {"count"}, limits |-> {"delayacct"}, mempolicy |-> {"policy"},
   sched |-> {}, perf |-> {"perf"}, audit |-> {"audit"}, security |-> {"security"},
   semundo |-> {"semundo"}, namespaces |-> {"namespaces"}, thread |-> {"thread"},
   pid |-> {"pid"}, cgroup |-> {"cgroup"}]

Take(s) ==
  /\ Stage(s)
  /\ own' = own \cup Gains[s]
  /\ ptr' = IF s = "limits" THEN [ptr EXCEPT !["io"] = "null"] ELSE ptr
  /\ locks' = IF s = "cgroup" THEN {"tasklist", "siglock"} ELSE locks
  /\ Advance(s)
  /\ UNCHANGED <<flags, kthread, refs, sigVars>>

\* copy_files, copy_fs, copy_sighand, copy_signal, copy_mm and copy_io, with
\* the flag: the parent's object is used, and counted unless it is the signal
\* struct, which is counted when the child is published.
Share(o) ==
  /\ Stage(o)
  /\ ShareFlag[o] \in flags
  /\ ~(kthread /\ o \in {"files", "mm"})
  /\ ptr' = [ptr EXCEPT ![o] = "parent"]
  /\ refs' = IF o = "signal" THEN refs ELSE [refs EXCEPT ![o] = @ + 1]
  /\ Advance(o)
  /\ UNCHANGED <<flags, kthread, own, locks, sigVars>>

\* The same without the flag: the child gets a copy.
Copy(o) ==
  /\ Stage(o)
  /\ ShareFlag[o] \notin flags
  /\ ~(kthread /\ o \in {"files", "mm"})
  /\ ptr' = [ptr EXCEPT ![o] = "child"]
  /\ own' = own \cup {o}
  /\ Advance(o)
  /\ UNCHANGED <<flags, kthread, refs, locks, sigVars>>

\* The parent has no such object, or an io_context without a priority.
Nothing(o) ==
  /\ Stage(o)
  /\ (kthread /\ o \in {"files", "mm"}) \/ o = "io"
  /\ ptr' = [ptr EXCEPT ![o] = "null"]
  /\ Advance(o)
  /\ UNCHANGED <<flags, kthread, refs, own, locks, sigVars>>

\* CLONE_PIDFD: a descriptor and a file, and the number for user space; the
\* descriptor is put back at once when there is no file for it.
Pidfd ==
  /\ Stage("pidfd")
  /\ own' = IF "PIDFD" \in flags THEN own \cup {"pidfd"} ELSE own
  /\ Advance("pidfd")
  /\ UNCHANGED <<flags, kthread, ptr, refs, locks, sigVars>>

PutPidfd ==
  /\ Stage("put_pidfd")
  /\ Advance("put_pidfd")
  /\ UNCHANGED <<flags, kthread, resVars, locks, sigVars>>

\* The key-value store: shared by a thread, made for a process.  When it
\* cannot be made the call goes on.
Kv ==
  /\ Stage("kv")
  /\ own' \in (IF "THREAD" \in flags THEN {own} ELSE {own, own \cup {"kv"}})
  /\ Advance("kv")
  /\ UNCHANGED <<flags, kthread, ptr, refs, locks, sigVars>>

(***************************************************************************)
(* A stage fails.  copy_sighand, copy_signal and copy_fs leave a null      *)
(* pointer; the others leave the pointer as it is.  copy_mm cleared it.    *)
(***************************************************************************)
CanFail(s) ==
  CASE s \in {"files", "mm"} -> ~kthread /\ ShareFlag[s] \notin flags
    [] s \in {"sighand", "signal", "io"} -> ShareFlag[s] \notin flags
    [] s \in {"pidfd", "put_pidfd"} -> "PIDFD" \in flags
    [] OTHER -> s \notin {"kv", "publish"}

StageFails(s) ==
  /\ Stage(s)
  /\ CanFail(s)
  /\ ptr' = IF s \in {"sighand", "signal", "mm", "io"} \/ (s = "fs" /\ "FS" \notin flags)
            THEN [ptr EXCEPT ![s] = "null"] ELSE ptr
  /\ Jump(s)
  /\ UNCHANGED <<flags, kthread, refs, own, locks, sigVars>>

\* Under both locks: a dying pid namespace or a fatal signal is the last
\* failure there can be.
LastFailure ==
  /\ Stage("publish")
  /\ Jump("publish")
  /\ UNCHANGED <<flags, kthread, resVars, locks, sigVars>>

\* The child becomes visible, with the signals that came in the meantime.
Publish ==
  /\ Stage("publish")
  /\ pending \cap Fatal = {}
  /\ refs' = IF "THREAD" \in flags THEN [refs EXCEPT !["signal"] = @ + 1] ELSE refs
  /\ childPending' = IF "THREAD" \in flags THEN {} ELSE delayed
  /\ node' = FALSE
  /\ locks' = {}
  /\ pc' = <<"out", "child">>
  /\ UNCHANGED <<flags, kthread, ptr, own, delayed, pending, sent>>

-----------------------------------------------------------------------------
\* Releasing the child's object o through its pointer.
Release(o) ==
  /\ refs' = IF ptr[o] = "parent" THEN [refs EXCEPT ![o] = @ - 1] ELSE refs
  /\ own' = IF ptr[o] = "child" THEN own \ {o} ELSE own

\* free_signal_struct is only for a process; the others release what there is.
UnwindShared(l) ==
  /\ l \in Shared
  /\ Label(l)
  /\ IF l = "signal" /\ "THREAD" \in flags THEN UNCHANGED <<refs, own>> ELSE Release(l)
  /\ pc' = <<"label", Following(Labels, l)>>
  /\ UNCHANGED <<flags, kthread, ptr, locks, sigVars>>

UnwindOwn(l) ==
  /\ l \notin Shared \cup {"fork_out"}
  /\ Label(l)
  /\ own' = own \ (IF l = "free" THEN {"task"} ELSE {l})
  /\ locks' = IF l = "cgroup" THEN {} ELSE locks
  /\ pc' = <<"label", Following(Labels, l)>>
  /\ UNCHANGED <<flags, kthread, ptr, refs, sigVars>>

ForkOut ==
  /\ Label("fork_out")
  /\ node' = FALSE
  /\ pc' = <<"out", "error">>
  /\ UNCHANGED <<flags, kthread, resVars, locks, delayed, pending, sent, childPending>>

-----------------------------------------------------------------------------
\* kill of the whole process group: pending for current, and noted for the
\* processes being created.  siglock protects both.
SendSignal(sig) ==
  /\ "siglock" \notin locks
  /\ sig \notin sent
  /\ pc[1] # "out"
  /\ sent' = sent \cup {sig}
  /\ pending' = pending \cup {sig}
  /\ delayed' = IF node THEN delayed \cup {sig} ELSE delayed
  /\ UNCHANGED <<pc, flags, kthread, resVars, locks, node, childPending>>

Work ==
  \/ Restart \/ Dup \/ DupFails
  \/ \E s \in DOMAIN Gains : Take(s)
  \/ \E o \in Shared : Share(o) \/ Copy(o) \/ Nothing(o)
  \/ Pidfd \/ PutPidfd \/ Kv \/ Publish \/ LastFailure
  \/ \E s \in DOMAIN FailsTo : StageFails(s)
  \/ \E l \in Range(Labels) : UnwindShared(l) \/ UnwindOwn(l)
  \/ ForkOut

CopyNext ==
  \/ \E fl \in SUBSET Flags, current \in SUBSET Currents : Begin(fl, current)
  \/ Work
  \/ \E sig \in Signals : SendSignal(sig)

CopySpec == CopyInit /\ [][CopyNext]_copyVars

-----------------------------------------------------------------------------
\* The type invariant of the call and its resources.
CopyTypeOK ==
  /\ pc \in ({"stage"} \X (Range(Stages) \cup {"sigpending"}))
            \cup ({"label"} \X Range(Labels)) \cup ({"out"} \X {"none", "child", "error"})
  /\ flags \subseteq Flags
  /\ kthread \in BOOLEAN
  /\ ptr \in [Shared -> {"null", "parent", "child"}]
  /\ refs \in [Shared -> Nat]
  /\ own \subseteq Shared \cup Range(Labels) \cup {"task", "kv"}
  /\ locks \subseteq {"tasklist", "siglock"}
  /\ node \in BOOLEAN
  /\ delayed \subseteq Signals
  /\ pending \subseteq Signals
  /\ sent \subseteq Signals
  /\ childPending \subseteq Signals

\* The parent keeps its reference to each shared object at every moment; after
\* a failed call it has it alone, and after a successful one the child has
\* one more exactly where its pointer leads to the parent's object.
RefsExact ==
  /\ \A o \in Shared : refs[o] >= 1
  /\ Out("error") => \A o \in Shared : refs[o] = 1
  /\ Out("child") => \A o \in Shared : refs[o] = IF ptr[o] = "parent" THEN 2 ELSE 1

\* A failed call gives back everything it took, the locks and its place in the
\* list of forks included; the one exception is the key-value store.
CleanFailure ==
  Out("error") => own \subseteq {"kv"} /\ locks = {} /\ ~node

\* Signals sent to the group while a process was being created appear to come
\* after the fork: the child has every one of them.
SignalsAfterFork ==
  Out("child") /\ "THREAD" \notin flags => childPending = sent
=============================================================================
