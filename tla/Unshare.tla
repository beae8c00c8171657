------------------------------- MODULE Unshare -------------------------------
(***************************************************************************)
(* unshare(2) and the unshare_files of execve                              *)
(* (kvm/linux-5.15.178/kernel/fork.c): a task takes its own copies of what *)
(* it shares with others, while these clone, exit and unshare as well.     *)
(* The counters of the fs_struct and of the files_struct are read without  *)
(* a lock; the copies are installed much later.                            *)
(***************************************************************************)
EXTENDS Naturals, FiniteSets

CONSTANTS Sharers, FirstTask,
          UnshareCalls, \* the sets of flags unshare is called with
          CloneSets,    \* the sets of kinds a clone shares
          CallBound,    \* how many calls an instance makes
          NoObj

\* The tasks are finitely many, and NoObj is no object.
SharersSound ==
  /\ IsFiniteSet(Sharers) /\ FirstTask \in Sharers
  /\ NoObj \notin 1 .. 2 * Cardinality(Sharers) + 1
  /\ CallBound \in Nat

ASSUME SharersHold == SharersSound

\* "group" stands for the thread group and "sighand" for its signal handlers.
ShareKinds == {"fs", "files", "sighand", "mm", "group"}
Counted == {"fs", "files"}
Objects == 1 .. 2 * Cardinality(Sharers) + 1

VARIABLES obj,        \* obj[t][k]: the object of kind k that t uses
          sharerRefs, \* sharerRefs[k][o]: fs->users and files->count
          guests,     \* guests[o]: references to a files_struct from outside
          copy,       \* copy[t][k]: new_fs and new_fd
          cred, ns,   \* the tasks that hold a new_cred, or a new_nsproxy
          sharerPc, unshareFlags,
          lostNs,     \* the tasks that lost a new_nsproxy (history)
          calls,      \* calls made, up to CallBound
          sharerOwn   \* sharerOwn[t]: the kinds t was told are its own (history)

unshareVars ==
  <<obj, sharerRefs, guests, copy, cred, ns, sharerPc, unshareFlags, lostNs, calls, sharerOwn>>
objVars == <<obj, sharerRefs, guests>>
nsVars == <<cred, ns, lostNs>>

\* A bound of the model: one more call.
OneMore == calls < CallBound /\ calls' = calls + 1

Live == {t \in Sharers : sharerPc[t] # "none"}
ShareGoto(t, l) == sharerPc' = [sharerPc EXCEPT ![t] = l]
NoCopy == [k \in Counted |-> NoObj]

\* An unused object of each kind.
Fresh(k) ==
  CHOOSE o \in Objects : /\ \A t \in Live : obj[t][k] # o
                         /\ k \in Counted => sharerRefs[k][o] = 0

UnshareInit ==
  /\ obj = [t \in Sharers |-> [k \in ShareKinds |-> IF t = FirstTask THEN 1 ELSE NoObj]]
  /\ sharerRefs = [k \in Counted |-> [o \in Objects |-> IF o = 1 THEN 1 ELSE 0]]
  /\ guests = [o \in Objects |-> 0]
  /\ copy = [t \in Sharers |-> NoCopy]
  /\ cred = {} /\ ns = {}
  /\ sharerPc = [t \in Sharers |-> IF t = FirstTask THEN "user" ELSE "none"]
  /\ unshareFlags = [t \in Sharers |-> {}]
  /\ lostNs = {} /\ calls = 0
  /\ sharerOwn = [t \in Sharers |-> {}]

-----------------------------------------------------------------------------
(***************************************************************************)
(* What the other tasks do.                                                *)
(***************************************************************************)
\* copy_fs, copy_files, copy_sighand, copy_mm: shared or copied.
CloneSharing(t, u, share) ==
  /\ OneMore
  /\ sharerPc[t] = "user" /\ sharerPc[u] = "none"
  /\ LET given == [k \in ShareKinds |-> IF k \in share THEN obj[t][k] ELSE Fresh(k)]
     IN  /\ obj' = [obj EXCEPT ![u] = given]
         /\ sharerRefs' = [k \in Counted |-> [sharerRefs[k] EXCEPT ![given[k]] = @ + 1]]
  /\ sharerOwn' = [sharerOwn EXCEPT ![t] = @ \ share]
  /\ ShareGoto(u, "user")
  /\ UNCHANGED <<guests, copy, nsVars, unshareFlags>>

\* exit_fs, exit_files
ExitShared(t) ==
  /\ sharerPc[t] = "user" /\ t # FirstTask
  /\ sharerRefs' = [k \in Counted |-> [sharerRefs[k] EXCEPT ![obj[t][k]] = @ - 1]]
  /\ obj' = [obj EXCEPT ![t] = [k \in ShareKinds |-> NoObj]]
  /\ sharerOwn' = [sharerOwn EXCEPT ![t] = {}]
  /\ ShareGoto(t, "none")
  /\ UNCHANGED <<guests, copy, nsVars, unshareFlags, calls>>

\* external: get_files_struct by one iterator over the tasks, and its put.
GuestGet(t) ==
  /\ OneMore
  /\ t \in Live /\ \A o \in Objects : guests[o] = 0
  /\ guests' = [guests EXCEPT ![obj[t]["files"]] = 1]
  /\ sharerRefs' = [sharerRefs EXCEPT !["files"][obj[t]["files"]] = @ + 1]
  /\ UNCHANGED <<obj, copy, nsVars, sharerPc, unshareFlags, sharerOwn>>

GuestPut(o) ==
  /\ guests[o] = 1
  /\ guests' = [guests EXCEPT ![o] = 0]
  /\ sharerRefs' = [sharerRefs EXCEPT !["files"][o] = @ - 1]
  /\ UNCHANGED <<obj, copy, nsVars, sharerPc, unshareFlags, sharerOwn, calls>>

-----------------------------------------------------------------------------
(***************************************************************************)
(* ksys_unshare                                                            *)
(***************************************************************************)
\* Mutant: unsharing the mount namespace leaves the fs_struct shared.
ClosedNoMount(f) ==
  LET user == f \cup (IF "NEWUSER" \in f THEN {"THREAD", "FS"} ELSE {})
      vm   == user \cup (IF "VM" \in user THEN {"SIGHAND"} ELSE {})
  IN  vm \cup (IF "SIGHAND" \in vm THEN {"THREAD"} ELSE {})

\* Which flags drag which others along, in the order of the code.
Closed(f) ==
  LET user == f \cup (IF "NEWUSER" \in f THEN {"THREAD", "FS"} ELSE {})
      vm   == user \cup (IF "VM" \in user THEN {"SIGHAND"} ELSE {})
      sig  == vm \cup (IF "SIGHAND" \in vm THEN {"THREAD"} ELSE {})
  IN  sig \cup (IF "NEWNS" \in sig THEN {"FS"} ELSE {})

Shares(t, k) == \E u \in Live \ {t} : obj[u][k] = obj[t][k]

\* check_unshare_flags; current_is_single_threaded also looks for other
\* processes that use the mm.
CheckUnshareFlags(t, f) ==
  /\ f \subseteq {"THREAD", "FS", "NEWNS", "SIGHAND", "VM", "FILES", "SYSVSEM", "NEWUTS",
                  "NEWIPC", "NEWNET", "NEWUSER", "NEWPID", "NEWCGROUP", "NEWTIME"}
  /\ f \cap {"THREAD", "SIGHAND", "VM"} # {} => ~Shares(t, "group")
  /\ f \cap {"SIGHAND", "VM"} # {} => ~Shares(t, "sighand")
  /\ "VM" \in f => ~Shares(t, "group") /\ ~Shares(t, "mm")

NewNsFlags == {"NEWNS", "NEWUTS", "NEWIPC", "NEWNET", "NEWPID", "NEWCGROUP", "NEWTIME"}

KsysUnshare(t, f) ==
  /\ OneMore
  /\ sharerPc[t] = "user"
  /\ LET g == Closed(f)
     IN  IF CheckUnshareFlags(t, g)
         THEN unshareFlags' = [unshareFlags EXCEPT ![t] = g] /\ ShareGoto(t, "fs")
         ELSE UNCHANGED <<unshareFlags, sharerPc>>
  /\ UNCHANGED <<objVars, copy, nsVars, sharerOwn>>

\* copy_fs_struct, dup_fd
TakeCopy(t, k) ==
  /\ copy' = [copy EXCEPT ![t][k] = Fresh(k)]
  /\ sharerRefs' = [sharerRefs EXCEPT ![k][Fresh(k)] = 1]
  /\ UNCHANGED <<obj, guests>>

\* unshare_fs
UnshareFs(t) ==
  /\ sharerPc[t] = "fs"
  /\ IF "FS" \in unshareFlags[t] /\ sharerRefs["fs"][obj[t]["fs"]] # 1
     THEN TakeCopy(t, "fs")
     ELSE UNCHANGED <<copy, objVars>>
  /\ ShareGoto(t, "fd")
  /\ UNCHANGED <<nsVars, unshareFlags, sharerOwn, calls>>

\* unshare_fd; "fd_exec" is its call by unshare_files.
UnshareFd(t) ==
  /\ sharerPc[t] \in {"fd", "fd_exec"}
  /\ IF "FILES" \in unshareFlags[t] /\ sharerRefs["files"][obj[t]["files"]] > 1
     THEN TakeCopy(t, "files")
     ELSE UNCHANGED <<copy, objVars>>
  /\ ShareGoto(t, IF sharerPc[t] = "fd" THEN "cred" ELSE "commit_exec")
  /\ UNCHANGED <<nsVars, unshareFlags, sharerOwn, calls>>

\* unshare_userns, unshare_nsproxy_namespaces and set_cred_ucounts: they
\* touch nothing that others see.
Namespaces(t) ==
  /\ sharerPc[t] = "cred"
  /\ cred' = IF "NEWUSER" \in unshareFlags[t] THEN cred \cup {t} ELSE cred
  /\ ns' = IF unshareFlags[t] \cap (NewNsFlags \cup {"NEWUSER"}) # {} THEN ns \cup {t} ELSE ns
  /\ ShareGoto(t, "commit")
  /\ UNCHANGED <<objVars, copy, lostNs, unshareFlags, sharerOwn, calls>>

\* One of the three fails: a new_cred there is by then is put.  A failed
\* set_cred_ucounts leaves the nsproxy to nobody: no label frees it.
NamespacesFail(t, call) ==
  /\ sharerPc[t] = "cred"
  /\ call \in {"userns", "ucounts"} => "NEWUSER" \in unshareFlags[t]
  /\ cred' = IF call # "userns" /\ "NEWUSER" \in unshareFlags[t] THEN cred \cup {t} ELSE cred
  /\ lostNs' = IF call = "ucounts" THEN lostNs \cup {t} ELSE lostNs
  /\ ShareGoto(t, IF call = "userns" THEN "put_fd" ELSE "put_cred")
  /\ UNCHANGED <<objVars, copy, ns, unshareFlags, sharerOwn, calls>>

\* copy_fs_struct or dup_fd fails: what was copied before is put.
UnshareFails(t) ==
  /\ \/ sharerPc[t] = "fs" /\ "FS" \in unshareFlags[t] /\ ShareGoto(t, "out")
     \/ sharerPc[t] = "fd" /\ "FILES" \in unshareFlags[t] /\ ShareGoto(t, "put_fs")
     \/ sharerPc[t] = "fd_exec" /\ ShareGoto(t, "out")
  /\ UNCHANGED <<objVars, copy, nsVars, unshareFlags, sharerOwn, calls>>

\* Mutant: the last user frees the old fs_struct, and so does the one before.
CommitFsTwice(t) ==
  LET o == obj[t]["fs"]
  IN  IF copy[t]["fs"] = NoObj THEN [obj |-> obj, refs |-> sharerRefs, copy |-> copy]
      ELSE [obj  |-> [obj EXCEPT ![t]["fs"] = copy[t]["fs"]],
            refs |-> [sharerRefs EXCEPT !["fs"][o] = @ - 1],
            copy |-> [copy EXCEPT ![t]["fs"] = o]]

\* --fs->users under its lock: if t was the last user, which it was not when
\* it looked first, the old one is freed below.
CommitFs(t) ==
  LET o == obj[t]["fs"]
      last == sharerRefs["fs"][o] = 1
  IN  IF copy[t]["fs"] = NoObj THEN [obj |-> obj, refs |-> sharerRefs, copy |-> copy]
      ELSE [obj  |-> [obj EXCEPT ![t]["fs"] = copy[t]["fs"]],
            refs |-> [sharerRefs EXCEPT !["fs"][o] = IF last THEN @ ELSE @ - 1],
            copy |-> [copy EXCEPT ![t]["fs"] = IF last THEN o ELSE NoObj]]

CommitFd(t, o, c) ==
  /\ obj' = IF c[t]["files"] = NoObj THEN o ELSE [o EXCEPT ![t]["files"] = c[t]["files"]]
  /\ copy' = IF c[t]["files"] = NoObj THEN c ELSE [c EXCEPT ![t]["files"] = o[t]["files"]]

\* What the caller may rely on: a new mount or user namespace comes with an
\* fs_struct of its own.
Told(t) ==
  sharerOwn' = [sharerOwn EXCEPT ![t] = @ \cup
            {k \in Counted : \/ k = "fs" /\ unshareFlags[t] \cap {"FS", "NEWNS", "NEWUSER"} # {}
                             \/ k = "files" /\ "FILES" \in unshareFlags[t]}]

\* Both are installed under one task_lock(current); switch_task_namespaces
\* and commit_creds keep the nsproxy and the credentials.
Commit(t) ==
  /\ sharerPc[t] = "commit"
  /\ LET fs == CommitFs(t)
     IN  sharerRefs' = fs.refs /\ CommitFd(t, fs.obj, fs.copy)
  /\ cred' = cred \ {t} /\ ns' = ns \ {t}
  /\ Told(t)
  /\ ShareGoto(t, "put_cred")
  /\ UNCHANGED <<guests, lostNs, unshareFlags, calls>>

\* unshare_files installs the copy.
CommitFiles(t) ==
  /\ sharerPc[t] = "commit_exec"
  /\ CommitFd(t, obj, copy)
  /\ Told(t)
  /\ ShareGoto(t, "put_fd")
  /\ UNCHANGED <<sharerRefs, guests, nsVars, unshareFlags, calls>>

\* The labels, which success falls through as well.
PutCred(t) ==
  /\ sharerPc[t] = "put_cred"
  /\ cred' = cred \ {t}
  /\ ShareGoto(t, "put_fd")
  /\ UNCHANGED <<objVars, copy, ns, lostNs, unshareFlags, sharerOwn, calls>>

PutCopy(t, k) ==
  IF copy[t][k] = NoObj THEN UNCHANGED <<sharerRefs, copy>>
  ELSE /\ sharerRefs' = [sharerRefs EXCEPT ![k][copy[t][k]] = @ - 1]
       /\ copy' = [copy EXCEPT ![t][k] = NoObj]

PutFd(t) ==
  /\ sharerPc[t] = "put_fd"
  /\ PutCopy(t, "files")
  /\ ShareGoto(t, "put_fs")
  /\ UNCHANGED <<obj, guests, nsVars, unshareFlags, sharerOwn, calls>>

\* bad_unshare_cleanup_fs and bad_unshare_out
PutFs(t) ==
  /\ sharerPc[t] \in {"put_fs", "out"}
  /\ PutCopy(t, "fs")
  /\ unshareFlags' = [unshareFlags EXCEPT ![t] = {}]
  /\ ShareGoto(t, "user")
  /\ UNCHANGED <<obj, guests, nsVars, sharerOwn, calls>>

\* unshare_files, called by execve with no flags but the files.
UnshareFiles(t) ==
  /\ OneMore
  /\ sharerPc[t] = "user"
  /\ unshareFlags' = [unshareFlags EXCEPT ![t] = {"FILES"}]
  /\ ShareGoto(t, "fd_exec")
  /\ UNCHANGED <<objVars, copy, nsVars, sharerOwn>>

UnshareNext ==
  \/ \E t, u \in Sharers, share \in CloneSets : CloneSharing(t, u, share)
  \/ \E o \in Objects : GuestPut(o)
  \/ \E t \in Sharers :
       \/ ExitShared(t) \/ GuestGet(t)
       \/ \E f \in UnshareCalls : KsysUnshare(t, f)
       \/ UnshareFs(t) \/ UnshareFd(t) \/ Namespaces(t) \/ UnshareFails(t)
       \/ \E call \in {"userns", "nsproxy", "ucounts"} : NamespacesFail(t, call)
       \/ Commit(t) \/ CommitFiles(t) \/ PutCred(t) \/ PutFd(t) \/ PutFs(t) \/ UnshareFiles(t)

UnshareSpec == UnshareInit /\ [][UnshareNext]_unshareVars
-----------------------------------------------------------------------------
\* Every variable has its type.
UnshareTypeOK ==
  /\ obj \in [Sharers -> [ShareKinds -> Objects \cup {NoObj}]]
  /\ sharerRefs \in [Counted -> [Objects -> Nat]]
  /\ guests \in [Objects -> 0 .. 1]
  /\ copy \in [Sharers -> [Counted -> Objects \cup {NoObj}]]
  /\ cred \subseteq Sharers /\ ns \subseteq Sharers
  /\ sharerOwn \in [Sharers -> SUBSET Counted]
  /\ lostNs \subseteq Sharers /\ calls \in 0 .. CallBound

\* Every fs_struct and files_struct has exactly the references of the tasks
\* that use it, of the calls that hold it and of outsiders, however unshare
\* ends; it is freed when the last of them goes and not before; and a call
\* that is over holds nothing (ksys_unshare and its labels, unshare_files).
SharedExact ==
  /\ \A k \in Counted, o \in Objects :
       sharerRefs[k][o] = Cardinality({t \in Live : obj[t][k] = o})
                          + Cardinality({t \in Sharers : copy[t][k] = o})
                          + (IF k = "files" THEN guests[o] ELSE 0)
  /\ \A t \in Sharers :
       sharerPc[t] \in {"user", "none"} => t \notin cred \cup ns /\ copy[t] = NoCopy

\* What unshare or execve reported as done is so: the task is the only one
\* that uses the fs_struct or the files it asked for (or that its other flags
\* ask for), until it shares them again itself, although the counters were
\* read without a lock (unshare_fs, unshare_fd, ksys_unshare).
OwnIsOwn ==
  \A t \in Live : \A k \in sharerOwn[t] : ~Shares(t, k)
=============================================================================
