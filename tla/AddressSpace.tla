---------------------------- MODULE AddressSpace ----------------------------
(***************************************************************************)
(* The life of an mm_struct (kvm/linux-5.15.178/kernel/fork.c): dup_mm and *)
(* dup_mmap area by area, with every failure and the labels it leads to;   *)
(* mm_users and mm_count, put by tasks, by readers and by deferred work;   *)
(* and the executable of the mm, which nobody may write to while it is     *)
(* exe_file, replaced while another thread is in dup_mmap.                 *)
(***************************************************************************)
EXTENDS Integers, Sequences, FiniteSets

CONSTANTS Procs,    \* tasks; each may be current in a call
          Tracers,  \* those that look at the memory of others
          Mms,      \* slots of the mm_struct cache
          Files,    \* files that can be an executable
          Layout,   \* the areas of a fresh program, in order: records of
                    \* pages, account, dontcopy and text (maps the executable)
          Exe0,     \* the executable of the first process
          NoMm, NoFile,
          ForkBound \* how many address spaces an instance makes

\* There are a process, an mm and an executable, and NoMm and NoFile are none;
\* an area has pages.
SpacesSound ==
  /\ IsFiniteSet(Procs) /\ Procs # {} /\ IsFiniteSet(Mms) /\ Mms # {}
  /\ Exe0 \in Files /\ NoMm \notin Mms /\ NoFile \notin Files
  /\ Layout \in Seq([pages : Nat, account : BOOLEAN, dontcopy : BOOLEAN, text : BOOLEAN])
  /\ ForkBound \in Nat

ASSUME SpacesHold == SpacesSound

VARIABLES mm,        \* mm[p]: p->mm
          lazy,      \* lazy[p]: the active_mm an exited task still counts
          pin,       \* pin[p]: the mm p has from get_task_mm
          users, count,  \* mm_users and mm_count
          areas,     \* areas[m]: the areas linked in m, as indices of Layout
          textOf,    \* textOf[m]: the file the text areas of m map
          committed, \* pages charged with security_vm_enough_memory_mm
          exe,       \* exe[m]: mm->exe_file
          fileRefs,  \* f_count
          writeCount,\* i_writecount: writers, or minus those who deny writing
          locked,    \* the mms whose mmap_lock is held for writing
          mmPc,      \* mmPc[p]: where p is in its call
          new,       \* new[p]: the mm p is building or replacing
          old,       \* old[p]: the file p found in an exe_file
          want,      \* want[p]: the file p makes the exe_file
          mmArea,    \* mmArea[p]: the area dup_mmap is at
          work,      \* async_put_work, queued: pairs <<function, mm>>
          oom,       \* the mms a signal_struct counts as oom_mm
          made,      \* address spaces made, up to ForkBound
          mmWarned   \* what went wrong in dup_mm_exe_file (history)

mmVars == <<mm, lazy, pin, users, count, oom, work>>
areaVars == <<areas, textOf, committed>>
fileVars == <<exe, fileRefs, writeCount>>
callVars == <<new, old, want, mmArea>>
spaceVars == <<mmVars, areaVars, fileVars, locked, mmPc, callVars, made, mmWarned>>

MmGoto(p, l) == mmPc' = [mmPc EXCEPT ![p] = l]
Pages(v) == IF Layout[v].account THEN Layout[v].pages ELSE 0
ChargedPages(S) == UNION {{v} \X (1 .. Pages(v)) : v \in S}
SumPages(S) == Cardinality(ChargedPages(S))
Add(f, x, n) == IF x \in DOMAIN f THEN [f EXCEPT ![x] = @ + n] ELSE f
Unused(m) == users[m] = 0 /\ count[m] = 0 /\ \A w \in work : w[2] # m

\* One process, whose mm has every area and an executable.
SpaceInit ==
  LET p0 == CHOOSE p \in Procs : TRUE
      m0 == CHOOSE m \in Mms : TRUE
  IN  /\ mm = [p \in Procs |-> IF p = p0 THEN m0 ELSE NoMm]
      /\ pin = [p \in Procs |-> NoMm] /\ lazy = [p \in Procs |-> NoMm]
      /\ users = [m \in Mms |-> IF m = m0 THEN 1 ELSE 0]
      /\ count = [m \in Mms |-> IF m = m0 THEN 1 ELSE 0]
      /\ areas = [m \in Mms |-> IF m = m0 THEN DOMAIN Layout ELSE {}]
      /\ textOf = [m \in Mms |-> IF m = m0 THEN Exe0 ELSE NoFile]
      /\ committed = SumPages(DOMAIN Layout)
      /\ exe = [m \in Mms |-> IF m = m0 THEN Exe0 ELSE NoFile]
      /\ fileRefs = [f \in Files |-> 1]
      /\ writeCount = [f \in Files |-> IF f = Exe0 THEN -1 ELSE 0]
      /\ mmPc = [p \in Procs |-> IF p = p0 THEN "user" ELSE "none"]
      /\ new = [p \in Procs |-> NoMm] /\ old = [p \in Procs |-> NoFile]
      /\ want = [p \in Procs |-> NoFile] /\ mmArea = [p \in Procs |-> 1]
      /\ locked = {} /\ work = {} /\ oom = {} /\ made = 0 /\ mmWarned = {}

-----------------------------------------------------------------------------
(***************************************************************************)
(* Putting an mm.  The last user tears the address space down (__mmput)    *)
(* and drops the count all users share; the last count frees the mm.       *)
(***************************************************************************)
\* __mmput: exit_mmap, set_mm_exe_file(mm, NULL), mmdrop.
TearDown(m, grabbed) ==
  /\ committed' = committed - SumPages(areas[m])
  /\ areas' = [areas EXCEPT ![m] = {}]
  /\ textOf' = [textOf EXCEPT ![m] = NoFile]
  /\ exe' = [exe EXCEPT ![m] = NoFile]
  /\ fileRefs' = Add(fileRefs, exe[m], -1)
  /\ writeCount' = Add(writeCount, exe[m], 1)
  /\ count' = [count EXCEPT ![m] = @ + grabbed - 1]

\* mmput, of an mm that is grabbed as well when grabbed is 1.
Mmput(m, grabbed) ==
  /\ users' = [users EXCEPT ![m] = @ - 1]
  /\ IF users[m] = 1
     THEN TearDown(m, grabbed)
     ELSE count' = [count EXCEPT ![m] = @ + grabbed] /\ UNCHANGED <<areaVars, fileVars>>

\* mmput_async_fn
MmputAsyncFn(m) ==
  /\ <<"mmput", m>> \in work
  /\ work' = work \ {<<"mmput", m>>}
  /\ TearDown(m, 0)
  /\ UNCHANGED <<mm, lazy, pin, users, oom, locked, mmPc, callVars, made, mmWarned>>

\* external: exit_mm keeps the mm as active_mm, counted, and puts it.
ExitMm(p) ==
  /\ mmPc[p] = "user" /\ pin[p] = NoMm
  /\ lazy' = [lazy EXCEPT ![p] = mm[p]]
  /\ mm' = [mm EXCEPT ![p] = NoMm]
  /\ Mmput(mm[p], 1)
  /\ MmGoto(p, "exited")
  /\ UNCHANGED <<pin, oom, work, locked, callVars, made, mmWarned>>

\* mmdrop by the scheduler, once it has switched away from the task.
DropLazy(p) ==
  /\ mmPc[p] = "exited"
  /\ count' = [count EXCEPT ![lazy[p]] = @ - 1]
  /\ lazy' = [lazy EXCEPT ![p] = NoMm]
  /\ MmGoto(p, "none")
  /\ UNCHANGED <<mm, pin, users, oom, work, areaVars, fileVars, locked, callVars, made, mmWarned>>

\* get_task_mm, under task_lock(q): a reader in /proc or ptrace.  mm_access
\* puts the mm again when the access is not allowed.
GetTaskMm(p, q) ==
  /\ p \in Tracers /\ p # q
  /\ mmPc[p] = "user" /\ pin[p] = NoMm /\ mm[q] # NoMm
  /\ pin' = [pin EXCEPT ![p] = mm[q]]
  /\ users' = [users EXCEPT ![mm[q]] = @ + 1]
  /\ UNCHANGED <<mm, lazy, count, oom, work, areaVars, fileVars, locked, mmPc, callVars, made,
                 mmWarned>>

PutPin(p) ==
  /\ pin[p] # NoMm
  /\ pin' = [pin EXCEPT ![p] = NoMm]
  /\ Mmput(pin[p], 0)
  /\ UNCHANGED <<mm, lazy, oom, work, locked, mmPc, callVars, made, mmWarned>>

\* mmput_async: the teardown is left to a work item.
PutPinAsync(p) ==
  /\ pin[p] # NoMm
  /\ pin' = [pin EXCEPT ![p] = NoMm]
  /\ users' = [users EXCEPT ![pin[p]] = @ - 1]
  /\ work' = IF users[pin[p]] = 1 THEN work \cup {<<"mmput", pin[p]>>} ELSE work
  /\ UNCHANGED <<mm, lazy, count, oom, areaVars, fileVars, locked, mmPc, callVars, made, mmWarned>>

\* external: the OOM killer notes the mm of a victim in its signal_struct.
MarkOom(p) ==
  /\ mm[p] # NoMm /\ mm[p] \notin oom
  /\ oom' = oom \cup {mm[p]}
  /\ count' = [count EXCEPT ![mm[p]] = @ + 1]
  /\ UNCHANGED <<mm, lazy, pin, users, work, areaVars, fileVars, locked, mmPc, callVars, made,
                 mmWarned>>

\* free_signal_struct of the victim: mmdrop_async queues a work item, in the
\* field that mmput_async uses too, when the count is the last.
FreeSignal(m) ==
  /\ m \in oom
  /\ \A p \in Procs : mm[p] # m
  /\ oom' = oom \ {m}
  /\ count' = [count EXCEPT ![m] = @ - 1]
  /\ work' = IF count[m] = 1 THEN work \cup {<<"mmdrop", m>>} ELSE work
  /\ UNCHANGED <<mm, lazy, pin, users, areaVars, fileVars, locked, mmPc, callVars, made, mmWarned>>

\* mmdrop_async_fn: __mmdrop.
MmdropAsyncFn(m) ==
  /\ <<"mmdrop", m>> \in work
  /\ work' = work \ {<<"mmdrop", m>>}
  /\ UNCHANGED <<mm, lazy, pin, users, count, oom, areaVars, fileVars, locked, mmPc, callVars,
                 made, mmWarned>>

-----------------------------------------------------------------------------
(***************************************************************************)
(* Files.  deny_write_access fails while there is a writer, and            *)
(* get_file_rcu when the last reference is gone.                           *)
(***************************************************************************)
\* external: a program opens a file for writing, or closes it.
OpenWrite(f) ==
  /\ writeCount[f] = 0
  /\ writeCount' = [writeCount EXCEPT ![f] = 1]
  /\ UNCHANGED <<mmVars, areaVars, exe, fileRefs, locked, mmPc, callVars, made, mmWarned>>

CloseWrite(f) ==
  /\ writeCount[f] = 1
  /\ writeCount' = [writeCount EXCEPT ![f] = 0]
  /\ UNCHANGED <<mmVars, areaVars, exe, fileRefs, locked, mmPc, callVars, made, mmWarned>>

\* get_mm_exe_file is two steps: the pointer is read, and a reference taken
\* unless none was left.
TakeOld(p) ==
  IF old[p] # NoFile /\ fileRefs[old[p]] > 0
  THEN fileRefs' = Add(fileRefs, old[p], 1) /\ UNCHANGED old
  ELSE old' = [old EXCEPT ![p] = NoFile] /\ UNCHANGED fileRefs

-----------------------------------------------------------------------------
(***************************************************************************)
(* copy_mm and execve.                                                     *)
(***************************************************************************)
\* CLONE_VM: the child q is another user.
CloneVm(p, q) ==
  /\ mmPc[p] = "user" /\ mmPc[q] = "none"
  /\ users' = [users EXCEPT ![mm[p]] = @ + 1]
  /\ mm' = [mm EXCEPT ![q] = mm[p]]
  /\ MmGoto(q, "user")
  /\ UNCHANGED <<lazy, pin, count, oom, work, areaVars, fileVars, locked, callVars, made, mmWarned>>

\* allocate_mm and mm_init.  When one fails nothing remains.
MmInit(m) ==
  /\ made < ForkBound
  /\ made' = made + 1
  /\ Unused(m)
  /\ users' = [users EXCEPT ![m] = 1]
  /\ count' = [count EXCEPT ![m] = 1]

\* execve: mm_alloc, set_mm_exe_file of a file the caller has denied to
\* writers, and the new program's areas; then the old mm is put.
Exec(p, m, f) ==
  /\ mmPc[p] = "user" /\ pin[p] = NoMm
  /\ writeCount[f] <= 0 /\ fileRefs[f] > 0
  /\ MmInit(m)
  /\ fileRefs' = Add(fileRefs, f, 1)
  /\ writeCount' = Add(writeCount, f, -1)
  /\ exe' = [exe EXCEPT ![m] = f]
  /\ textOf' = [textOf EXCEPT ![m] = f]
  /\ areas' = [areas EXCEPT ![m] = DOMAIN Layout]
  /\ committed' = committed + SumPages(DOMAIN Layout)
  /\ mm' = [mm EXCEPT ![p] = m]
  /\ new' = [new EXCEPT ![p] = mm[p]]
  /\ MmGoto(p, "put")
  /\ UNCHANGED <<lazy, pin, oom, work, locked, old, want, mmArea, mmWarned>>

\* mmput of the mm in hand: after execve, and at dup_mm's label free_pt.
PutNew(p) ==
  /\ mmPc[p] = "put"
  /\ Mmput(new[p], 0)
  /\ new' = [new EXCEPT ![p] = NoMm]
  /\ MmGoto(p, "user")
  /\ UNCHANGED <<mm, lazy, pin, oom, work, locked, old, want, mmArea, made, mmWarned>>

\* dup_mm begins.
DupMm(p, m) ==
  /\ mmPc[p] = "user"
  /\ MmInit(m)
  /\ new' = [new EXCEPT ![p] = m]
  /\ MmGoto(p, "dup_lock")
  /\ UNCHANGED <<mm, lazy, pin, oom, work, areaVars, fileVars, locked, old, want, mmArea, mmWarned>>

\* mmap_write_lock_killable(oldmm); then the pointer of get_mm_exe_file.
DupLock(p) ==
  /\ mmPc[p] = "dup_lock"
  /\ mm[p] \notin locked
  /\ locked' = locked \cup {mm[p], new[p]}
  /\ old' = [old EXCEPT ![p] = exe[mm[p]]]
  /\ MmGoto(p, "dup_take")
  /\ UNCHANGED <<mmVars, areaVars, fileVars, new, want, mmArea, made, mmWarned>>

\* A signal instead of the lock, and an mm without areas to put.
DupLockKilled(p) ==
  /\ mmPc[p] = "dup_lock"
  /\ MmGoto(p, "put")
  /\ UNCHANGED <<mmVars, areaVars, fileVars, locked, callVars, made, mmWarned>>

DupTakeExe(p) ==
  /\ mmPc[p] = "dup_take"
  /\ TakeOld(p)
  /\ mmWarned' = IF old[p] # old'[p] THEN mmWarned \cup {"lost"} ELSE mmWarned
  /\ MmGoto(p, "dup_deny")
  /\ UNCHANGED <<mmVars, areaVars, exe, writeCount, locked, new, want, mmArea, made>>

\* The rest of dup_mm_exe_file: writing is denied, or a warning printed.
DupDenyExe(p) ==
  /\ mmPc[p] = "dup_deny"
  /\ exe' = [exe EXCEPT ![new[p]] = old[p]]
  /\ textOf' = [textOf EXCEPT ![new[p]] = textOf[mm[p]]]
  /\ old' = [old EXCEPT ![p] = NoFile]
  /\ IF old[p] # NoFile /\ writeCount[old[p]] > 0
     THEN mmWarned' = mmWarned \cup {"deny"} /\ UNCHANGED writeCount
     ELSE writeCount' = Add(writeCount, old[p], -1) /\ UNCHANGED mmWarned
  /\ MmGoto(p, "dup_area")
  /\ UNCHANGED <<mmVars, areas, committed, fileRefs, locked, new, want, mmArea, made>>

\* An area that is copied: charged, duplicated, given a policy and an anon_vma,
\* entered with its file, linked, and its pages copied.
Copied(p) == mmArea[p] \in areas[mm[p]] /\ ~Layout[mmArea[p]].dontcopy

CopyArea(p) ==
  /\ mmPc[p] = "dup_area" /\ mmArea[p] \in DOMAIN Layout
  /\ mmArea' = [mmArea EXCEPT ![p] = @ + 1]
  /\ areas' = IF Copied(p) THEN [areas EXCEPT ![new[p]] = @ \cup {mmArea[p]}] ELSE areas
  /\ committed' = IF Copied(p) THEN committed + Pages(mmArea[p]) ELSE committed
  /\ UNCHANGED <<mmVars, textOf, fileVars, locked, mmPc, new, old, want, made, mmWarned>>

\* Leaving dup_mmap: both locks are released.
DupUnlock(p) ==
  /\ locked' = locked \ {mm[p], new[p]}
  /\ mmArea' = [mmArea EXCEPT ![p] = 1]

\* Mutant: fail_nomem forgets vm_unacct_memory.
FailAreaCharged(p, linked) ==
  /\ mmPc[p] = "dup_area" /\ mmArea[p] \in DOMAIN Layout
  /\ Copied(p)
  /\ areas' = IF linked THEN [areas EXCEPT ![new[p]] = @ \cup {mmArea[p]}] ELSE areas
  /\ committed' = committed + Pages(mmArea[p])
  /\ DupUnlock(p) /\ MmGoto(p, "put")
  /\ UNCHANGED <<mmVars, textOf, fileVars, new, old, want, made, mmWarned>>

\* An area fails.  Before it is linked (fail_nomem and the labels above it, a
\* fatal signal, or ksm_fork ahead of the first area) its charge is given back;
\* when copy_page_range fails it is linked and stays charged, for exit_mmap.
FailArea(p, linked) ==
  /\ mmPc[p] = "dup_area" /\ mmArea[p] \in DOMAIN Layout
  /\ Copied(p)
  /\ areas' = IF linked THEN [areas EXCEPT ![new[p]] = @ \cup {mmArea[p]}] ELSE areas
  /\ committed' = IF linked THEN committed + Pages(mmArea[p]) ELSE committed
  /\ DupUnlock(p) /\ MmGoto(p, "put")
  /\ UNCHANGED <<mmVars, textOf, fileVars, new, old, want, made, mmWarned>>

\* All areas are copied; the child q gets the mm.
DupDone(p, q) ==
  /\ mmPc[p] = "dup_area" /\ mmArea[p] \notin DOMAIN Layout
  /\ mmPc[q] = "none"
  /\ mm' = [mm EXCEPT ![q] = new[p]]
  /\ new' = [new EXCEPT ![p] = NoMm]
  /\ DupUnlock(p)
  /\ mmPc' = [mmPc EXCEPT ![p] = "user", ![q] = "user"]
  /\ UNCHANGED <<lazy, pin, users, count, oom, work, areaVars, fileVars, old, want, made, mmWarned>>

\* arch_dup_mmap or try_module_get fails after the last area, or a later stage
\* of copy_process, which puts the mm at bad_fork_cleanup_mm.
DupLateFail(p) ==
  /\ mmPc[p] = "dup_area" /\ mmArea[p] \notin DOMAIN Layout
  /\ DupUnlock(p) /\ MmGoto(p, "put")
  /\ UNCHANGED <<mmVars, areaVars, fileVars, new, old, want, made, mmWarned>>

\* external: munmap of the program's text, under the lock.
Unmap(p, v) ==
  /\ mmPc[p] = "user"
  /\ mm[p] \notin locked
  /\ v \in areas[mm[p]] /\ Layout[v].text
  /\ areas' = [areas EXCEPT ![mm[p]] = @ \ {v}]
  /\ committed' = committed - Pages(v)
  /\ UNCHANGED <<mmVars, textOf, fileVars, locked, mmPc, callVars, made, mmWarned>>

-----------------------------------------------------------------------------
(***************************************************************************)
(* replace_mm_exe_file.                                                    *)
(***************************************************************************)
Replace(p, f) ==
  /\ mmPc[p] = "user"
  /\ fileRefs[f] > 0
  /\ want' = [want EXCEPT ![p] = f]
  /\ old' = [old EXCEPT ![p] = exe[mm[p]]]
  /\ MmGoto(p, "replace_take")
  /\ UNCHANGED <<mmVars, areaVars, fileVars, locked, new, mmArea, made, mmWarned>>

ReplaceTake(p) ==
  /\ mmPc[p] = "replace_take"
  /\ TakeOld(p)
  /\ MmGoto(p, "replace_check")
  /\ UNCHANGED <<mmVars, areaVars, exe, writeCount, locked, new, want, mmArea, made, mmWarned>>

\* Under mmap_read_lock: -EBUSY while the old executable is mapped.
ReplaceCheck(p) ==
  /\ mmPc[p] = "replace_check"
  /\ old[p] # NoFile => mm[p] \notin locked
  /\ LET busy == old[p] # NoFile /\ textOf[mm[p]] = old[p]
                 /\ \E v \in areas[mm[p]] : Layout[v].text
     IN  /\ MmGoto(p, IF busy THEN "user" ELSE "replace_deny")
         /\ want' = [want EXCEPT ![p] = IF busy THEN NoFile ELSE @]
  /\ fileRefs' = Add(fileRefs, old[p], -1)
  /\ old' = [old EXCEPT ![p] = NoFile]
  /\ UNCHANGED <<mmVars, areaVars, exe, writeCount, locked, new, mmArea, made, mmWarned>>

\* -EACCES, or the new file is denied to writers and counted.
ReplaceDeny(p) ==
  /\ mmPc[p] = "replace_deny"
  /\ IF writeCount[want[p]] > 0
     THEN /\ MmGoto(p, "user")
          /\ want' = [want EXCEPT ![p] = NoFile]
          /\ UNCHANGED <<fileRefs, writeCount>>
     ELSE /\ fileRefs' = Add(fileRefs, want[p], 1)
          /\ writeCount' = Add(writeCount, want[p], -1)
          /\ MmGoto(p, "replace_xchg")
          /\ UNCHANGED want
  /\ UNCHANGED <<mmVars, areaVars, exe, locked, new, old, mmArea, made, mmWarned>>

ReplaceXchg(p) ==
  /\ mmPc[p] = "replace_xchg"
  /\ old' = [old EXCEPT ![p] = exe[mm[p]]]
  /\ exe' = [exe EXCEPT ![mm[p]] = want[p]]
  /\ want' = [want EXCEPT ![p] = NoFile]
  /\ MmGoto(p, "replace_allow")
  /\ UNCHANGED <<mmVars, areaVars, fileRefs, writeCount, locked, new, mmArea, made, mmWarned>>

\* Mutant: the old file is released without the lock.
ReplaceAllowUnlocked(p) ==
  /\ mmPc[p] = "replace_allow"
  /\ writeCount' = Add(writeCount, old[p], 1)
  /\ fileRefs' = Add(fileRefs, old[p], -1)
  /\ old' = [old EXCEPT ![p] = NoFile]
  /\ MmGoto(p, "user")
  /\ UNCHANGED <<mmVars, areaVars, exe, locked, new, want, mmArea, made, mmWarned>>

\* Under mmap_read_lock, so as not to race with dup_mmap.
ReplaceAllow(p) ==
  /\ mmPc[p] = "replace_allow"
  /\ mm[p] \notin locked
  /\ writeCount' = Add(writeCount, old[p], 1)
  /\ fileRefs' = Add(fileRefs, old[p], -1)
  /\ old' = [old EXCEPT ![p] = NoFile]
  /\ MmGoto(p, "user")
  /\ UNCHANGED <<mmVars, areaVars, exe, locked, new, want, mmArea, made, mmWarned>>

SpaceNext ==
  \/ \E p \in Procs :
       \/ ExitMm(p) \/ DropLazy(p) \/ PutPin(p) \/ PutPinAsync(p) \/ MarkOom(p)
       \/ PutNew(p) \/ DupLock(p) \/ DupLockKilled(p) \/ DupTakeExe(p) \/ DupDenyExe(p)
       \/ CopyArea(p) \/ DupLateFail(p)
       \/ ReplaceTake(p) \/ ReplaceCheck(p) \/ ReplaceDeny(p) \/ ReplaceXchg(p) \/ ReplaceAllow(p)
       \/ \E q \in Procs : GetTaskMm(p, q) \/ CloneVm(p, q) \/ DupDone(p, q)
       \/ \E m \in Mms : DupMm(p, m) \/ \E f \in Files : Exec(p, m, f)
       \/ \E linked \in BOOLEAN : FailArea(p, linked)
       \/ \E v \in DOMAIN Layout : Unmap(p, v)
       \/ \E f \in Files : Replace(p, f)
  \/ \E m \in Mms : MmputAsyncFn(m) \/ FreeSignal(m) \/ MmdropAsyncFn(m)
  \/ \E f \in Files : OpenWrite(f) \/ CloseWrite(f)

SpaceSpec == SpaceInit /\ [][SpaceNext]_spaceVars

-----------------------------------------------------------------------------
\* The type invariant of the address spaces.
SpaceTypeOK ==
  /\ mm \in [Procs -> Mms \cup {NoMm}] /\ lazy \in [Procs -> Mms \cup {NoMm}]
  /\ pin \in [Procs -> Mms \cup {NoMm}] /\ new \in [Procs -> Mms \cup {NoMm}]
  /\ users \in [Mms -> Nat] /\ count \in [Mms -> Nat]
  /\ areas \in [Mms -> SUBSET DOMAIN Layout]
  /\ committed \in Nat
  /\ exe \in [Mms -> Files \cup {NoFile}] /\ textOf \in [Mms -> Files \cup {NoFile}]
  /\ fileRefs \in [Files -> Nat] /\ writeCount \in [Files -> Int]
  /\ locked \subseteq Mms /\ oom \subseteq Mms
  /\ old \in [Procs -> Files \cup {NoFile}] /\ want \in [Procs -> Files \cup {NoFile}]
  /\ mmArea \in [Procs -> 1 .. Len(Layout) + 1]
  /\ work \subseteq {"mmput", "mmdrop"} \X Mms

\* Everything an mm_struct counts is exact at every moment of every failure:
\* mm_users the tasks, the readers and the one who builds or replaces the mm,
\* mm_count the users together with the lazy and the OOM references, and the
\* committed pages those of the areas that are linked somewhere.  async_put_work
\* is queued for one function at a time, and a queued mmdrop finds no reference.
MmExact ==
  /\ \A m \in Mms :
       LET by(f) == Cardinality({p \in Procs : f[p] = m})
           oomRef == IF m \in oom THEN 1 ELSE 0
           put == IF users[m] > 0 \/ <<"mmput", m>> \in work THEN 1 ELSE 0
       IN  /\ users[m] = by(mm) + by(pin) + by(new)
           /\ count[m] = put + by(lazy) + oomRef
           /\ Cardinality({w \in work : w[2] = m}) <= 1
           /\ <<"mmdrop", m>> \in work => count[m] = 0 /\ areas[m] = {}
  /\ committed = Cardinality(UNION {{m} \X ChargedPages(areas[m]) : m \in Mms})

\* The executable of a running program cannot be written: i_writecount is
\* negative by exactly one for each exe_file and each replacement on its way,
\* a copied mm never ends up without the executable of its parent, and the
\* deny_write_access of dup_mm_exe_file never fails, replaced or not.
ExeNotWritten ==
  /\ mmWarned = {}
  /\ \A f \in Files :
       LET inMm == Cardinality({m \in Mms : exe[m] = f})
           inCall == Cardinality({p \in Procs : mmPc[p] = "replace_xchg" /\ want[p] = f})
                     + Cardinality({p \in Procs : mmPc[p] = "replace_allow" /\ old[p] = f})
       IN  inMm + inCall > 0 => writeCount[f] = -(inMm + inCall)
=============================================================================
