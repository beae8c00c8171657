------------------------------ MODULE VdsoTask ------------------------------
(***************************************************************************)
(* The vDSO of a process with the areas in front of it                     *)
(* (kvm/linux-5.15.178/arch/x86/entry/vdso/vma.c): [vtask], through which  *)
(* a program sees its own task_struct, then [vvar], then [vdso].  map_vdso *)
(* installs them, the fault handlers fill them page by page with what      *)
(* belongs to current, and get_task_struct_info (vget_task_struct_info.c)  *)
(* reads through them.  Fork copies the page tables; threads share them.   *)
(*                                                                         *)
(* Addresses are counted in half pages, so that there are some that are    *)
(* not at the start of a page; all sizes are in pages.  A page of [vtask]  *)
(* shows a frame <<"task", t, k>>, page k of the task_struct of t, or      *)
(* <<"info", t>>, the page made by vtask_fault for t; a page of [vvar]     *)
(* shows that of the time namespace "ns", or "root", a page of the kernel. *)
(***************************************************************************)
EXTENDS Integers, FiniteSets, FiniteSetsExt

CONSTANTS Viewers, Spaces,
          TaskPages,    \* TASK_STRUCT_PAGE_NUMBER
          VvarPages,    \* -sym_vvar_start
          VdsoPages,    \* the size of the image
          StackTop,     \* where the stack ends
          PmdPages, MapWindow, \* PMD_SIZE and DEFAULT_MAP_WINDOW
          MinAddr,      \* mmap_min_addr
          Others,       \* sets of pages a program may have mapped already
          MoveTo,       \* pages to which a program moves its vDSO
          PidPage,      \* PidPage[t]: the page of its task_struct with the pid
          Nobody, NoFrame, NoArea

Page == 2      \* PAGE_SIZE
ErrValue == -1 \* an error code, as an address

\* The kinds of areas, the length of each, those mm->context records, and the
\* pages of [vvar]: its data, the one for time namespaces, and those of the
\* clocks of hypervisors.
Kinds == {"vtask", "vvar", "vdso"}
AreaLen == [vtask |-> TaskPages + 1, vvar |-> VvarPages, vdso |-> VdsoPages]
Recorded == {"vtask", "vdso"}
VvarSyms == {"vvar_page", "timens_page", "clock_page"}

VARIABLES space,    \* space[t]: the address space of t, or Nobody
          alive,    \* the tasks whose task_struct is not freed
          other,    \* other[s]: pages mapped by the program
          area,     \* area[s][k]: where the area starts, or NoArea
          context,  \* context[s]: mm->context, the addresses it records
          mapAddr,  \* mapAddr[t]: addr in map_vdso
          pte,      \* pte[s][i]: the frame in page i of [vtask]
          vvar,     \* vvar[s][p]: the frame in page p of [vvar]
          timens,   \* timens[t]: the time namespace of t
          threaded, \* spaces that two tasks have used at once (history)
          inherited,\* spaces whose pages came filled from the parent (history)
          readPc, seen, \* the step of t, and the info it saw in its call
          result    \* result[t]: the owner of the pid t read, or "garbage"

mapVars == <<other, area, context, mapAddr>>
viewerVars == <<space, alive, timens>>
readVars == <<readPc, seen, result>>
histVars == <<threaded, inherited>>
vdsoVars == <<viewerVars, mapVars, pte, vvar, histVars, readVars>>

PagesAt(a, n) == a .. a + n * Page - 1
Aligned(a) == a % Page = 0
NoMap == [k \in Kinds |-> NoArea]
NoContext == [k \in Recorded |-> NoArea]
NoPtes == [i \in 0 .. TaskPages |-> NoFrame]
NoVvar == [p \in VvarSyms |-> NoFrame]
Users(s) == {t \in Viewers : space[t] = s}

\* What the program has mapped in s, and all that is mapped there.
Program(s) == UNION {PagesAt(p * Page, 1) : p \in other[s]}
Mapped(s) ==
  Program(s) \cup
  UNION {PagesAt(area[s][k], AreaLen[k]) : k \in {k \in Kinds : area[s][k] # NoArea}}

\* One task, in an address space into which execve is loading a program.
VdsoInit ==
  LET t0 == CHOOSE t \in Viewers : TRUE
      s0 == CHOOSE s \in Spaces : TRUE
  IN  /\ space = [t \in Viewers |-> IF t = t0 THEN s0 ELSE Nobody]
      /\ alive = {t0}
      /\ \E o \in Others : other = [s \in Spaces |-> o]
      /\ area = [s \in Spaces |-> NoMap] /\ context = [s \in Spaces |-> NoContext]
      /\ mapAddr = [t \in Viewers |-> NoArea]
      /\ pte = [s \in Spaces |-> NoPtes] /\ vvar = [s \in Spaces |-> NoVvar]
      /\ timens = [t \in Viewers |-> "root"]
      /\ threaded = {} /\ inherited = {}
      /\ readPc = [t \in Viewers |-> IF t = t0 THEN "exec" ELSE "user"]
      /\ seen = [t \in Viewers |-> Nobody]
      /\ result = [t \in Viewers |-> Nobody]

-----------------------------------------------------------------------------
(***************************************************************************)
(* map_vdso, under the write lock of an address space with one user.       *)
(***************************************************************************)
AskedLen == VdsoPages + VvarPages

\* vdso_addr: a random page above the stack, so that the end is in the same
\* PMD as the stack if it fits.
VdsoAddrs ==
  LET pmdEnd == ((StackTop + AskedLen + PmdPages - 1) \div PmdPages) * PmdPages
  IN  StackTop .. Max({StackTop, Min({pmdEnd, MapWindow}) - AskedLen})

\* external: get_unmapped_area takes the page asked for if there is room, else
\* one below it but not below mmap_min_addr, else it returns an error code.
UnmappedAreas(s, hint) ==
  LET free(p) == PagesAt(p * Page, AskedLen) \cap Mapped(s) = {}
      below == {p \in MinAddr .. hint : free(p)}
  IN  IF free(hint) THEN {hint * Page}
      ELSE IF below # {} THEN {p * Page : p \in below}
      ELSE {ErrValue}

\* IS_ERR_VALUE
IsErrValue(a) == a \in ErrValue .. -1

\* The place found is shifted up by the length of [vtask], which was not part
\* of the question, and only then looked at for an error.
GetUnmappedArea(t) ==
  /\ readPc[t] = "exec"
  /\ \E hint \in VdsoAddrs : \E a \in UnmappedAreas(space[t], hint) :
       LET addr == a + AreaLen.vtask * Page
       IN  IF IsErrValue(addr)
           THEN readPc' = [readPc EXCEPT ![t] = "dead"] /\ UNCHANGED mapAddr
           ELSE /\ readPc' = [readPc EXCEPT ![t] = "vdso"]
                /\ mapAddr' = [mapAddr EXCEPT ![t] = addr]
  /\ UNCHANGED <<viewerVars, other, area, context, pte, vvar, histVars, seen, result>>

\* mmap_write_lock_killable fails, and execve kills the task.
MapVdsoKilled(t) ==
  /\ readPc[t] = "exec"
  /\ readPc' = [readPc EXCEPT ![t] = "dead"]
  /\ UNCHANGED <<viewerVars, mapVars, pte, vvar, histVars, seen, result>>

\* The three areas around addr, the start of [vvar].
Placed(addr) ==
  [vdso |-> addr + VvarPages * Page, vvar |-> addr, vtask |-> addr - AreaLen.vtask * Page]

\* external: insert_vm_struct refuses an area that overlaps another.  One that
\* wraps around the address space starts above all others and passes.
NoOverlap(s, a, n) == a < 0 \/ PagesAt(a, n) \cap Mapped(s) = {}

\* _install_special_mapping of the area k at its place, and the step after it.
Install(t, k, next) ==
  LET a == Placed(mapAddr[t])[k]
  IN  /\ readPc[t] = k
      /\ NoOverlap(space[t], a, AreaLen[k])
      /\ area' = [area EXCEPT ![space[t]][k] = a]
      /\ readPc' = [readPc EXCEPT ![t] = next]

InstallVdso(t) ==
  /\ Install(t, "vdso", "vvar")
  /\ UNCHANGED <<viewerVars, other, context, mapAddr, pte, vvar, histVars, seen, result>>

InstallVvar(t) ==
  /\ Install(t, "vvar", "vtask")
  /\ UNCHANGED <<viewerVars, other, context, mapAddr, pte, vvar, histVars, seen, result>>

\* The last one: the context is set.
InstallVtask(t) ==
  /\ Install(t, "vtask", "user")
  /\ context' = [context EXCEPT ![space[t]] = [k \in Recorded |-> Placed(mapAddr[t])[k]]]
  /\ mapAddr' = [mapAddr EXCEPT ![t] = NoArea]
  /\ UNCHANGED <<viewerVars, other, pte, vvar, histVars, seen, result>>

\* The area after those in ks does not fit, or there is no memory for it: they
\* are unmapped, and execve kills the task.  do_munmap refuses an address that
\* is not at the start of a page.
Unwind(t, ks) ==
  /\ area' = [area EXCEPT ![space[t]] =
                [k \in Kinds |-> IF k \in ks /\ Aligned(@[k]) THEN NoArea ELSE @[k]]]
  /\ mapAddr' = [mapAddr EXCEPT ![t] = NoArea]
  /\ readPc' = [readPc EXCEPT ![t] = "dead"]
  /\ UNCHANGED <<viewerVars, other, context, pte, vvar, histVars, seen, result>>

InstallVdsoFails(t) == readPc[t] = "vdso" /\ Unwind(t, {})
InstallVvarFails(t) == readPc[t] = "vvar" /\ Unwind(t, {"vdso"})

\* Mutant: the third exit is a copy of the second.
InstallVtaskFailsCopied(t) == readPc[t] = "vtask" /\ Unwind(t, {"vdso"})

InstallVtaskFails(t) == readPc[t] = "vtask" /\ Unwind(t, {"vdso", "vvar"})

\* vdso_mremap: the program moves [vdso] alone to the page p; the context
\* follows.  mremap refuses an address that is not at the start of a page.
Mremap(t, p) ==
  /\ readPc[t] = "user" /\ t \in alive
  /\ area[space[t]].vdso # NoArea /\ Aligned(area[space[t]].vdso)
  /\ PagesAt(p * Page, VdsoPages) \cap Mapped(space[t]) = {}
  /\ area' = [area EXCEPT ![space[t]].vdso = p * Page]
  /\ context' = [context EXCEPT ![space[t]].vdso = p * Page]
  /\ UNCHANGED <<viewerVars, other, mapAddr, pte, vvar, histVars, readVars>>

-----------------------------------------------------------------------------
(***************************************************************************)
(* Viewers and address spaces (fork.c, seen from here).                    *)
(***************************************************************************)
\* A thread: the same address space.
Thread(t, u) ==
  /\ readPc[t] = "user" /\ t \in alive
  /\ u \notin alive /\ space[u] = Nobody
  /\ space' = [space EXCEPT ![u] = space[t]]
  /\ alive' = alive \cup {u}
  /\ timens' = [timens EXCEPT ![u] = timens[t]]
  /\ readPc' = [readPc EXCEPT ![u] = "user"]
  /\ threaded' = threaded \cup {space[t]}
  /\ UNCHANGED <<mapVars, pte, vvar, inherited, seen, result>>

\* fork: dup_mm copies the context, and copy_page_range the page table entries,
\* those of [vtask] included since it is a VM_PFNMAP area.
Fork(t, u, s) ==
  /\ readPc[t] = "user" /\ t \in alive
  /\ u \notin alive /\ space[u] = Nobody /\ Users(s) = {}
  /\ space' = [space EXCEPT ![u] = s]
  /\ alive' = alive \cup {u}
  /\ timens' = [timens EXCEPT ![u] = timens[t]]
  /\ area' = [area EXCEPT ![s] = area[space[t]]]
  /\ context' = [context EXCEPT ![s] = context[space[t]]]
  /\ pte' = [pte EXCEPT ![s] = pte[space[t]]]
  /\ vvar' = [vvar EXCEPT ![s] = vvar[space[t]]]
  /\ inherited' = IF pte[space[t]] # NoPtes THEN inherited \cup {s} ELSE inherited
  /\ threaded' = IF space[t] \in threaded THEN threaded \cup {s} ELSE threaded
  /\ readPc' = [readPc EXCEPT ![u] = "user"]
  /\ UNCHANGED <<other, mapAddr, seen, result>>

\* Exit: the task_struct is freed; the address space goes with its last user.
ExitTask(t) ==
  /\ readPc[t] \in {"user", "dead"} /\ t \in alive
  /\ alive' = alive \ {t}
  /\ space' = [space EXCEPT ![t] = Nobody]
  /\ timens' = [timens EXCEPT ![t] = "root"]
  /\ readPc' = [readPc EXCEPT ![t] = "user"]
  /\ seen' = [seen EXCEPT ![t] = Nobody]
  /\ result' = [result EXCEPT ![t] = Nobody]
  /\ IF Users(space[t]) = {t}
     THEN /\ area' = [area EXCEPT ![space[t]] = NoMap]
          /\ context' = [context EXCEPT ![space[t]] = NoContext]
          /\ pte' = [pte EXCEPT ![space[t]] = NoPtes]
          /\ vvar' = [vvar EXCEPT ![space[t]] = NoVvar]
          /\ threaded' = threaded \ {space[t]}
          /\ inherited' = inherited \ {space[t]}
     ELSE UNCHANGED <<area, context, pte, vvar, histVars>>
  /\ UNCHANGED <<other, mapAddr>>

\* vdso_join_timens, for a task alone in its address space: [vvar] is zapped.
JoinTimens(t) ==
  /\ readPc[t] = "user" /\ t \in alive /\ Users(space[t]) = {t}
  /\ timens[t] = "root"
  /\ timens' = [timens EXCEPT ![t] = "ns"]
  /\ vvar' = [vvar EXCEPT ![space[t]] = NoVvar]
  /\ UNCHANGED <<space, alive, mapVars, pte, histVars, readVars>>

\* The frame vvar_fault finds for a page in a time namespace, and the pages it
\* inserts: in a time namespace that of the kernel comes before its own.
VvarFrame(ns, p) == IF p = "vvar_page" THEN ns ELSE "root"
Inserted(ns, p) == IF p = "vvar_page" /\ ns = "ns" THEN {p, "timens_page"} ELSE {p}

VvarFault(t, p) ==
  /\ readPc[t] = "user" /\ t \in alive
  /\ area[space[t]].vvar # NoArea /\ vvar[space[t]][p] = NoFrame
  /\ p = "timens_page" => timens[t] = "ns"
  /\ vvar' = [vvar EXCEPT ![space[t]] =
                [q \in VvarSyms |-> IF q \in Inserted(timens[t], p)
                                   THEN VvarFrame(timens[t], q) ELSE @[q]]]
  /\ UNCHANGED <<viewerVars, mapVars, pte, histVars, readVars>>

\* VM_FAULT_SIGBUS: there is no such page, or the insertion fails, maybe after
\* that of the kernel's page.  The task is killed.
VvarSigbus(t, p) ==
  /\ readPc[t] = "user" /\ t \in alive
  /\ area[space[t]].vvar # NoArea /\ vvar[space[t]][p] = NoFrame
  /\ \/ UNCHANGED vvar
     \/ /\ p = "vvar_page" /\ timens[t] = "ns"
        /\ vvar' = [vvar EXCEPT ![space[t]].timens_page = "root"]
  /\ readPc' = [readPc EXCEPT ![t] = "dead"]
  /\ UNCHANGED <<viewerVars, mapVars, pte, histVars, seen, result>>

-----------------------------------------------------------------------------
(***************************************************************************)
(* get_task_struct_info: the page before [vvar] is the info page; the      *)
(* task_struct begins TaskPages before it, at the offset it gives.         *)
(***************************************************************************)
Info == TaskPages

\* vtask_fault: the page of current's task_struct, or a new info page.
VtaskFault(t, i) == IF i = Info THEN <<"info", t>> ELSE <<"task", t, i>>

\* Sizes are numbers of pages, the pid lies in one of the pages of the
\* task_struct, no program has pages below mmap_min_addr, where [vtask] would
\* fit, and the values that stand for nothing are no others.
VdsoLayout ==
  /\ TaskPages \in Nat /\ VvarPages \in Nat /\ VdsoPages \in Nat
  /\ MinAddr \in Nat /\ StackTop \in Nat /\ MoveTo \subseteq Nat
  /\ MinAddr >= AreaLen.vtask
  /\ \A o \in Others : \A p \in o : p \in Nat /\ p >= MinAddr
  /\ Viewers # {} /\ Spaces # {}
  /\ PidPage \in [Viewers -> 0 .. TaskPages - 1]
  /\ Nobody \notin Viewers \cup Spaces
  /\ NoArea \notin Int
  /\ NoFrame \notin {"root", "ns"}
  /\ \A t \in Viewers : \A i \in 0 .. TaskPages : VtaskFault(t, i) # NoFrame

ASSUME VdsoLayoutHolds == VdsoLayout

\* The page i of [vtask], faulted in if it is not there.
Touch(t, i) ==
  pte' = [pte EXCEPT ![space[t]][i] = IF @ = NoFrame THEN VtaskFault(t, i) ELSE @]

\* The code of [vdso] can run, since vdso_fault finds its first page, and the
\* info page lies where the code looks for it, from where it runs.
InPlace(s) ==
  /\ Aligned(area[s].vdso)
  /\ area[s].vdso - (VvarPages + 1) * Page = area[s].vtask + Info * Page

ReadInfo(t) ==
  /\ readPc[t] = "user" /\ t \in alive
  /\ area[space[t]].vdso # NoArea /\ InPlace(space[t])
  /\ Touch(t, Info)
  /\ seen' = [seen EXCEPT ![t] = pte'[space[t]][Info][2]]
  /\ readPc' = [readPc EXCEPT ![t] = "read"]
  /\ UNCHANGED <<viewerVars, mapVars, vvar, histVars, result>>

\* alloc_page fails: VM_FAULT_OOM.  Elsewhere there is no such page to read,
\* or no code to run: VM_FAULT_SIGBUS.
ReadFails(t) ==
  /\ readPc[t] = "user" /\ t \in alive
  /\ area[space[t]].vdso # NoArea
  /\ pte[space[t]][Info] = NoFrame \/ ~InPlace(space[t])
  /\ readPc' = [readPc EXCEPT ![t] = "dead"]
  /\ UNCHANGED <<viewerVars, mapVars, pte, vvar, histVars, seen, result>>

\* The pid, at the place the offset of the info page leads to.  It is a pid if
\* the frame is of the same task, at the same page, and still a task_struct.
ReadPid(t) ==
  /\ readPc[t] = "read"
  /\ LET i == PidPage[seen[t]]
         frame == pte'[space[t]][i]
     IN  /\ Touch(t, i)
         /\ result' = [result EXCEPT ![t] =
                         IF frame = <<"task", seen[t], i>> /\ seen[t] \in alive
                         THEN seen[t] ELSE "garbage"]
  /\ readPc' = [readPc EXCEPT ![t] = "done"]
  /\ UNCHANGED <<viewerVars, mapVars, vvar, histVars, seen>>

\* The program has used what it read.
Return(t) ==
  /\ readPc[t] = "done"
  /\ readPc' = [readPc EXCEPT ![t] = "user"]
  /\ seen' = [seen EXCEPT ![t] = Nobody]
  /\ result' = [result EXCEPT ![t] = Nobody]
  /\ UNCHANGED <<viewerVars, mapVars, pte, vvar, histVars>>

VdsoNext ==
  \E t \in Viewers :
    \/ GetUnmappedArea(t) \/ MapVdsoKilled(t)
    \/ InstallVdso(t) \/ InstallVdsoFails(t) \/ InstallVvar(t) \/ InstallVvarFails(t)
    \/ InstallVtask(t) \/ InstallVtaskFails(t)
    \/ \E p \in MoveTo : Mremap(t, p)
    \/ \E u \in Viewers : Thread(t, u) \/ \E s \in Spaces : Fork(t, u, s)
    \/ ExitTask(t) \/ JoinTimens(t)
    \/ \E p \in VvarSyms : VvarFault(t, p) \/ VvarSigbus(t, p)
    \/ ReadInfo(t) \/ ReadFails(t) \/ ReadPid(t) \/ Return(t)

VdsoSpec == VdsoInit /\ [][VdsoNext]_vdsoVars
-----------------------------------------------------------------------------
\* The type invariant of the areas and their pages.
VdsoTypeOK ==
  /\ space \in [Viewers -> Spaces \cup {Nobody}]
  /\ alive \subseteq Viewers /\ DOMAIN mapAddr = Viewers
  /\ \A s \in Spaces : DOMAIN area[s] = Kinds /\ DOMAIN pte[s] = 0 .. TaskPages
  /\ vvar \in [Spaces -> [VvarSyms -> {NoFrame, "root", "ns"}]]
  /\ timens \in [Viewers -> {"root", "ns"}]
  /\ threaded \subseteq Spaces /\ inherited \subseteq Spaces
  /\ readPc \in [Viewers -> Kinds \cup {"exec", "user", "read", "done", "dead"}]
  /\ seen \in [Viewers -> Viewers \cup {Nobody}]
  /\ result \in [Viewers -> Viewers \cup {Nobody, "garbage"}]

\* A task alone in an address space it got empty reads its own pid, however its
\* address space came to be mapped: the info page is where the code looks for
\* it, and both pages are those of current.
OwnPid ==
  \A t \in Viewers :
    readPc[t] = "done" /\ space[t] \notin threaded \cup inherited => result[t] = t

\* All three areas are there and the context knows them, or none is.
Whole(s) ==
  /\ \A k \in Kinds : area[s][k] # NoArea
  /\ \A k \in Recorded : context[s][k] = area[s][k]
Bare(s) == area[s] = NoMap /\ context[s] = NoContext

Misaligned(s) == \E k \in Kinds : area[s][k] # NoArea /\ ~Aligned(area[s][k])

\* Outside map_vdso the areas are all there or none, wherever it failed; only
\* what do_munmap refuses may be left, for a task that execve kills.  At any
\* time they leave the program's pages alone, [vtask] ends where [vvar]
\* starts, and [vvar] shows no page that is not for the time namespace of the
\* tasks that use it.
AreasExact ==
  \A s \in Spaces :
    /\ \/ Whole(s) \/ Bare(s)
       \/ \E t \in Users(s) : readPc[t] \in Kinds
       \/ Misaligned(s) /\ \A t \in Users(s) : readPc[t] = "dead"
    /\ \A k \in Kinds : area[s][k] # NoArea =>
         PagesAt(area[s][k], AreaLen[k]) \cap Program(s) = {}
    /\ area[s].vtask # NoArea => area[s].vtask + AreaLen.vtask * Page = area[s].vvar
    /\ \A t \in Users(s) :
         /\ vvar[s].vvar_page \in {NoFrame, timens[t]}
         /\ vvar[s].timens_page # NoFrame => timens[t] = "ns"

\* What holds of the vDSO: the areas are installed all or none where the
\* context says, [vvar] follows the time namespace, and a task alone in an
\* address space that was not copied reads its own pid from [vtask] (map_vdso,
\* vtask_fault, vvar_fault, vdso_join_timens, get_task_struct_info).
VtaskSound == VdsoTypeOK /\ OwnPid /\ AreasExact

\* What the test of get_task_struct_info expects of a program that forks: each
\* process, parent or child, reads its own pid.
ChildPid ==
  \A t \in Viewers : readPc[t] = "done" /\ space[t] \notin threaded => result[t] = t
=============================================================================
