---------------------------- MODULE CloneProofs -----------------------------
(***************************************************************************)
(* Creating a task: first kernel_clone, which calls copy_process and waits *)
(* for a vfork child, then copy_process itself.  The two are proved apart, *)
(* each for every value of the constants of its module.                    *)
(***************************************************************************)
EXTENDS KernelClone, CopyProcess, FiniteSetTheorems, TLAPS

-----------------------------------------------------------------------------
(***************************************************************************)
(* kernel_clone, vfork and the pidfd, for any children, threads and        *)
(* requests.  CloneInv is inductive; all of it but the types and the two       *)
(* histories is about one child at a time, and a step is about one child,  *)
(* so each action has one step per part of the invariant of its child.     *)
(***************************************************************************)

\* The number of conditions that hold, one at a time.
One(b) == IF b THEN 1 ELSE 0

\* The child has a task_struct; kernel_clone is under way for it.
Alive(c) == child[c] \notin {"none", "reaped"}
Calling(c) == at[c] \in {"wake", "wait", "unset", "put_task", "put"}

\* The child exists from the clone on, and with it its pid.
ChildInv(c) ==
  /\ req[c] = Null <=> child[c] = "none"
  /\ at[c] = "none" => child[c] = "none"
  /\ child[c] = "none" => /\ at[c] \in {"none", "returned"}
                          /\ pidfd[c] = "closed" /\ c \notin ready
                          /\ c \notin usesMm
  /\ child[c] = "new" <=> at[c] = "wake"
  /\ ~Alive(c) => threads[c] = {}
  /\ c \in pidTask <=> Alive(c)

\* The completion: as long as the child has the pointer the parent's frame is
\* there; a parent that was not killed does not go on before the child leaves.
FrameInv(c) ==
  /\ frame[c] # "none" <=> HasFlag(c, "VFORK") /\ Calling(c)
  /\ at[c] \in {"wait", "unset", "put_task"} => HasFlag(c, "VFORK")
  /\ vforkDone[c] <=> frame[c] = "waiting" /\ at[c] \in {"wake", "wait", "unset"}
  /\ at[c] = "unset" \/ (frame[c] = "waiting" /\ at[c] \in {"put_task", "put"}) => killed
  /\ HasFlag(c, "VFORK") /\ c \in usesMm /\ child[c] \in {"new", "run", "clear_tid", "complete"}
       => frame[c] = "waiting" \/ killed
  /\ c \in usesMm => child[c] \in {"new", "run", "clear_tid", "complete", "left"}

\* References to the task and to the pid of the child.
CountInv(c) ==
  /\ childUsage[c] = One(Alive(c))
                + One(HasFlag(c, "VFORK") /\ at[c] \in {"wake", "wait", "unset", "put_task"})
  /\ pidRefs[c] = One(c \in pidTask) + One(Calling(c)) + One(pidfd[c] # "closed")

\* The poller.
PollInv(c) ==
  /\ pidfd[c] = "asleep" => c \in queued /\ ~GroupExited(c)
  /\ c \in ready => GroupExited(c)

\* All that is said of one child.
Of(c) == ChildInv(c) /\ FrameInv(c) /\ CountInv(c) /\ PollInv(c)

\* The inductive invariant: nobody used a frame that was gone.
CloneInv ==
  /\ CloneTypeOK /\ dangling = {} /\ scribbled = {}
  /\ \A c \in Children : Of(c)

-----------------------------------------------------------------------------
\* A condition more or less.
LEMMA CountOne ==
  ASSUME NEW S, IsFiniteSet(S), NEW x, x \notin S, NEW b \in BOOLEAN
  PROVE  LET T == IF b THEN S \cup {x} ELSE S
         IN  IsFiniteSet(T) /\ Cardinality(T) = Cardinality(S) + One(b)
<1>1. Cardinality(S) \in Nat
  BY FS_CardinalityType
<1>2. CASE b = TRUE
  BY <1>2, FS_AddElement DEF One
<1>3. CASE b = FALSE
  BY <1>1, <1>3 DEF One
<1> QED
  BY <1>2, <1>3

\* The set in PidfdFaithful has an element for each holder of the pid.
LEMMA CountHolders ==
  ASSUME NEW a \in BOOLEAN, NEW b \in BOOLEAN, NEW d \in BOOLEAN
  PROVE  Cardinality({x \in {"task", "clone", "file"} :
                        \/ x = "task" /\ a
                        \/ x = "clone" /\ b
                        \/ x = "file" /\ d}) = One(a) + One(b) + One(d)
<1> DEFINE A == IF a THEN {} \cup {"task"} ELSE {}
           B == IF b THEN A \cup {"clone"} ELSE A
           D == IF d THEN B \cup {"file"} ELSE B
           H == {x \in {"task", "clone", "file"} :
                   \/ x = "task" /\ a
                   \/ x = "clone" /\ b
                   \/ x = "file" /\ d}
<1>1. H = D
  OBVIOUS
<1>2. IsFiniteSet(A) /\ Cardinality(A) = 0 + One(a)
  BY FS_EmptySet, CountOne
<1>3. "clone" \notin A /\ "file" \notin B
  OBVIOUS
<1> HIDE DEF A
<1>4. IsFiniteSet(B) /\ Cardinality(B) = Cardinality(A) + One(b)
  BY <1>2, <1>3, CountOne
<1> HIDE DEF B
<1>5. Cardinality(D) = Cardinality(B) + One(d)
  BY <1>3, <1>4, CountOne
<1> HIDE DEF D, H
<1>6. Cardinality(H) = One(a) + One(b) + One(d)
  BY <1>1, <1>2, <1>4, <1>5 DEF One
<1> QED
  BY <1>6 DEF H

\* Nothing changes for the child u.
SameFor(u) ==
  /\ at'[u] = at[u] /\ req'[u] = req[u] /\ vforkDone'[u] = vforkDone[u]
  /\ frame'[u] = frame[u] /\ child'[u] = child[u] /\ childUsage'[u] = childUsage[u]
  /\ threads'[u] = threads[u] /\ pidRefs'[u] = pidRefs[u] /\ pidfd'[u] = pidfd[u]
  /\ u \in usesMm' <=> u \in usesMm
  /\ u \in pidTask' <=> u \in pidTask
  /\ u \in queued' <=> u \in queued
  /\ u \in ready' <=> u \in ready

\* A child that a step is not about, whatever signal the parent gets.
LEMMA SameKept ==
  ASSUME NEW u \in Children, Of(u), SameFor(u), killed => killed'
  PROVE  Of(u)'
<1>1. /\ Alive(u)' <=> Alive(u)
      /\ Calling(u)' <=> Calling(u)
      /\ HasFlag(u, "VFORK")' <=> HasFlag(u, "VFORK")
      /\ GroupExited(u)' <=> GroupExited(u)
  BY DEF SameFor, Alive, Calling, HasFlag, GroupExited
<1>2. ChildInv(u)'
  BY <1>1 DEF SameFor, Of, ChildInv
<1>3. FrameInv(u)'
  BY <1>1 DEF SameFor, Of, FrameInv
<1>4. CountInv(u)'
  BY <1>1 DEF SameFor, Of, CountInv, One
<1>5. PollInv(u)'
  BY <1>1 DEF SameFor, Of, PollInv
<1> QED
  BY <1>2, <1>3, <1>4, <1>5 DEF Of

\* A step about the child c.
LEMMA StepKeeps ==
  ASSUME CloneInv, NEW c \in Children, CloneTypeOK', dangling' = {}, scribbled' = {}, Of(c)',
         killed => killed', \A u \in Children \ {c} : SameFor(u)
  PROVE  CloneInv'
  BY SameKept DEF CloneInv

\* A refused request leaves a call that returned and no child.
LEMMA RefuseKeeps ==
  ASSUME CloneInv, NEW c \in Children, NEW r \in Requests, Refuse(c, r)
  PROVE  CloneInv'
<1> USE DEF Refuse, waitVars, childVars, pidVars
<1>1. CloneTypeOK'
  BY DEF CloneInv, CloneTypeOK
<1>2. dangling' = {} /\ scribbled' = {} /\ (killed => killed')
  BY DEF CloneInv, Refuse, waitVars, childVars, pidVars
<1>3. ASSUME NEW u \in Children \ {c} PROVE SameFor(u)
  BY DEF CloneInv, CloneTypeOK, SameFor
<1>4. Of(c)'
  <2> USE DEF CloneInv, CloneTypeOK, Of
  <2>1. ChildInv(c)'
    BY DEF ChildInv, Alive, HasFlag
  <2>2. FrameInv(c)'
    BY DEF ChildInv, FrameInv, Alive, Calling, HasFlag
  <2>3. CountInv(c)'
    BY DEF ChildInv, FrameInv, CountInv, Alive, Calling, HasFlag, One
  <2>4. PollInv(c)'
    BY DEF ChildInv, PollInv, GroupExited, Alive
  <2> QED
    BY <2>1, <2>2, <2>3, <2>4
<1> QED
  BY <1>1, <1>2, <1>3, <1>4, StepKeeps

\* wake_up_new_task starts the child; the parent goes on or waits.
LEMMA WakeKeeps ==
  ASSUME CloneInv, NEW c \in Children, Wake(c)
  PROVE  CloneInv'
<1> USE DEF Wake, waitVars, childVars, pidVars
<1>1. CloneTypeOK'
  BY DEF CloneInv, CloneTypeOK
<1>2. dangling' = {} /\ scribbled' = {} /\ (killed => killed')
  BY DEF CloneInv, Wake, waitVars, childVars, pidVars
<1>3. ASSUME NEW u \in Children \ {c} PROVE SameFor(u)
  BY DEF CloneInv, CloneTypeOK, SameFor
<1>4. Of(c)'
  <2> USE DEF CloneInv, CloneTypeOK, Of
  <2>1. ChildInv(c)'
    BY DEF ChildInv, Alive, HasFlag
  <2>2. FrameInv(c)'
    BY DEF ChildInv, FrameInv, Alive, Calling, HasFlag
  <2>3. CountInv(c)'
    BY DEF ChildInv, FrameInv, CountInv, Alive, Calling, HasFlag, One
  <2>4. PollInv(c)'
    BY DEF ChildInv, PollInv, GroupExited, Alive
  <2> QED
    BY <2>1, <2>2, <2>3, <2>4
<1> QED
  BY <1>1, <1>2, <1>3, <1>4, StepKeeps

\* The completion came: the child has left the memory.
LEMMA WaitDoneKeeps ==
  ASSUME CloneInv, NEW c \in Children, WaitDone(c)
  PROVE  CloneInv'
<1> USE DEF WaitDone, waitVars, childVars, pidVars
<1>1. CloneTypeOK'
  BY DEF CloneInv, CloneTypeOK
<1>2. dangling' = {} /\ scribbled' = {} /\ (killed => killed')
  BY DEF CloneInv, WaitDone, waitVars, childVars, pidVars
<1>3. ASSUME NEW u \in Children \ {c} PROVE SameFor(u)
  BY DEF CloneInv, CloneTypeOK, SameFor
<1>4. Of(c)'
  <2> USE DEF CloneInv, CloneTypeOK, Of
  <2>1. ChildInv(c)'
    BY DEF ChildInv, Alive, HasFlag
  <2>2. FrameInv(c)'
    BY DEF ChildInv, FrameInv, Alive, Calling, HasFlag
  <2>3. CountInv(c)'
    BY DEF ChildInv, FrameInv, CountInv, Alive, Calling, HasFlag, One
  <2>4. PollInv(c)'
    BY DEF ChildInv, PollInv, GroupExited, Alive
  <2> QED
    BY <2>1, <2>2, <2>3, <2>4
<1> QED
  BY <1>1, <1>2, <1>3, <1>4, StepKeeps

\* The wait was killed: the completion is still reachable.
LEMMA WaitKilledKeeps ==
  ASSUME CloneInv, NEW c \in Children, WaitKilled(c)
  PROVE  CloneInv'
<1> USE DEF WaitKilled, waitVars, childVars, pidVars
<1>1. CloneTypeOK'
  BY DEF CloneInv, CloneTypeOK
<1>2. dangling' = {} /\ scribbled' = {} /\ (killed => killed')
  BY DEF CloneInv, WaitKilled, waitVars, childVars, pidVars
<1>3. ASSUME NEW u \in Children \ {c} PROVE SameFor(u)
  BY DEF CloneInv, CloneTypeOK, SameFor
<1>4. Of(c)'
  <2> USE DEF CloneInv, CloneTypeOK, Of
  <2>1. ChildInv(c)'
    BY DEF ChildInv, Alive, HasFlag
  <2>2. FrameInv(c)'
    BY DEF ChildInv, FrameInv, Alive, Calling, HasFlag
  <2>3. CountInv(c)'
    BY DEF ChildInv, FrameInv, CountInv, Alive, Calling, HasFlag, One
  <2>4. PollInv(c)'
    BY DEF ChildInv, PollInv, GroupExited, Alive
  <2> QED
    BY <2>1, <2>2, <2>3, <2>4
<1> QED
  BY <1>1, <1>2, <1>3, <1>4, StepKeeps

\* The pointer to the completion is taken from the child.
LEMMA UnsetVforkKeeps ==
  ASSUME CloneInv, NEW c \in Children, UnsetVfork(c)
  PROVE  CloneInv'
<1> USE DEF UnsetVfork, waitVars, childVars, pidVars
<1>1. CloneTypeOK'
  BY DEF CloneInv, CloneTypeOK
<1>2. dangling' = {} /\ scribbled' = {} /\ (killed => killed')
  BY DEF CloneInv, UnsetVfork, waitVars, childVars, pidVars
<1>3. ASSUME NEW u \in Children \ {c} PROVE SameFor(u)
  BY DEF CloneInv, CloneTypeOK, SameFor
<1>4. Of(c)'
  <2> USE DEF CloneInv, CloneTypeOK, Of
  <2>1. ChildInv(c)'
    BY DEF ChildInv, Alive, HasFlag
  <2>2. FrameInv(c)'
    BY DEF ChildInv, FrameInv, Alive, Calling, HasFlag
  <2>3. CountInv(c)'
    BY DEF ChildInv, FrameInv, CountInv, Alive, Calling, HasFlag, One
  <2>4. PollInv(c)'
    BY DEF ChildInv, PollInv, GroupExited, Alive
  <2> QED
    BY <2>1, <2>2, <2>3, <2>4
<1> QED
  BY <1>1, <1>2, <1>3, <1>4, StepKeeps

\* The parent unpins the task of the child.
LEMMA PutTaskStructKeeps ==
  ASSUME CloneInv, NEW c \in Children, PutTaskStruct(c)
  PROVE  CloneInv'
<1> USE DEF PutTaskStruct, waitVars, childVars, pidVars
<1>1. CloneTypeOK'
  <2>1. childUsage[c] - 1 \in 0 .. 2
    BY DEF CloneInv, CloneTypeOK, Of, FrameInv, CountInv, Alive, One
  <2> QED
    BY <2>1 DEF CloneInv, CloneTypeOK
<1>2. dangling' = {} /\ scribbled' = {} /\ (killed => killed')
  BY DEF CloneInv, PutTaskStruct, waitVars, childVars, pidVars
<1>3. ASSUME NEW u \in Children \ {c} PROVE SameFor(u)
  BY DEF CloneInv, CloneTypeOK, SameFor
<1>4. Of(c)'
  <2> USE DEF CloneInv, CloneTypeOK, Of
  <2>1. ChildInv(c)'
    BY DEF ChildInv, Alive, HasFlag
  <2>2. FrameInv(c)'
    BY DEF ChildInv, FrameInv, Alive, Calling, HasFlag
  <2>3. CountInv(c)'
    BY DEF ChildInv, FrameInv, CountInv, Alive, Calling, HasFlag, One
  <2>4. PollInv(c)'
    BY DEF ChildInv, PollInv, GroupExited, Alive
  <2> QED
    BY <2>1, <2>2, <2>3, <2>4
<1> QED
  BY <1>1, <1>2, <1>3, <1>4, StepKeeps

\* The frame goes, when no child can reach it any more.
LEMMA CloneReturnsKeeps ==
  ASSUME CloneInv, NEW c \in Children, CloneReturns(c)
  PROVE  CloneInv'
<1> USE DEF CloneReturns, waitVars, childVars, pidVars
<1>1. CloneTypeOK'
  <2>1. pidRefs[c] - 1 \in 0 .. 3
    BY DEF CloneInv, CloneTypeOK, Of, CountInv, Calling, One
  <2> QED
    BY <2>1 DEF CloneInv, CloneTypeOK
<1>2. dangling' = {} /\ scribbled' = {} /\ (killed => killed')
  BY DEF CloneInv, CloneReturns, waitVars, childVars, pidVars
<1>3. ASSUME NEW u \in Children \ {c} PROVE SameFor(u)
  BY DEF CloneInv, CloneTypeOK, SameFor
<1>4. Of(c)'
  <2> USE DEF CloneInv, CloneTypeOK, Of
  <2>1. ChildInv(c)'
    BY DEF ChildInv, Alive, HasFlag
  <2>2. FrameInv(c)'
    BY DEF ChildInv, FrameInv, Alive, Calling, HasFlag
  <2>3. CountInv(c)'
    BY DEF ChildInv, FrameInv, CountInv, Alive, Calling, HasFlag, One
  <2>4. PollInv(c)'
    BY DEF ChildInv, PollInv, GroupExited, Alive
  <2> QED
    BY <2>1, <2>2, <2>3, <2>4
<1> QED
  BY <1>1, <1>2, <1>3, <1>4, StepKeeps

\* The child begins to leave its address space.
LEMMA MmReleaseKeeps ==
  ASSUME CloneInv, NEW c \in Children, NEW how \in {"exec", "exit"}, MmRelease(c, how)
  PROVE  CloneInv'
<1> USE DEF MmRelease, waitVars, childVars, pidVars
<1>1. CloneTypeOK'
  BY DEF CloneInv, CloneTypeOK
<1>2. dangling' = {} /\ scribbled' = {} /\ (killed => killed')
  BY DEF CloneInv, MmRelease, waitVars, childVars, pidVars
<1>3. ASSUME NEW u \in Children \ {c} PROVE SameFor(u)
  BY DEF CloneInv, CloneTypeOK, SameFor
<1>4. Of(c)'
  <2> USE DEF CloneInv, CloneTypeOK, Of
  <2>1. ChildInv(c)'
    BY DEF ChildInv, Alive, HasFlag
  <2>2. FrameInv(c)'
    BY DEF ChildInv, FrameInv, Alive, Calling, HasFlag
  <2>3. CountInv(c)'
    BY DEF ChildInv, FrameInv, CountInv, Alive, Calling, HasFlag, One
  <2>4. PollInv(c)'
    BY DEF ChildInv, PollInv, GroupExited, Alive
  <2> QED
    BY <2>1, <2>2, <2>3, <2>4
<1> QED
  BY <1>1, <1>2, <1>3, <1>4, StepKeeps

\* The child's tid is cleared before the parent uses the memory again.
LEMMA ClearTidKeeps ==
  ASSUME CloneInv, NEW c \in Children, NEW coredump \in BOOLEAN, ClearTid(c, coredump)
  PROVE  CloneInv'
<1> USE DEF ClearTid, waitVars, childVars, pidVars
<1>1. CloneTypeOK'
  BY DEF CloneInv, CloneTypeOK
<1>2. dangling' = {} /\ scribbled' = {} /\ (killed => killed')
  BY DEF CloneInv, Of, FrameInv, ClearTid, Resumed, waitVars
<1>3. ASSUME NEW u \in Children \ {c} PROVE SameFor(u)
  BY DEF CloneInv, CloneTypeOK, SameFor
<1>4. Of(c)'
  <2> USE DEF CloneInv, CloneTypeOK, Of
  <2>1. ChildInv(c)'
    BY DEF ChildInv, Alive, HasFlag
  <2>2. FrameInv(c)'
    BY DEF ChildInv, FrameInv, Alive, Calling, HasFlag
  <2>3. CountInv(c)'
    BY DEF ChildInv, FrameInv, CountInv, Alive, Calling, HasFlag, One
  <2>4. PollInv(c)'
    BY DEF ChildInv, PollInv, GroupExited, Alive
  <2> QED
    BY <2>1, <2>2, <2>3, <2>4
<1> QED
  BY <1>1, <1>2, <1>3, <1>4, StepKeeps

\* The completion is completed in a frame that is there.
LEMMA CompleteVforkKeeps ==
  ASSUME CloneInv, NEW c \in Children, CompleteVfork(c)
  PROVE  CloneInv'
<1> USE DEF CompleteVfork, waitVars, childVars, pidVars
<1>1. CloneTypeOK'
  BY DEF CloneInv, CloneTypeOK
<1>2. dangling' = {} /\ scribbled' = {} /\ (killed => killed')
  BY DEF CloneInv, Of, FrameInv, CompleteVfork
<1>3. ASSUME NEW u \in Children \ {c} PROVE SameFor(u)
  BY DEF CloneInv, CloneTypeOK, SameFor
<1>4. Of(c)'
  <2> USE DEF CloneInv, CloneTypeOK, Of
  <2>1. ChildInv(c)'
    BY DEF ChildInv, Alive, HasFlag
  <2>2. FrameInv(c)'
    BY DEF ChildInv, FrameInv, Alive, Calling, HasFlag
  <2>3. CountInv(c)'
    BY DEF ChildInv, FrameInv, CountInv, Alive, Calling, HasFlag, One
  <2>4. PollInv(c)'
    BY DEF ChildInv, PollInv, GroupExited, Alive
  <2> QED
    BY <2>1, <2>2, <2>3, <2>4
<1> QED
  BY <1>1, <1>2, <1>3, <1>4, StepKeeps

\* The child leaves the shared memory.
LEMMA LeaveMmKeeps ==
  ASSUME CloneInv, NEW c \in Children, LeaveMm(c)
  PROVE  CloneInv'
<1> USE DEF LeaveMm, waitVars, childVars, pidVars
<1>1. CloneTypeOK'
  BY DEF CloneInv, CloneTypeOK
<1>2. dangling' = {} /\ scribbled' = {} /\ (killed => killed')
  BY DEF CloneInv, LeaveMm, waitVars, childVars, pidVars
<1>3. ASSUME NEW u \in Children \ {c} PROVE SameFor(u)
  BY DEF CloneInv, CloneTypeOK, SameFor
<1>4. Of(c)'
  <2> USE DEF CloneInv, CloneTypeOK, Of
  <2>1. ChildInv(c)'
    BY DEF ChildInv, Alive, HasFlag
  <2>2. FrameInv(c)'
    BY DEF ChildInv, FrameInv, Alive, Calling, HasFlag
  <2>3. CountInv(c)'
    BY DEF ChildInv, FrameInv, CountInv, Alive, Calling, HasFlag, One
  <2>4. PollInv(c)'
    BY DEF ChildInv, PollInv, GroupExited, Alive
  <2> QED
    BY <2>1, <2>2, <2>3, <2>4
<1> QED
  BY <1>1, <1>2, <1>3, <1>4, StepKeeps

\* A new thread of the child.
LEMMA StartThreadKeeps ==
  ASSUME CloneInv, NEW c \in Children, NEW h \in Threads, StartThread(c, h)
  PROVE  CloneInv'
<1> USE DEF StartThread, waitVars, childVars, pidVars
<1>1. CloneTypeOK'
  BY DEF CloneInv, CloneTypeOK
<1>2. dangling' = {} /\ scribbled' = {} /\ (killed => killed')
  BY DEF CloneInv, StartThread, waitVars, childVars, pidVars
<1>3. ASSUME NEW u \in Children \ {c} PROVE SameFor(u)
  BY DEF CloneInv, CloneTypeOK, SameFor
<1>4. Of(c)'
  <2> USE DEF CloneInv, CloneTypeOK, Of
  <2>1. ChildInv(c)'
    BY DEF ChildInv, Alive, HasFlag
  <2>2. FrameInv(c)'
    BY DEF ChildInv, FrameInv, Alive, Calling, HasFlag
  <2>3. CountInv(c)'
    BY DEF ChildInv, FrameInv, CountInv, Alive, Calling, HasFlag, One
  <2>4. PollInv(c)'
    BY DEF ChildInv, PollInv, GroupExited, Alive
  <2> QED
    BY <2>1, <2>2, <2>3, <2>4
<1> QED
  BY <1>1, <1>2, <1>3, <1>4, StepKeeps

\* The leader exits; the pollers hear of it when it is the last.
LEMMA ExitLeaderKeeps ==
  ASSUME CloneInv, NEW c \in Children, ExitLeader(c)
  PROVE  CloneInv'
<1> USE DEF ExitLeader, Notify, waitVars, childVars, pidVars
<1>1. CloneTypeOK'
  BY DEF CloneInv, CloneTypeOK
<1>2. dangling' = {} /\ scribbled' = {} /\ (killed => killed')
  BY DEF CloneInv, ExitLeader, waitVars, childVars, pidVars
<1>3. ASSUME NEW u \in Children \ {c} PROVE SameFor(u)
  BY DEF CloneInv, CloneTypeOK, SameFor
<1>4. Of(c)'
  <2> USE DEF CloneInv, CloneTypeOK, Of
  <2>1. ChildInv(c)'
    BY DEF ChildInv, Alive, HasFlag
  <2>2. FrameInv(c)'
    BY DEF ChildInv, FrameInv, Alive, Calling, HasFlag
  <2>3. CountInv(c)'
    BY DEF ChildInv, FrameInv, CountInv, Alive, Calling, HasFlag, One
  <2>4. PollInv(c)'
    BY DEF ChildInv, PollInv, GroupExited, Alive
  <2> QED
    BY <2>1, <2>2, <2>3, <2>4
<1> QED
  BY <1>1, <1>2, <1>3, <1>4, StepKeeps

\* A thread exits; the pollers hear of it when it is the last.
LEMMA ExitThreadKeeps ==
  ASSUME CloneInv, NEW c \in Children, NEW h \in Threads, ExitThread(c, h)
  PROVE  CloneInv'
<1> USE DEF ExitThread, Notify, waitVars, childVars, pidVars
<1>1. CloneTypeOK'
  BY DEF CloneInv, CloneTypeOK
<1>2. dangling' = {} /\ scribbled' = {} /\ (killed => killed')
  BY DEF CloneInv, ExitThread, waitVars, childVars, pidVars
<1>3. ASSUME NEW u \in Children \ {c} PROVE SameFor(u)
  BY DEF CloneInv, CloneTypeOK, SameFor
<1>4. Of(c)'
  <2> USE DEF CloneInv, CloneTypeOK, Of
  <2>1. ChildInv(c)'
    BY DEF ChildInv, Alive, HasFlag
  <2>2. FrameInv(c)'
    BY DEF ChildInv, FrameInv, Alive, Calling, HasFlag
  <2>3. CountInv(c)'
    BY DEF ChildInv, FrameInv, CountInv, Alive, Calling, HasFlag, One
  <2>4. PollInv(c)'
    BY DEF ChildInv, PollInv, GroupExited, Alive
  <2> QED
    BY <2>1, <2>2, <2>3, <2>4
<1> QED
  BY <1>1, <1>2, <1>3, <1>4, StepKeeps

\* The child is reaped after the whole group exited.
LEMMA ReapKeeps ==
  ASSUME CloneInv, NEW c \in Children, ReapChild(c)
  PROVE  CloneInv'
<1> USE DEF ReapChild, waitVars, childVars, pidVars
<1>1. CloneTypeOK'
  <2>1. childUsage[c] - 1 \in 0 .. 2 /\ pidRefs[c] - 1 \in 0 .. 3
    BY DEF CloneInv, CloneTypeOK, Of, ChildInv, CountInv, Alive, One
  <2> QED
    BY <2>1 DEF CloneInv, CloneTypeOK
<1>2. dangling' = {} /\ scribbled' = {} /\ (killed => killed')
  BY DEF CloneInv, ReapChild, waitVars, childVars, pidVars
<1>3. ASSUME NEW u \in Children \ {c} PROVE SameFor(u)
  BY DEF CloneInv, CloneTypeOK, SameFor
<1>4. Of(c)'
  <2> USE DEF CloneInv, CloneTypeOK, Of
  <2>1. ChildInv(c)'
    BY DEF ChildInv, Alive, HasFlag
  <2>2. FrameInv(c)'
    BY DEF ChildInv, FrameInv, Alive, Calling, HasFlag
  <2>3. CountInv(c)'
    BY DEF ChildInv, FrameInv, CountInv, Alive, Calling, HasFlag, One
  <2>4. PollInv(c)'
    BY DEF ChildInv, PollInv, GroupExited, Alive
  <2> QED
    BY <2>1, <2>2, <2>3, <2>4
<1> QED
  BY <1>1, <1>2, <1>3, <1>4, StepKeeps

\* A poller queues itself.
LEMMA PollKeeps ==
  ASSUME CloneInv, NEW c \in Children, Poll(c)
  PROVE  CloneInv'
<1> USE DEF Poll, waitVars, childVars, pidVars
<1>1. CloneTypeOK'
  BY DEF CloneInv, CloneTypeOK
<1>2. dangling' = {} /\ scribbled' = {} /\ (killed => killed')
  BY DEF CloneInv, Poll, waitVars, childVars, pidVars
<1>3. ASSUME NEW u \in Children \ {c} PROVE SameFor(u)
  BY DEF CloneInv, CloneTypeOK, SameFor
<1>4. Of(c)'
  <2> USE DEF CloneInv, CloneTypeOK, Of
  <2>1. ChildInv(c)'
    BY DEF ChildInv, Alive, HasFlag
  <2>2. FrameInv(c)'
    BY DEF ChildInv, FrameInv, Alive, Calling, HasFlag
  <2>3. CountInv(c)'
    BY DEF ChildInv, FrameInv, CountInv, Alive, Calling, HasFlag, One
  <2>4. PollInv(c)'
    BY DEF ChildInv, PollInv, GroupExited, Alive
  <2> QED
    BY <2>1, <2>2, <2>3, <2>4
<1> QED
  BY <1>1, <1>2, <1>3, <1>4, StepKeeps

\* A queued poller looks at the thread group.
LEMMA PollCheckKeeps ==
  ASSUME CloneInv, NEW c \in Children, PollCheck(c)
  PROVE  CloneInv'
<1> USE DEF PollCheck, waitVars, childVars, pidVars
<1>1. CloneTypeOK'
  BY DEF CloneInv, CloneTypeOK
<1>2. dangling' = {} /\ scribbled' = {} /\ (killed => killed')
  BY DEF CloneInv, PollCheck, waitVars, childVars, pidVars
<1>3. ASSUME NEW u \in Children \ {c} PROVE SameFor(u)
  BY DEF CloneInv, CloneTypeOK, SameFor
<1>4. Of(c)'
  <2> USE DEF CloneInv, CloneTypeOK, Of
  <2>1. ChildInv(c)'
    BY DEF ChildInv, Alive, HasFlag
  <2>2. FrameInv(c)'
    BY DEF ChildInv, FrameInv, Alive, Calling, HasFlag
  <2>3. CountInv(c)'
    BY DEF ChildInv, FrameInv, CountInv, Alive, Calling, HasFlag, One
  <2>4. PollInv(c)'
    BY DEF ChildInv, PollInv, GroupExited, Alive
  <2> QED
    BY <2>1, <2>2, <2>3, <2>4
<1> QED
  BY <1>1, <1>2, <1>3, <1>4, StepKeeps

\* The file is closed and with it its reference.
LEMMA PidfdReleaseKeeps ==
  ASSUME CloneInv, NEW c \in Children, PidfdRelease(c)
  PROVE  CloneInv'
<1> USE DEF PidfdRelease, waitVars, childVars, pidVars
<1>1. CloneTypeOK'
  <2>1. pidRefs[c] - 1 \in 0 .. 3
    BY DEF CloneInv, CloneTypeOK, Of, CountInv, One
  <2> QED
    BY <2>1 DEF CloneInv, CloneTypeOK
<1>2. dangling' = {} /\ scribbled' = {} /\ (killed => killed')
  BY DEF CloneInv, PidfdRelease, waitVars, childVars, pidVars
<1>3. ASSUME NEW u \in Children \ {c} PROVE SameFor(u)
  BY DEF CloneInv, CloneTypeOK, SameFor
<1>4. Of(c)'
  <2> USE DEF CloneInv, CloneTypeOK, Of
  <2>1. ChildInv(c)'
    BY DEF ChildInv, Alive, HasFlag
  <2>2. FrameInv(c)'
    BY DEF ChildInv, FrameInv, Alive, Calling, HasFlag
  <2>3. CountInv(c)'
    BY DEF ChildInv, FrameInv, CountInv, Alive, Calling, HasFlag, One
  <2>4. PollInv(c)'
    BY DEF ChildInv, PollInv, GroupExited, Alive
  <2> QED
    BY <2>1, <2>2, <2>3, <2>4
<1> QED
  BY <1>1, <1>2, <1>3, <1>4, StepKeeps

\* copy_process succeeded: the first references, and the completion of a vfork.
LEMMA CloneKeeps ==
  ASSUME NullIsNoRequest, CloneInv, NEW c \in Children, NEW r \in Requests, Clone(c, r)
  PROVE  CloneInv'
<1> DEFINE a == Args(r)
<1> USE DEF Clone
<1>1. a # Null /\ a \in {Args(q) : q \in Requests}
  BY DEF NullIsNoRequest
<1> HIDE DEF a
<1>2. CloneTypeOK'
  BY <1>1 DEF CloneInv, CloneTypeOK, a
<1>3. dangling' = {} /\ scribbled' = {} /\ (killed => killed')
  BY DEF CloneInv
<1>4. ASSUME NEW u \in Children \ {c} PROVE SameFor(u)
  BY DEF CloneInv, CloneTypeOK, SameFor
<1>5. /\ at[c] = "none" /\ at'[c] = "wake" /\ child[c] = "none" /\ child'[c] = "new"
      /\ req'[c] = a /\ vforkDone'[c] = ("VFORK" \in a.flags)
      /\ frame'[c] = IF "VFORK" \in a.flags THEN "waiting" ELSE "none"
      /\ childUsage'[c] = IF "VFORK" \in a.flags THEN 2 ELSE 1
      /\ pidRefs'[c] = IF "PIDFD" \in a.flags THEN 3 ELSE 2
      /\ pidfd'[c] = IF "PIDFD" \in a.flags THEN "open" ELSE "closed"
      /\ c \in pidTask' /\ threads' = threads /\ queued' = queued /\ ready' = ready
  BY DEF CloneInv, CloneTypeOK, Of, ChildInv, a
<1>6. HasFlag(c, "VFORK")' <=> "VFORK" \in a.flags
  BY <1>1, <1>5 DEF HasFlag
<1>7. Of(c)'
  <2> USE DEF CloneInv, Of
  <2>1. ChildInv(c)'
    BY <1>1, <1>5 DEF ChildInv, Alive
  <2>2. FrameInv(c)'
    <3>1. vforkDone'[c] <=> "VFORK" \in a.flags
      BY <1>5
    <3> QED
      BY <1>5, <1>6, <3>1 DEF FrameInv, Calling
  <2>3. CountInv(c)'
    BY <1>5, <1>6 DEF CountInv, Alive, Calling, One
  <2>4. PollInv(c)'
    BY <1>5 DEF ChildInv, PollInv
  <2> QED
    BY <2>1, <2>2, <2>3, <2>4
<1> QED
  BY <1>2, <1>3, <1>4, <1>7, StepKeeps

\* Before the first call there is no child.
LEMMA InitCloneInv == CloneInit => CloneInv
<1> SUFFICES ASSUME CloneInit PROVE CloneInv
  OBVIOUS
<1> USE DEF CloneInit
<1>1. CloneTypeOK
  <2>1. /\ at \in [Children -> {"none", "wake", "wait", "unset", "put_task", "put", "returned"}]
        /\ req \in [Children -> {Args(r) : r \in Requests} \cup {Null}]
        /\ vforkDone \in [Children -> BOOLEAN]
        /\ frame \in [Children -> {"none", "waiting", "done"}]
        /\ killed \in BOOLEAN
    OBVIOUS
  <2>2. /\ child \in [Children -> {"none", "new", "run", "clear_tid", "complete", "left",
                                  "exiting", "zombie", "reaped"}]
        /\ leaving \in [Children -> {"exec", "exit"}]
        /\ threads \in [Children -> SUBSET Threads]
        /\ pidfd \in [Children -> {"closed", "open", "polling", "asleep"}]
    OBVIOUS
  <2>3. childUsage \in [Children -> 0 .. 2] /\ pidRefs \in [Children -> 0 .. 3]
    OBVIOUS
  <2>4. \A S \in {usesMm, scribbled, pidTask, queued, ready, dangling} : S \subseteq Children
    OBVIOUS
  <2> QED
    BY <2>1, <2>2, <2>3, <2>4 DEF CloneTypeOK
<1>2. ASSUME NEW c \in Children PROVE Of(c)
  <2>1. ~HasFlag(c, "VFORK") /\ ~Alive(c) /\ ~Calling(c)
    BY DEF HasFlag, Alive, Calling
  <2>2. ChildInv(c) /\ FrameInv(c) /\ PollInv(c)
    BY <2>1 DEF ChildInv, FrameInv, PollInv
  <2>3. CountInv(c)
    BY <2>1 DEF CountInv, One
  <2> QED
    BY <2>2, <2>3 DEF Of
<1> QED
  BY <1>1, <1>2 DEF CloneInv

\* CloneInv holds in every state, if Null is none of the requests.
THEOREM CloneInvariance ==
  CloneSpec => []CloneInv
<1>1. CloneInv /\ [CloneNext]_cloneVars => CloneInv'
  <2> SUFFICES ASSUME CloneInv, [CloneNext]_cloneVars PROVE CloneInv'
    OBVIOUS
  <2>1. CASE Kill
    <3>1. CloneTypeOK' /\ dangling' = {} /\ scribbled' = {} /\ (killed => killed')
      BY <2>1 DEF Kill, CloneInv, CloneTypeOK, childVars, pidVars
    <3>2. ASSUME NEW u \in Children PROVE SameFor(u)
      BY <2>1 DEF Kill, SameFor, childVars, pidVars
    <3> QED
      BY <3>1, <3>2, SameKept DEF CloneInv
  <2>2. CASE UNCHANGED cloneVars
    <3>1. CloneTypeOK' /\ dangling' = {} /\ scribbled' = {} /\ (killed => killed')
      BY <2>2 DEF cloneVars, CloneInv, CloneTypeOK, waitVars, childVars, pidVars
    <3>2. ASSUME NEW u \in Children PROVE SameFor(u)
      BY <2>2 DEF cloneVars, SameFor, waitVars, childVars, pidVars
    <3> QED
      BY <3>1, <3>2, SameKept DEF CloneInv
  <2>3. ASSUME NEW c \in Children, NEW r \in Requests, Refuse(c, r) \/ Clone(c, r) PROVE CloneInv'
    BY <2>3, NullHolds, RefuseKeeps, CloneKeeps
  <2>4. ASSUME NEW c \in Children,
               \/ Wake(c) \/ WaitDone(c) \/ WaitKilled(c) \/ UnsetVfork(c)
               \/ PutTaskStruct(c) \/ CloneReturns(c)
        PROVE  CloneInv'
    BY <2>4, WakeKeeps, WaitDoneKeeps, WaitKilledKeeps, UnsetVforkKeeps,
       PutTaskStructKeeps, CloneReturnsKeeps
  <2>5. ASSUME NEW c \in Children,
               \/ \E how \in {"exec", "exit"} : MmRelease(c, how)
               \/ \E coredump \in BOOLEAN : ClearTid(c, coredump)
               \/ CompleteVfork(c) \/ LeaveMm(c) \/ ExitLeader(c) \/ ReapChild(c)
        PROVE  CloneInv'
    BY <2>5, MmReleaseKeeps, ClearTidKeeps, CompleteVforkKeeps, LeaveMmKeeps,
       ExitLeaderKeeps, ReapKeeps
  <2>6. ASSUME NEW c \in Children,
               \/ \E h \in Threads : StartThread(c, h) \/ ExitThread(c, h)
               \/ Poll(c) \/ PollCheck(c) \/ PidfdRelease(c)
        PROVE  CloneInv'
    BY <2>6, StartThreadKeeps, ExitThreadKeeps, PollKeeps, PollCheckKeeps, PidfdReleaseKeeps
  <2> QED
    BY <2>1, <2>2, <2>3, <2>4, <2>5, <2>6 DEF CloneNext
<1> QED
  BY InitCloneInv, <1>1, PTL DEF CloneSpec

\* Type correctness of the calls, the children and the pids; the counters stay
\* in their small ranges.
THEOREM CloneTypesAreKept ==
  CloneSpec => []CloneTypeOK
<1>1. CloneInv => CloneTypeOK
  BY DEF CloneInv
<1> QED
  BY CloneInvariance, <1>1, PTL

\* VforkSafe: no completion is touched after its stack frame is gone, and a
\* parent that was not killed never runs beside its child in one memory, for
\* any interleaving of wait_for_vfork_done, mm_release and fatal signals.
THEOREM VforkIsSafe ==
  CloneSpec => []VforkSafe
<1>1. CloneInv => VforkSafe
  <2> SUFFICES ASSUME CloneInv PROVE VforkSafe
    OBVIOUS
  <2>1. ASSUME NEW c \in Children
        PROVE  /\ vforkDone[c] => at[c] \in {"wake", "wait", "unset"} /\ frame[c] = "waiting"
               /\ at[c] \in {"wait", "unset", "put_task"} => childUsage[c] >= 1
               /\ ~killed /\ at[c] = "returned" /\ HasFlag(c, "VFORK") /\ c \in usesMm
                    => child[c] = "left"
    <3>1. vforkDone[c] => at[c] \in {"wake", "wait", "unset"} /\ frame[c] = "waiting"
      BY DEF CloneInv, Of, FrameInv
    <3>2. at[c] \in {"wait", "unset", "put_task"} => childUsage[c] >= 1
      BY DEF CloneInv, Of, FrameInv, CountInv, One
    <3>3. ~killed /\ at[c] = "returned" /\ HasFlag(c, "VFORK") /\ c \in usesMm
            => child[c] = "left"
      BY DEF CloneInv, CloneTypeOK, Of, FrameInv, Calling
    <3> QED
      BY <3>1, <3>2, <3>3
  <2> QED
    BY <2>1 DEF CloneInv, VforkSafe
<1> QED
  BY CloneInvariance, <1>1, PTL

\* PidfdFaithful: a poller never sleeps past the exit of the whole group and is
\* told of no other; the struct pid is counted exactly.
THEOREM PidfdIsFaithful ==
  CloneSpec => []PidfdFaithful
<1>1. CloneInv => PidfdFaithful
  <2> SUFFICES ASSUME CloneInv, NEW c \in Children
      PROVE  /\ pidfd[c] = "asleep" => c \in queued /\ ~GroupExited(c)
             /\ c \in ready \/ (at[c] # "none" /\ req[c] # Null /\ FdInfo(c) = -1) => GroupExited(c)
             /\ pidRefs[c] = Cardinality({x \in {"task", "clone", "file"} :
                               \/ x = "task" /\ c \in pidTask
                               \/ x = "clone" /\ at[c] \notin {"none", "returned"}
                               \/ x = "file" /\ pidfd[c] # "closed"})
    BY DEF PidfdFaithful
  <2>1. pidfd[c] = "asleep" => c \in queued /\ ~GroupExited(c)
    BY DEF CloneInv, Of, PollInv
  <2>2. c \in ready \/ (at[c] # "none" /\ req[c] # Null /\ FdInfo(c) = -1) => GroupExited(c)
    BY DEF CloneInv, Of, PollInv, FdInfo, GroupExited
  <2>3. pidRefs[c] = One(c \in pidTask) + One(at[c] \notin {"none", "returned"})
                     + One(pidfd[c] # "closed")
    BY DEF CloneInv, CloneTypeOK, Of, CountInv, Calling, One
  <2>4. Cardinality({x \in {"task", "clone", "file"} :
                       \/ x = "task" /\ c \in pidTask
                       \/ x = "clone" /\ at[c] \notin {"none", "returned"}
                       \/ x = "file" /\ pidfd[c] # "closed"})
          = One(c \in pidTask) + One(at[c] \notin {"none", "returned"}) + One(pidfd[c] # "closed")
    <3>1. /\ (c \in pidTask) \in BOOLEAN
          /\ (at[c] \notin {"none", "returned"}) \in BOOLEAN
          /\ (pidfd[c] # "closed") \in BOOLEAN
      OBVIOUS
    <3> QED
      BY <3>1, CountHolders, Zenon
  <2> QED
    BY <2>1, <2>2, <2>3, <2>4
<1> QED
  BY CloneInvariance, <1>1, PTL

-----------------------------------------------------------------------------
(***************************************************************************)
(* copy_process gives back what it took, for any flags and signals.  The   *)
(* argument is one number, the depth of the call: the position among the   *)
(* bad_fork labels from which the falling through would start if the call  *)
(* failed now.  A stage that succeeds lowers it, a label raises it, and    *)
(* what is held, and counted, is what the labels from there on release.    *)
(***************************************************************************)

\* The stages of copy_process and its labels, by name.
StageNames ==
  {"creds", "limits", "mempolicy", "sched", "perf", "audit", "security", "semundo", "files",
   "fs", "sighand", "signal", "mm", "namespaces", "io", "thread", "pid", "pidfd", "put_pidfd",
   "kv", "cgroup", "publish"}
LabelNames ==
  {"cgroup", "pidfd", "pid", "thread", "io", "namespaces", "mm", "signal", "sighand", "fs",
   "files", "semundo", "security", "audit", "perf", "policy", "delayacct", "count", "free",
   "fork_out"}

\* The position of a label, and of a stage.
Rank ==
  [cgroup |-> 1, pidfd |-> 2, pid |-> 3, thread |-> 4, io |-> 5, namespaces |-> 6, mm |-> 7,
   signal |-> 8, sighand |-> 9, fs |-> 10, files |-> 11, semundo |-> 12, security |-> 13,
   audit |-> 14, perf |-> 15, policy |-> 16, delayacct |-> 17, count |-> 18, free |-> 19,
   fork_out |-> 20]
Order ==
  [creds |-> 1, limits |-> 2, mempolicy |-> 3, sched |-> 4, perf |-> 5, audit |-> 6,
   security |-> 7, semundo |-> 8, files |-> 9, fs |-> 10, sighand |-> 11, signal |-> 12,
   mm |-> 13, namespaces |-> 14, io |-> 15, thread |-> 16, pid |-> 17, pidfd |-> 18,
   put_pidfd |-> 19, kv |-> 20, cgroup |-> 21, publish |-> 22]

\* The depth of a stage is that of the label it fails to; the key-value store
\* cannot fail, and nothing is held before dup_task_struct.
StageDepth(s) ==
  CASE s = "sigpending" -> 20
    [] s = "kv" -> 2
    [] OTHER -> Rank[FailsTo[s]]

\* How deep the call is: from where on the labels would run if it failed now.
Depth ==
  CASE pc[1] = "stage" -> StageDepth(pc[2])
    [] pc[1] = "label" -> Rank[pc[2]]
    [] OTHER -> IF pc[2] = "child" THEN 1 ELSE 20

\* What is held is released by a label that is still to come.
OwnInv ==
  \A x \in own :
    \/ x = "kv"
    \/ x = "task" /\ Depth <= 19
    \/ x \in LabelNames \ {"free", "fork_out"} /\ Depth <= Rank[x]

\* The child's own objects are reached through its pointers, and the pointer
\* to the signal struct follows the flag.
PtrInv ==
  /\ \A o \in Shared \cap own : ptr[o] = "child"
  /\ Depth <= 8 => (ptr["signal"] = "parent" <=> "THREAD" \in flags)
  /\ "signal" \in own => "THREAD" \notin flags

\* The references to the objects of the parent.
CopyCountInv ==
  \A o \in Shared :
    refs[o] = IF /\ ptr[o] = "parent"
                 /\ IF o = "signal" THEN Out("child") ELSE Depth <= Rank[o]
              THEN 2 ELSE 1

\* The locks are held at the publication only, and by the label that drops them.
LockInv ==
  Stage("publish") \/ Label("cgroup") \/ locks = {}

\* A process that is being created is told of every signal.
SignalInv ==
  /\ Out("none") => sent = {} /\ delayed = {}
  /\ pc[1] = "stage" /\ "THREAD" \notin flags => node /\ delayed = sent
  /\ Out("child") /\ "THREAD" \notin flags => childPending = sent
  /\ Out("error") => ~node

\* The inductive invariant.
CopyInv == CopyTypeOK /\ OwnInv /\ PtrInv /\ CopyCountInv /\ LockInv /\ SignalInv

-----------------------------------------------------------------------------
\* A table that numbers a sequence finds the follower of an element.
LEMMA FollowingAt ==
  ASSUME NEW seq, NEW n \in Nat, Len(seq) = n, NEW Pos,
         \A j \in 1 .. n : Pos[seq[j]] = j,
         NEW i \in 1 .. n, i + 1 <= n
  PROVE  Following(seq, seq[i]) = seq[i + 1]
<1> DEFINE P(j) == seq[j - 1] = seq[i]
<1>1. i + 1 \in 2 .. Len(seq) /\ P(i + 1)
  OBVIOUS
<1>2. \A j \in 2 .. Len(seq) : P(j) => j = i + 1
  <2> SUFFICES ASSUME NEW j \in 2 .. Len(seq), P(j) PROVE j = i + 1
    OBVIOUS
  <2>1. j - 1 \in 1 .. n
    OBVIOUS
  <2>2. Pos[seq[j - 1]] = j - 1 /\ Pos[seq[i]] = i
    BY <2>1
  <2> QED
    BY <2>2
<1>3. (CHOOSE j \in 2 .. Len(seq) : P(j)) = i + 1
  BY <1>1, <1>2
<1> QED
  BY <1>3 DEF Following

\* Order numbers the stages.
LEMMA StageNumbers == Len(Stages) = 22 /\ \A j \in 1 .. 22 : Order[Stages[j]] = j
  BY DEF Stages, Order

\* Rank numbers the labels.
LEMMA LabelNumbers == Len(Labels) = 20 /\ \A j \in 1 .. 20 : Rank[Labels[j]] = j
  BY DEF Labels, Rank

\* The stages and the labels, as sets.
LEMMA Names == Range(Stages) = StageNames /\ Range(Labels) = LabelNames
<1>1. Range(Stages) = StageNames
  BY DEF Range, Stages, StageNames
<1>2. Range(Labels) = LabelNames
  BY DEF Range, Labels, LabelNames
<1> QED
  BY <1>1, <1>2

\* The next stage.
LEMMA NextStage ==
  /\ Following(Stages, "creds") = "limits" /\ Following(Stages, "limits") = "mempolicy"
  /\ Following(Stages, "mempolicy") = "sched" /\ Following(Stages, "sched") = "perf"
  /\ Following(Stages, "perf") = "audit" /\ Following(Stages, "audit") = "security"
  /\ Following(Stages, "security") = "semundo" /\ Following(Stages, "semundo") = "files"
  /\ Following(Stages, "files") = "fs" /\ Following(Stages, "fs") = "sighand"
  /\ Following(Stages, "sighand") = "signal" /\ Following(Stages, "signal") = "mm"
  /\ Following(Stages, "mm") = "namespaces" /\ Following(Stages, "namespaces") = "io"
  /\ Following(Stages, "io") = "thread" /\ Following(Stages, "thread") = "pid"
  /\ Following(Stages, "pid") = "pidfd" /\ Following(Stages, "pidfd") = "put_pidfd"
  /\ Following(Stages, "put_pidfd") = "kv" /\ Following(Stages, "kv") = "cgroup"
  /\ Following(Stages, "cgroup") = "publish"
<1>1. ASSUME NEW i \in 1 .. 21 PROVE Following(Stages, Stages[i]) = Stages[i + 1]
  <2>1. 22 \in Nat /\ i \in 1 .. 22 /\ i + 1 <= 22
    OBVIOUS
  <2> QED
    BY <2>1, StageNumbers, FollowingAt, Zenon
<1> QED
  BY <1>1 DEF Stages

\* The label one falls to.
LEMMA NextLabel ==
  /\ Following(Labels, "cgroup") = "pidfd" /\ Following(Labels, "pidfd") = "pid"
  /\ Following(Labels, "pid") = "thread" /\ Following(Labels, "thread") = "io"
  /\ Following(Labels, "io") = "namespaces" /\ Following(Labels, "namespaces") = "mm"
  /\ Following(Labels, "mm") = "signal" /\ Following(Labels, "signal") = "sighand"
  /\ Following(Labels, "sighand") = "fs" /\ Following(Labels, "fs") = "files"
  /\ Following(Labels, "files") = "semundo" /\ Following(Labels, "semundo") = "security"
  /\ Following(Labels, "security") = "audit" /\ Following(Labels, "audit") = "perf"
  /\ Following(Labels, "perf") = "policy" /\ Following(Labels, "policy") = "delayacct"
  /\ Following(Labels, "delayacct") = "count" /\ Following(Labels, "count") = "free"
  /\ Following(Labels, "free") = "fork_out"
<1>1. ASSUME NEW i \in 1 .. 19 PROVE Following(Labels, Labels[i]) = Labels[i + 1]
  <2>1. 20 \in Nat /\ i \in 1 .. 20 /\ i + 1 <= 20
    OBVIOUS
  <2> QED
    BY <2>1, LabelNumbers, FollowingAt, Zenon
<1> QED
  BY <1>1 DEF Labels

\* The depth of each stage.
LEMMA StageDepths ==
  /\ StageDepth("creds") = 19 /\ StageDepth("limits") = 18 /\ StageDepth("mempolicy") = 17
  /\ StageDepth("sched") = 16 /\ StageDepth("perf") = 16 /\ StageDepth("audit") = 15
  /\ StageDepth("security") = 14 /\ StageDepth("semundo") = 13 /\ StageDepth("files") = 12
  /\ StageDepth("fs") = 11 /\ StageDepth("sighand") = 10 /\ StageDepth("signal") = 9
  /\ StageDepth("mm") = 8 /\ StageDepth("namespaces") = 7 /\ StageDepth("io") = 6
  /\ StageDepth("thread") = 5 /\ StageDepth("pid") = 4 /\ StageDepth("pidfd") = 3
  /\ StageDepth("put_pidfd") = 2 /\ StageDepth("kv") = 2 /\ StageDepth("cgroup") = 2
  /\ StageDepth("publish") = 1
  /\ StageDepth("sigpending") = 20
  BY DEF StageDepth, Rank, FailsTo, Gotos

\* A label raises the depth by one.
LEMMA LabelStep ==
  ASSUME NEW l \in LabelNames \ {"fork_out"}
  PROVE  Following(Labels, l) \in LabelNames /\ Rank[Following(Labels, l)] = Rank[l] + 1
  BY NextLabel DEF LabelNames, Rank

\* Depths are positions of labels.
LEMMA DepthRange ==
  /\ \A l \in LabelNames : Rank[l] \in 1 .. 20
  /\ \A s \in StageNames \cup {"sigpending"} : StageDepth(s) \in 1 .. 20
<1>1. \A l \in LabelNames : Rank[l] \in 1 .. 20
  BY DEF LabelNames, Rank
<1>2. \A s \in StageNames \cup {"sigpending"} : StageDepth(s) \in 1 .. 20
  BY StageDepths DEF StageNames
<1> QED
  BY <1>1, <1>2

\* A stage that shares nothing and succeeds: what it gains is released by a
\* label that is now to come, and no shared object is passed.
LEMMA TakeStep ==
  ASSUME NEW s \in DOMAIN Gains
  PROVE  LET t == Following(Stages, s)
         IN  /\ s \in StageNames \ {"publish"} /\ t \in StageNames
             /\ StageDepth(t) <= StageDepth(s)
             /\ \A x \in Gains[s] : /\ x \in LabelNames \ {"free", "fork_out"}
                                    /\ x \notin Shared /\ StageDepth(t) <= Rank[x]
             /\ \A o \in Shared : StageDepth(t) <= Rank[o] <=> StageDepth(s) <= Rank[o]
             /\ t = "publish" <=> s = "cgroup"
<1>1. s \in {"creds", "limits", "mempolicy", "sched", "perf", "audit", "security", "semundo",
             "namespaces", "thread", "pid", "cgroup"}
  BY DEF Gains
<1> QED
  BY <1>1, NextStage, StageDepths DEF StageNames, LabelNames, Gains, Rank, Shared

\* A stage that shares or copies an object passes just that one.
LEMMA ShareStep ==
  ASSUME NEW o \in Shared
  PROVE  LET t == Following(Stages, o)
         IN  /\ o \in StageNames \ {"publish", "cgroup"} /\ t \in StageNames \ {"publish"}
             /\ o \in LabelNames \ {"free", "fork_out"}
             /\ StageDepth(t) = Rank[o] /\ StageDepth(o) = Rank[o] + 1
             /\ \A u \in Shared : Rank[u] = Rank[o] => u = o
  BY NextStage, StageDepths DEF StageNames, LabelNames, Rank, Shared

\* The depth in a state and in the next one.
LEMMA DepthAt ==
  /\ \A s : Stage(s) => Depth = StageDepth(s)
  /\ \A s : pc' = <<"stage", s>> => Depth' = StageDepth(s)
  /\ \A l : Label(l) => Depth = Rank[l]
  /\ \A l : pc' = <<"label", l>> => Depth' = Rank[l]
  BY DEF Stage, Label, Depth, StageDepth

-----------------------------------------------------------------------------
(* The actions. *)
\* A stage that shares nothing succeeds.
LEMMA TakeKeeps ==
  ASSUME CopyInv, NEW s \in DOMAIN Gains, Take(s)
  PROVE  CopyInv'
<1> DEFINE t == Following(Stages, s)
<1>1. /\ s \in StageNames \ {"publish"} /\ t \in StageNames
      /\ StageDepth(t) <= StageDepth(s)
      /\ \A x \in Gains[s] : /\ x \in LabelNames \ {"free", "fork_out"}
                             /\ x \notin Shared /\ StageDepth(t) <= Rank[x]
      /\ \A o \in Shared : StageDepth(t) <= Rank[o] <=> StageDepth(s) <= Rank[o]
      /\ t = "publish" <=> s = "cgroup"
  BY TakeStep
<1> HIDE DEF t
<1>2. /\ pc = <<"stage", s>> /\ pc' = <<"stage", t>>
      /\ Depth = StageDepth(s) /\ Depth' = StageDepth(t) /\ Depth' <= Depth
      /\ Depth \in 1 .. 20 /\ Depth' \in 1 .. 20
  BY <1>1, DepthAt, DepthRange DEF Take, Advance, Stage, t
<1>3. /\ own' = own \cup Gains[s] /\ flags' = flags /\ kthread' = kthread /\ refs' = refs
      /\ node' = node /\ delayed' = delayed /\ pending' = pending /\ sent' = sent
      /\ childPending' = childPending
  BY DEF Take, sigVars
<1>4. /\ Rank["signal"] = 8 /\ Rank["io"] = 5 /\ "signal" \in Shared /\ "io" \in Shared
      /\ Shared \subseteq LabelNames \ {"free", "fork_out"}
      /\ \A l \in LabelNames : Rank[l] \in 1 .. 20
  BY DepthRange DEF Rank, Shared, LabelNames
<1>5. s = "limits" => Depth = 18
  BY <1>2, StageDepths
<1>6. ptr' = IF s = "limits" THEN [ptr EXCEPT !["io"] = "null"] ELSE ptr
  BY DEF Take
<1>7. CopyTypeOK'
  <2>1. pc' \in {"stage"} \X (Range(Stages) \cup {"sigpending"})
    BY <1>1, <1>2, Names
  <2>2. ptr' \in [Shared -> {"null", "parent", "child"}]
    BY <1>6 DEF CopyInv, CopyTypeOK
  <2>3. own' \subseteq Shared \cup Range(Labels) \cup {"task", "kv"}
    BY <1>1, <1>3, Names DEF CopyInv, CopyTypeOK
  <2>4. locks' \subseteq {"tasklist", "siglock"}
    BY DEF CopyInv, CopyTypeOK, Take
  <2> QED
    BY <1>3, <2>1, <2>2, <2>3, <2>4 DEF CopyInv, CopyTypeOK
<1>8. OwnInv'
  BY <1>1, <1>2, <1>3, <1>4 DEF CopyInv, OwnInv
<1>9. PtrInv'
  <2>1. s = "limits" => "io" \notin own
    BY <1>2, <1>4, <1>5 DEF CopyInv, OwnInv
  <2>2. \A o \in Shared \cap own' : ptr'[o] = "child"
    BY <1>1, <1>3, <1>6, <2>1 DEF CopyInv, PtrInv, CopyTypeOK
  <2>3. ptr'["signal"] = ptr["signal"]
    BY <1>4, <1>6 DEF CopyInv, CopyTypeOK
  <2>4. (Depth <= 8)' => Depth <= 8
    BY <1>1, <1>2, <1>4
  <2> QED
    BY <1>1, <1>3, <1>4, <2>2, <2>3, <2>4 DEF CopyInv, PtrInv
<1>10. CopyCountInv'
  <2> SUFFICES ASSUME NEW o \in Shared
      PROVE  refs'[o] = IF /\ ptr'[o] = "parent"
                           /\ IF o = "signal" THEN Out("child")' ELSE (Depth <= Rank[o])'
                        THEN 2 ELSE 1
    BY DEF CopyCountInv
  <2>1. ~Out("child") /\ ~Out("child")'
    BY <1>2 DEF Out
  <2>2. Depth' <= Rank[o] <=> Depth <= Rank[o]
    BY <1>1, <1>2
  <2>3. refs[o] = IF ptr[o] = "parent" /\ o # "signal" /\ Depth <= Rank[o] THEN 2 ELSE 1
    BY <2>1 DEF CopyInv, CopyCountInv
  <2>4. o = "io" /\ s = "limits" => ~(Depth <= Rank[o])
    BY <1>4, <1>5
  <2>5. ptr'[o] = ptr[o] \/ (o = "io" /\ s = "limits")
    BY <1>6 DEF CopyInv, CopyTypeOK
  <2> QED
    BY <1>3, <2>1, <2>2, <2>3, <2>4, <2>5
<1>11. LockInv'
  BY <1>1, <1>2 DEF CopyInv, LockInv, Take, Stage, Label
<1>12. SignalInv'
  BY <1>2, <1>3 DEF CopyInv, SignalInv, Out
<1> QED
  BY <1>7, <1>8, <1>9, <1>10, <1>11, <1>12 DEF CopyInv

\* copy_files and its like succeed.
LEMMA ShareKeeps ==
  ASSUME CopyInv, NEW o \in Shared, Share(o) \/ Copy(o) \/ Nothing(o)
  PROVE  CopyInv'
<1> DEFINE t == Following(Stages, o)
<1>1. /\ o \in StageNames \ {"publish", "cgroup"} /\ t \in StageNames \ {"publish"}
      /\ o \in LabelNames \ {"free", "fork_out"}
      /\ StageDepth(t) = Rank[o] /\ StageDepth(o) = Rank[o] + 1
      /\ \A u \in Shared : Rank[u] = Rank[o] => u = o
  BY ShareStep
<1> HIDE DEF t
<1>2. /\ pc = <<"stage", o>> /\ pc' = <<"stage", t>>
      /\ Depth = Rank[o] + 1 /\ Depth' = Rank[o]
  BY <1>1, DepthAt DEF Share, Copy, Nothing, Advance, Stage, t
<1>3. /\ flags' = flags /\ kthread' = kthread /\ locks' = locks
      /\ node' = node /\ delayed' = delayed /\ pending' = pending /\ sent' = sent
      /\ childPending' = childPending
  BY DEF Share, Copy, Nothing, sigVars
<1>4. /\ Rank["signal"] = 8 /\ "signal" \in Shared
      /\ Shared \subseteq LabelNames \ {"free", "fork_out"}
      /\ "kv" \notin Shared /\ "task" \notin Shared
      /\ \A l \in LabelNames : Rank[l] \in 1 .. 20
  BY DepthRange DEF Rank, Shared, LabelNames
<1>5. o \notin own
  BY <1>2, <1>4 DEF CopyInv, OwnInv
<1>6. /\ ptr \in [Shared -> {"null", "parent", "child"}] /\ refs \in [Shared -> Nat]
      /\ own \subseteq Shared \cup Range(Labels) \cup {"task", "kv"}
  BY DEF CopyInv, CopyTypeOK
<1>7. \E v \in {"null", "parent", "child"} :
        /\ ptr' = [ptr EXCEPT ![o] = v]
        /\ refs' = IF v = "parent" /\ o # "signal" THEN [refs EXCEPT ![o] = @ + 1] ELSE refs
        /\ own' = IF v = "child" THEN own \cup {o} ELSE own
        /\ o = "signal" => v = IF "THREAD" \in flags THEN "parent" ELSE "child"
  BY DEF Share, Copy, Nothing, ShareFlag
<1>8. PICK v \in {"null", "parent", "child"} :
        /\ ptr' = [ptr EXCEPT ![o] = v]
        /\ refs' = IF v = "parent" /\ o # "signal" THEN [refs EXCEPT ![o] = @ + 1] ELSE refs
        /\ own' = IF v = "child" THEN own \cup {o} ELSE own
        /\ o = "signal" => v = IF "THREAD" \in flags THEN "parent" ELSE "child"
  BY <1>7
<1>9. CopyTypeOK'
  <2>1. pc' \in {"stage"} \X (Range(Stages) \cup {"sigpending"})
    BY <1>1, <1>2, Names
  <2>2. ptr' \in [Shared -> {"null", "parent", "child"}] /\ refs' \in [Shared -> Nat]
    BY <1>6, <1>8
  <2>3. own' \subseteq Shared \cup Range(Labels) \cup {"task", "kv"}
    BY <1>6, <1>8
  <2> QED
    BY <1>3, <2>1, <2>2, <2>3 DEF CopyInv, CopyTypeOK
<1>10. OwnInv'
  BY <1>1, <1>2, <1>4, <1>8 DEF CopyInv, OwnInv
<1>11. PtrInv'
  <2>1. \A u \in Shared \cap own' : ptr'[u] = "child"
    BY <1>5, <1>6, <1>8 DEF CopyInv, PtrInv
  <2>2. CASE o = "signal"
    BY <1>3, <1>5, <1>6, <1>8, <2>1, <2>2 DEF PtrInv
  <2>3. CASE o # "signal"
    <3>1. ptr'["signal"] = ptr["signal"] /\ ("signal" \in own' <=> "signal" \in own)
      BY <1>4, <1>6, <1>8, <2>3
    <3>2. (Depth <= 8)' => Depth <= 8
      BY <1>1, <1>2, <1>4, <2>3
    <3> QED
      BY <1>3, <2>1, <3>1, <3>2 DEF CopyInv, PtrInv
  <2> QED
    BY <2>2, <2>3
<1>12. CopyCountInv'
  <2> SUFFICES ASSUME NEW u \in Shared
      PROVE  refs'[u] = IF /\ ptr'[u] = "parent"
                           /\ IF u = "signal" THEN Out("child")' ELSE (Depth <= Rank[u])'
                        THEN 2 ELSE 1
    BY DEF CopyCountInv
  <2>1. ~Out("child") /\ ~Out("child")'
    BY <1>2 DEF Out
  <2>2. refs[u] = IF ptr[u] = "parent" /\ u # "signal" /\ Depth <= Rank[u] THEN 2 ELSE 1
    BY <2>1 DEF CopyInv, CopyCountInv
  <2>3. CASE u = o
    <3>1. refs[o] = 1
      BY <1>1, <1>2, <1>4, <2>2, <2>3
    <3>2. Depth' <= Rank[o]
      BY <1>1, <1>2, <1>4
    <3>3. ptr'[o] = v /\ refs'[o] = IF v = "parent" /\ o # "signal" THEN 2 ELSE 1
      BY <1>6, <1>8, <3>1
    <3> QED
      BY <2>1, <2>3, <3>2, <3>3
  <2>4. CASE u # o
    <3>1. ptr'[u] = ptr[u] /\ refs'[u] = refs[u]
      BY <1>6, <1>8, <2>4
    <3>2. Depth' <= Rank[u] <=> Depth <= Rank[u]
      BY <1>1, <1>2, <1>4, <2>4
    <3> QED
      BY <2>1, <2>2, <3>1, <3>2
  <2> QED
    BY <2>3, <2>4
<1>13. LockInv'
  BY <1>1, <1>2, <1>3 DEF CopyInv, LockInv, Stage, Label
<1>14. SignalInv'
  BY <1>2, <1>3 DEF CopyInv, SignalInv, Out
<1> QED
  BY <1>9, <1>10, <1>11, <1>12, <1>13, <1>14 DEF CopyInv

\* The pidfd and the key-value store succeed.
LEMMA PidfdKvKeeps ==
  ASSUME CopyInv, Pidfd \/ PutPidfd \/ Kv
  PROVE  CopyInv'
<1>1. \E s \in {"pidfd", "put_pidfd", "kv"} : pc = <<"stage", s>> /\ Advance(s)
  BY DEF Pidfd, PutPidfd, Kv, Stage
<1>2. PICK s \in {"pidfd", "put_pidfd", "kv"} : pc = <<"stage", s>> /\ Advance(s)
  BY <1>1
<1> DEFINE t == Following(Stages, s)
<1>3. t \in StageNames \ {"publish"} /\ pc' = <<"stage", t>>
  BY <1>2, NextStage DEF Advance, StageNames
<1>4. Depth \in 2 .. 3 /\ Depth' = 2
  BY <1>2, <1>3, DepthAt, StageDepths, NextStage DEF Stage
<1> HIDE DEF t
<1>5. /\ own \subseteq own' /\ own' \subseteq own \cup {"pidfd", "kv"}
  BY DEF Pidfd, PutPidfd, Kv, resVars
<1>6. /\ ptr' = ptr /\ refs' = refs /\ flags' = flags /\ kthread' = kthread /\ locks' = locks
      /\ node' = node /\ delayed' = delayed /\ pending' = pending /\ sent' = sent
      /\ childPending' = childPending
  BY DEF Pidfd, PutPidfd, Kv, sigVars, resVars
<1>7. /\ \A o \in Shared : Rank[o] \in 5 .. 11
      /\ "pidfd" \in LabelNames \ {"free", "fork_out"} /\ Rank["pidfd"] = 2
      /\ "pidfd" \notin Shared /\ "kv" \notin Shared /\ "signal" \in Shared
      /\ \A l \in LabelNames : Rank[l] \in 1 .. 20
  BY DepthRange DEF Rank, Shared, LabelNames
<1>8. CopyTypeOK'
  <2>1. pc' \in {"stage"} \X (Range(Stages) \cup {"sigpending"})
    BY <1>3, Names
  <2>2. own' \subseteq Shared \cup Range(Labels) \cup {"task", "kv"}
    BY <1>5, <1>7, Names DEF CopyInv, CopyTypeOK
  <2> QED
    BY <1>6, <2>1, <2>2 DEF CopyInv, CopyTypeOK
<1>9. OwnInv'
  BY <1>4, <1>5, <1>7 DEF CopyInv, OwnInv
<1>10. PtrInv'
  BY <1>4, <1>5, <1>6, <1>7 DEF CopyInv, PtrInv
<1>11. CopyCountInv'
  <2>1. ~Out("child") /\ ~Out("child")'
    BY <1>2, <1>3 DEF Out
  <2> QED
    BY <1>4, <1>6, <1>7, <2>1 DEF CopyInv, CopyCountInv
<1>12. LockInv'
  BY <1>2, <1>3, <1>6 DEF CopyInv, LockInv, Stage, Label
<1>13. SignalInv'
  BY <1>2, <1>3, <1>6 DEF CopyInv, SignalInv, Out
<1> QED
  BY <1>8, <1>9, <1>10, <1>11, <1>12, <1>13 DEF CopyInv

\* A stage fails: the labels from here on release what there is.
LEMMA FailKeeps ==
  ASSUME CopyInv, NEW s \in DOMAIN FailsTo, StageFails(s) \/ (s = "publish" /\ LastFailure)
  PROVE  CopyInv'
<1> DEFINE l == FailsTo[s]
<1>1. /\ s \in StageNames \ {"kv"} /\ l \in LabelNames /\ StageDepth(s) = Rank[l]
      /\ s = "publish" <=> l = "cgroup"
      /\ s \in Shared => Rank[l] = Rank[s] + 1
  BY DEF FailsTo, Gotos, StageNames, LabelNames, StageDepth, Shared, Rank
<1> HIDE DEF l
<1>2. pc = <<"stage", s>> /\ pc' = <<"label", l>> /\ Depth = Rank[l] /\ Depth' = Rank[l]
  BY <1>1, DepthAt DEF StageFails, LastFailure, Jump, Stage, l
<1>3. /\ refs' = refs /\ own' = own /\ flags' = flags /\ kthread' = kthread /\ locks' = locks
      /\ node' = node /\ delayed' = delayed /\ pending' = pending /\ sent' = sent
      /\ childPending' = childPending
  BY DEF StageFails, LastFailure, sigVars, resVars
<1>4. \/ ptr' = ptr
      \/ s \in Shared /\ ptr' = [ptr EXCEPT ![s] = "null"]
  BY DEF StageFails, LastFailure, resVars, Shared
<1>5. /\ ptr \in [Shared -> {"null", "parent", "child"}]
      /\ "signal" \in Shared /\ Rank["signal"] = 8
      /\ Shared \subseteq LabelNames /\ "kv" \notin Shared /\ "task" \notin Shared
      /\ \A k \in LabelNames : Rank[k] \in 1 .. 20
  BY DepthRange DEF CopyInv, CopyTypeOK, Shared, Rank, LabelNames
<1>6. s \in Shared => s \notin own
  BY <1>1, <1>2, <1>5 DEF CopyInv, OwnInv
<1>7. CopyTypeOK'
  <2>1. pc' \in {"label"} \X Range(Labels)
    BY <1>1, <1>2, Names
  <2>2. ptr' \in [Shared -> {"null", "parent", "child"}]
    BY <1>4, <1>5
  <2> QED
    BY <1>3, <2>1, <2>2 DEF CopyInv, CopyTypeOK
<1>8. OwnInv'
  BY <1>2, <1>3 DEF CopyInv, OwnInv
<1>9. PtrInv'
  <2>1. \A o \in Shared \cap own' : ptr'[o] = "child"
    BY <1>3, <1>4, <1>5, <1>6 DEF CopyInv, PtrInv
  <2>2. (Depth <= 8)' => Depth <= 8 /\ s # "signal"
    BY <1>1, <1>2, <1>5
  <2>3. s # "signal" => ptr'["signal"] = ptr["signal"]
    BY <1>4, <1>5
  <2> QED
    BY <1>3, <2>1, <2>2, <2>3 DEF CopyInv, PtrInv
<1>10. CopyCountInv'
  <2> SUFFICES ASSUME NEW o \in Shared
      PROVE  refs'[o] = IF /\ ptr'[o] = "parent"
                           /\ IF o = "signal" THEN Out("child")' ELSE (Depth <= Rank[o])'
                        THEN 2 ELSE 1
    BY DEF CopyCountInv
  <2>1. ~Out("child") /\ ~Out("child")'
    BY <1>2 DEF Out
  <2>2. refs[o] = IF ptr[o] = "parent" /\ o # "signal" /\ Depth <= Rank[o] THEN 2 ELSE 1
    BY <2>1 DEF CopyInv, CopyCountInv
  <2>3. ptr'[o] = ptr[o] \/ (o = s /\ ptr'[o] = "null")
    BY <1>4, <1>5
  <2>4. o = s => ~(Depth <= Rank[o])
    BY <1>1, <1>2, <1>5
  <2> QED
    BY <1>2, <1>3, <2>1, <2>2, <2>3, <2>4
<1>11. LockInv'
  BY <1>1, <1>2, <1>3 DEF CopyInv, LockInv, Stage, Label
<1>12. SignalInv'
  BY <1>2 DEF SignalInv, Out
<1> QED
  BY <1>7, <1>8, <1>9, <1>10, <1>11, <1>12 DEF CopyInv

\* A label releases the child's object through its pointer.
LEMMA UnwindSharedKeeps ==
  ASSUME CopyInv, NEW l \in Range(Labels), UnwindShared(l)
  PROVE  CopyInv'
<1> DEFINE m == Following(Labels, l)
<1>1. l \in Shared /\ l \in LabelNames \ {"free", "fork_out", "cgroup"}
  BY DEF UnwindShared, Shared, LabelNames
<1>2. m \in LabelNames /\ Rank[m] = Rank[l] + 1
  BY <1>1, LabelStep
<1>3. pc = <<"label", l>> /\ pc' = <<"label", m>> /\ Depth = Rank[l] /\ Depth' = Rank[l] + 1
  BY <1>2, DepthAt DEF UnwindShared, Label
<1> HIDE DEF m
<1>4. /\ ptr' = ptr /\ flags' = flags /\ kthread' = kthread /\ locks' = locks
      /\ node' = node /\ delayed' = delayed /\ pending' = pending /\ sent' = sent
      /\ childPending' = childPending
  BY DEF UnwindShared, sigVars
<1>5. /\ ptr \in [Shared -> {"null", "parent", "child"}] /\ refs \in [Shared -> Nat]
      /\ "signal" \in Shared /\ Rank["signal"] = 8
      /\ Shared \subseteq LabelNames /\ "kv" \notin Shared /\ "task" \notin Shared
      /\ \A k \in LabelNames : Rank[k] \in 1 .. 20
      /\ \A k \in LabelNames : Rank[k] = Rank[l] => k = l
  BY <1>1, DepthRange DEF CopyInv, CopyTypeOK, Shared, Rank, LabelNames
<1>6. own' = own \ {l}
  BY <1>1 DEF UnwindShared, Release, CopyInv, PtrInv
<1>7. refs' = IF l # "signal" /\ ptr[l] = "parent" THEN [refs EXCEPT ![l] = @ - 1] ELSE refs
  BY <1>3, <1>5 DEF UnwindShared, Release, CopyInv, PtrInv
<1>8. ~Out("child") /\ ~Out("child")'
  BY <1>3 DEF Out
<1>9. \A o \in Shared :
        refs[o] = IF ptr[o] = "parent" /\ o # "signal" /\ Depth <= Rank[o] THEN 2 ELSE 1
  BY <1>8 DEF CopyInv, CopyCountInv
<1>10. CopyTypeOK'
  <2>1. pc' \in {"label"} \X Range(Labels)
    BY <1>2, <1>3, Names
  <2>2. refs' \in [Shared -> Nat]
    BY <1>1, <1>3, <1>5, <1>7, <1>9
  <2> QED
    BY <1>4, <1>6, <2>1, <2>2 DEF CopyInv, CopyTypeOK
<1>11. OwnInv'
  <2>1. Rank[l] \in 5 .. 11
    BY <1>1 DEF Rank, Shared
  <2> QED
    BY <1>1, <1>3, <1>5, <1>6, <2>1 DEF CopyInv, OwnInv
<1>12. PtrInv'
  BY <1>1, <1>3, <1>4, <1>5, <1>6 DEF CopyInv, PtrInv
<1>13. CopyCountInv'
  <2> SUFFICES ASSUME NEW o \in Shared
      PROVE  refs'[o] = IF /\ ptr'[o] = "parent"
                           /\ IF o = "signal" THEN Out("child")' ELSE (Depth <= Rank[o])'
                        THEN 2 ELSE 1
    BY DEF CopyCountInv
  <2>1. CASE o = l
    <3>1. ~(Depth' <= Rank[o]) /\ Depth <= Rank[o]
      BY <1>1, <1>3, <1>5, <2>1
    <3>2. refs'[o] = 1
      BY <1>1, <1>5, <1>7, <1>9, <2>1, <3>1
    <3> QED
      BY <1>8, <3>1, <3>2
  <2>2. CASE o # l
    <3>1. refs'[o] = refs[o]
      BY <1>5, <1>7, <2>2
    <3>2. Depth' <= Rank[o] <=> Depth <= Rank[o]
      BY <1>1, <1>3, <1>5, <2>2
    <3> QED
      BY <1>4, <1>8, <1>9, <3>1, <3>2
  <2> QED
    BY <2>1, <2>2
<1>14. LockInv'
  BY <1>1, <1>3, <1>4 DEF CopyInv, LockInv, Stage, Label
<1>15. SignalInv'
  BY <1>3 DEF SignalInv, Out
<1> QED
  BY <1>10, <1>11, <1>12, <1>13, <1>14, <1>15 DEF CopyInv

\* A label releases what only the child had.
LEMMA UnwindOwnKeeps ==
  ASSUME CopyInv, NEW l \in Range(Labels), UnwindOwn(l)
  PROVE  CopyInv'
<1> DEFINE m == Following(Labels, l)
<1>1. l \in LabelNames \ {"fork_out"} /\ l \notin Shared
  BY Names DEF UnwindOwn
<1>2. m \in LabelNames \ {"cgroup"} /\ Rank[m] = Rank[l] + 1
  <2>1. m \in LabelNames /\ Rank[m] = Rank[l] + 1
    BY <1>1, LabelStep
  <2>2. Rank["cgroup"] = 1 /\ Rank[l] \in 1 .. 20
    BY <1>1, DepthRange DEF Rank
  <2> QED
    BY <2>1, <2>2
<1>3. pc = <<"label", l>> /\ pc' = <<"label", m>> /\ Depth = Rank[l] /\ Depth' = Rank[l] + 1
  BY <1>2, DepthAt DEF UnwindOwn, Label
<1> HIDE DEF m
<1>4. /\ ptr' = ptr /\ refs' = refs /\ flags' = flags /\ kthread' = kthread
      /\ node' = node /\ delayed' = delayed /\ pending' = pending /\ sent' = sent
      /\ childPending' = childPending
      /\ own' = own \ (IF l = "free" THEN {"task"} ELSE {l})
  BY DEF UnwindOwn, sigVars
<1>5. /\ "signal" \in Shared /\ Rank["signal"] = 8 /\ Rank["free"] = 19
      /\ Shared \subseteq LabelNames
      /\ \A k \in LabelNames : Rank[k] \in 1 .. 20
      /\ \A k \in LabelNames : Rank[k] = Rank[l] => k = l
  BY <1>1, DepthRange DEF Shared, Rank, LabelNames
<1>6. \A o \in Shared : Depth' <= Rank[o] <=> Depth <= Rank[o]
  BY <1>1, <1>3, <1>5
<1>7. CopyTypeOK'
  <2>1. pc' \in {"label"} \X Range(Labels)
    BY <1>2, <1>3, Names
  <2>2. locks' \subseteq {"tasklist", "siglock"}
    BY DEF CopyInv, CopyTypeOK, UnwindOwn
  <2> QED
    BY <1>4, <2>1, <2>2 DEF CopyInv, CopyTypeOK
<1>8. OwnInv'
  <2> SUFFICES ASSUME NEW x \in own'
      PROVE  \/ x = "kv"
             \/ x = "task" /\ (Depth <= 19)'
             \/ x \in LabelNames \ {"free", "fork_out"} /\ (Depth <= Rank[x])'
    BY DEF OwnInv
  <2>1. x \in own
    BY <1>4
  <2>2. CASE x = "task"
    <3>1. l # "free" /\ Depth <= 19
      BY <1>4, <2>1, <2>2 DEF CopyInv, OwnInv, LabelNames
    <3>2. Rank[l] # 19
      BY <1>1, <3>1 DEF LabelNames, Rank
    <3> QED
      BY <1>1, <1>3, <1>5, <2>2, <3>1, <3>2
  <2>3. CASE x \in LabelNames \ {"free", "fork_out"} /\ Depth <= Rank[x]
    BY <1>1, <1>3, <1>4, <1>5, <2>3
  <2> QED
    BY <2>1, <2>2, <2>3 DEF CopyInv, OwnInv
<1>9. PtrInv'
  BY <1>4, <1>5, <1>6 DEF CopyInv, PtrInv
<1>10. CopyCountInv'
  <2>1. ~Out("child") /\ ~Out("child")'
    BY <1>3 DEF Out
  <2> QED
    BY <1>4, <1>6, <2>1 DEF CopyInv, CopyCountInv
<1>11. LockInv'
  BY <1>1, <1>2, <1>3 DEF CopyInv, LockInv, Stage, Label, UnwindOwn
<1>12. SignalInv'
  BY <1>3 DEF SignalInv, Out
<1> QED
  BY <1>7, <1>8, <1>9, <1>10, <1>11, <1>12 DEF CopyInv

\* A step outside the stages and the labels that moves no resource.
LEMMA RestKeeps ==
  ASSUME CopyInv, Depth = 20, Depth' = 20, ptr' = ptr, refs' = refs, own' = own,
         ~Out("child"), ~Out("child")'
  PROVE  OwnInv' /\ PtrInv' /\ CopyCountInv'
<1>1. own \subseteq {"kv"}
  BY DepthRange DEF CopyInv, OwnInv, LabelNames, Rank
<1>2. "kv" \notin Shared /\ "signal" \notin {"kv"} /\ \A o \in Shared : Rank[o] < 20
  BY DEF Shared, Rank
<1>3. OwnInv'
  BY <1>1 DEF OwnInv
<1>4. PtrInv'
  <2>1. ~(Depth <= 8)'
    OBVIOUS
  <2>2. Shared \cap own' = {} /\ "signal" \notin own'
    BY <1>1, <1>2
  <2> QED
    BY <2>1, <2>2 DEF PtrInv
<1>5. CopyCountInv'
  BY DEF CopyInv, CopyCountInv
<1> QED
  BY <1>3, <1>4, <1>5

\* The call begins, fails before anything is taken, or returns an error.
LEMMA EdgeKeeps ==
  ASSUME CopyInv,
         \/ \E fl \in SUBSET Flags, current \in SUBSET Currents : Begin(fl, current)
         \/ Restart \/ DupFails \/ ForkOut
  PROVE  CopyInv'
<1>1. /\ ptr' = ptr /\ refs' = refs /\ own' = own /\ locks' = locks /\ kthread' = kthread
      /\ delayed' = delayed /\ pending' = pending /\ sent' = sent
      /\ childPending' = childPending
  BY DEF Begin, Restart, DupFails, ForkOut, resVars, sigVars
<1>2. CASE \E fl \in SUBSET Flags, current \in SUBSET Currents : Begin(fl, current)
  <2>1. PICK fl \in SUBSET Flags, current \in SUBSET Currents : Begin(fl, current)
    BY <1>2
  <2>2. /\ pc = <<"out", "none">> /\ pc' = <<"stage", "sigpending">> /\ flags' = fl
        /\ node' = ("THREAD" \notin fl)
    BY <2>1 DEF Begin, Out
  <2>3. Depth = 20 /\ Depth' = 20
    BY <2>2 DEF Depth, StageDepth
  <2>4. CopyTypeOK'
    <3>1. node' \in BOOLEAN /\ flags' \subseteq Flags
      BY <2>2
    <3>2. pc' \in {"stage"} \X (Range(Stages) \cup {"sigpending"})
      BY <2>2
    <3> QED
      BY <1>1, <3>1, <3>2 DEF CopyInv, CopyTypeOK
  <2>5. LockInv'
    BY <1>1, <2>2 DEF CopyInv, LockInv, Stage, Label
  <2>6. SignalInv'
    <3>1. "THREAD" \notin flags' => node'
      BY <2>2
    <3> QED
      BY <1>1, <2>2, <3>1 DEF CopyInv, SignalInv, Out
  <2> QED
    BY <1>1, <2>2, <2>3, <2>4, <2>5, <2>6, RestKeeps DEF CopyInv, Out
<1>3. CASE Restart \/ DupFails
  <2>1. pc = <<"stage", "sigpending">> /\ pc' = <<"label", "fork_out">>
        /\ flags' = flags /\ node' = node
    BY <1>3 DEF Restart, DupFails, Stage, sigVars
  <2>2. Depth = 20 /\ Depth' = 20
    BY <2>1 DEF Depth, StageDepth, Rank
  <2>3. CopyTypeOK'
    <3>1. pc' \in {"label"} \X Range(Labels)
      BY <2>1, Names DEF LabelNames
    <3> QED
      BY <1>1, <2>1, <3>1 DEF CopyInv, CopyTypeOK
  <2>4. LockInv' /\ SignalInv'
    BY <1>1, <2>1 DEF CopyInv, LockInv, SignalInv, Stage, Label, Out
  <2> QED
    BY <1>1, <2>1, <2>2, <2>3, <2>4, RestKeeps DEF CopyInv, Out
<1>4. CASE ForkOut
  <2>1. pc = <<"label", "fork_out">> /\ pc' = <<"out", "error">>
        /\ flags' = flags /\ node' = FALSE
    BY <1>4 DEF ForkOut, Label
  <2>2. Depth = 20 /\ Depth' = 20
    BY <2>1 DEF Depth, Rank
  <2>3. CopyTypeOK'
    BY <1>1, <2>1 DEF CopyInv, CopyTypeOK
  <2>4. LockInv' /\ SignalInv'
    BY <1>1, <2>1 DEF CopyInv, LockInv, SignalInv, Stage, Label, Out
  <2> QED
    BY <1>1, <2>1, <2>2, <2>3, <2>4, RestKeeps DEF CopyInv, Out
<1> QED
  BY <1>2, <1>3, <1>4

\* dup_task_struct copies the pointers, and nothing is counted yet.
LEMMA DupKeeps ==
  ASSUME CopyInv, Dup
  PROVE  CopyInv'
<1>1. /\ pc = <<"stage", "sigpending">> /\ pc' = <<"stage", "creds">> /\ own' = {"task"}
      /\ refs' = refs /\ flags' = flags /\ kthread' = kthread /\ locks' = locks
      /\ node' = node /\ delayed' = delayed /\ pending' = pending /\ sent' = sent
      /\ childPending' = childPending
      /\ ptr' \in [Shared -> {"null", "parent", "child"}]
  BY DEF Dup, Stage, sigVars
<1>2. Depth = 20 /\ Depth' = 19
  BY <1>1 DEF Depth, StageDepth, FailsTo, Gotos, Rank
<1>3. \A o \in Shared : Rank[o] \in 5 .. 11 /\ o # "task"
  BY DEF Rank, Shared
<1>4. CopyTypeOK'
  <2>1. pc' \in {"stage"} \X (Range(Stages) \cup {"sigpending"})
    BY <1>1, Names DEF StageNames
  <2> QED
    BY <1>1, <2>1 DEF CopyInv, CopyTypeOK
<1>5. OwnInv' /\ PtrInv'
  BY <1>1, <1>2, <1>3 DEF OwnInv, PtrInv, Shared
<1>6. CopyCountInv'
  BY <1>1, <1>2, <1>3 DEF CopyInv, CopyCountInv, Out
<1>7. LockInv' /\ SignalInv'
  BY <1>1 DEF CopyInv, LockInv, SignalInv, Stage, Label, Out
<1> QED
  BY <1>4, <1>5, <1>6, <1>7 DEF CopyInv

\* The child is published with the signals that came in the meantime.
LEMMA PublishKeeps ==
  ASSUME CopyInv, Publish
  PROVE  CopyInv'
<1>1. /\ pc = <<"stage", "publish">> /\ pc' = <<"out", "child">> /\ own' = own
      /\ ptr' = ptr /\ flags' = flags /\ kthread' = kthread /\ locks' = {}
      /\ node' = FALSE /\ delayed' = delayed /\ pending' = pending /\ sent' = sent
      /\ childPending' = IF "THREAD" \in flags THEN {} ELSE delayed
      /\ refs' = IF "THREAD" \in flags THEN [refs EXCEPT !["signal"] = @ + 1] ELSE refs
  BY DEF Publish, Stage
<1>2. Depth = 1 /\ Depth' = 1
  BY <1>1 DEF Depth, StageDepth, FailsTo, Gotos, Rank
<1>3. /\ \A o \in Shared : Rank[o] \in 5 .. 11
      /\ "signal" \in Shared
  BY DEF Rank, Shared
<1>4. refs \in [Shared -> Nat]
  BY DEF CopyInv, CopyTypeOK
<1>5. CopyTypeOK'
  <2>1. refs' \in [Shared -> Nat]
    BY <1>1, <1>3, <1>4
  <2> QED
    BY <1>1, <2>1 DEF CopyInv, CopyTypeOK
<1>6. OwnInv' /\ PtrInv'
  BY <1>1, <1>2 DEF CopyInv, OwnInv, PtrInv
<1>7. CopyCountInv'
  <2> SUFFICES ASSUME NEW o \in Shared
      PROVE  refs'[o] = IF ptr'[o] = "parent" THEN 2 ELSE 1
    BY <1>1, <1>2, <1>3 DEF CopyCountInv, Out
  <2>1. ~Out("child")
    BY <1>1 DEF Out
  <2>2. CASE o = "signal"
    <3>1. refs[o] = 1 /\ (ptr[o] = "parent" <=> "THREAD" \in flags)
      BY <1>2, <2>1, <2>2 DEF CopyInv, CopyCountInv, PtrInv
    <3> QED
      BY <1>1, <1>4, <2>2, <3>1
  <2>3. CASE o # "signal"
    <3>1. refs[o] = IF ptr[o] = "parent" THEN 2 ELSE 1
      BY <1>2, <1>3, <2>3 DEF CopyInv, CopyCountInv
    <3> QED
      BY <1>1, <1>4, <2>3, <3>1
  <2> QED
    BY <2>2, <2>3
<1>8. LockInv' /\ SignalInv'
  BY <1>1 DEF CopyInv, LockInv, SignalInv, Out
<1> QED
  BY <1>5, <1>6, <1>7, <1>8 DEF CopyInv

\* A signal is noted for the process that is being created.
LEMMA SendKeeps ==
  ASSUME CopyInv, NEW sig \in Signals, SendSignal(sig)
  PROVE  CopyInv'
<1>1. /\ pc' = pc /\ flags' = flags /\ kthread' = kthread /\ ptr' = ptr /\ refs' = refs
      /\ own' = own /\ locks' = locks /\ node' = node /\ childPending' = childPending
      /\ sent' = sent \cup {sig} /\ pending' = pending \cup {sig}
      /\ delayed' = IF node THEN delayed \cup {sig} ELSE delayed
      /\ pc[1] # "out"
  BY DEF SendSignal, resVars
<1>2. Depth' = Depth
  BY <1>1 DEF Depth, StageDepth
<1>3. CopyTypeOK'
  BY <1>1 DEF CopyInv, CopyTypeOK
<1>4. OwnInv' /\ PtrInv'
  BY <1>1, <1>2 DEF CopyInv, OwnInv, PtrInv
<1>5. CopyCountInv'
  BY <1>1, <1>2 DEF CopyInv, CopyCountInv, Out
<1>6. LockInv' /\ SignalInv'
  BY <1>1 DEF CopyInv, LockInv, SignalInv, Stage, Label, Out
<1> QED
  BY <1>3, <1>4, <1>5, <1>6 DEF CopyInv

\* Before the call the parent has its objects alone.
LEMMA InitCopyInv == CopyInit => CopyInv
<1> SUFFICES ASSUME CopyInit PROVE CopyInv
  OBVIOUS
<1>1. Depth = 20 /\ \A o \in Shared : Rank[o] < 20
  BY DEF CopyInit, Depth, Rank, Shared
<1>2. CopyTypeOK
  BY DEF CopyInit, CopyTypeOK
<1>3. OwnInv /\ PtrInv /\ LockInv /\ SignalInv
  BY <1>1 DEF CopyInit, OwnInv, PtrInv, LockInv, SignalInv, Out
<1>4. CopyCountInv
  BY <1>1 DEF CopyInit, CopyCountInv, Out
<1> QED
  BY <1>2, <1>3, <1>4 DEF CopyInv

\* CopyInv holds in every state, for any flags and signals.
THEOREM CopyInvariance == CopySpec => []CopyInv
<1>1. CopyInv /\ [CopyNext]_copyVars => CopyInv'
  <2> SUFFICES ASSUME CopyInv, [CopyNext]_copyVars PROVE CopyInv'
    OBVIOUS
  <2>1. CASE UNCHANGED copyVars
    <3>1. /\ pc' = pc /\ flags' = flags /\ kthread' = kthread /\ ptr' = ptr /\ refs' = refs
          /\ own' = own /\ locks' = locks /\ node' = node /\ delayed' = delayed
          /\ pending' = pending /\ sent' = sent /\ childPending' = childPending
      BY <2>1 DEF copyVars, resVars, sigVars
    <3>2. Depth' = Depth
      BY <3>1 DEF Depth, StageDepth
    <3> QED
      BY <3>1, <3>2 DEF CopyInv, CopyTypeOK, OwnInv, PtrInv, CopyCountInv, LockInv, SignalInv,
          Stage, Label, Out
  <2>2. CASE \E s \in DOMAIN Gains : Take(s)
    BY <2>2, TakeKeeps
  <2>3. CASE \E o \in Shared : Share(o) \/ Copy(o) \/ Nothing(o)
    BY <2>3, ShareKeeps
  <2>4. CASE Pidfd \/ PutPidfd \/ Kv
    BY <2>4, PidfdKvKeeps
  <2>5. CASE LastFailure
    <3>1. "publish" \in DOMAIN FailsTo
      BY DEF FailsTo, Gotos
    <3> QED
      BY <2>5, <3>1, FailKeeps
  <2>6. CASE \E s \in DOMAIN FailsTo : StageFails(s)
    BY <2>6, FailKeeps
  <2>7. CASE \E l \in Range(Labels) : UnwindShared(l) \/ UnwindOwn(l)
    BY <2>7, UnwindSharedKeeps, UnwindOwnKeeps
  <2>8. CASE \/ \E fl \in SUBSET Flags, current \in SUBSET Currents : Begin(fl, current)
             \/ Restart \/ DupFails \/ ForkOut
    BY <2>8, EdgeKeeps
  <2>9. CASE Dup \/ Publish
    BY <2>9, DupKeeps, PublishKeeps
  <2>10. CASE \E sig \in Signals : SendSignal(sig)
    BY <2>10, SendKeeps
  <2> QED
    BY <2>1, <2>2, <2>3, <2>4, <2>5, <2>6, <2>7, <2>8, <2>9, <2>10 DEF CopyNext, Work
<1> QED
  BY InitCopyInv, <1>1, PTL DEF CopySpec

\* CopyTypeOK: the call and its resources keep their types.
THEOREM CopyTypesAreKept == CopySpec => []CopyTypeOK
<1>1. CopyInv => CopyTypeOK
  BY DEF CopyInv
<1> QED
  BY CopyInvariance, <1>1, PTL

\* RefsExact: the parent never loses its reference to an object it shares,
\* whichever stage fails, and the child has one exactly where it shares.
THEOREM RefsAreExact == CopySpec => []RefsExact
<1>1. CopyInv => RefsExact
  <2> SUFFICES ASSUME CopyInv, NEW o \in Shared
      PROVE  /\ refs[o] >= 1
             /\ Out("error") => refs[o] = 1
             /\ Out("child") => refs[o] = IF ptr[o] = "parent" THEN 2 ELSE 1
    BY DEF RefsExact
  <2>1. Rank[o] \in 5 .. 11
    BY DEF Rank, Shared
  <2>2. Out("error") => Depth = 20 /\ ~Out("child")
    BY DEF Out, Depth
  <2>3. Out("child") => Depth = 1
    BY DEF Out, Depth
  <2> QED
    BY <2>1, <2>2, <2>3 DEF CopyInv, CopyCountInv
<1> QED
  BY CopyInvariance, <1>1, PTL

\* CleanFailure: the labels of a call that fails release all it took, but for
\* the key-value store, with its locks and its place in the list of forks.
THEOREM FailuresAreClean == CopySpec => []CleanFailure
<1>1. CopyInv => CleanFailure
  <2> SUFFICES ASSUME CopyInv, Out("error")
      PROVE  own \subseteq {"kv"} /\ locks = {} /\ ~node
    BY DEF CleanFailure
  <2>1. Depth = 20 /\ \A x \in LabelNames \ {"fork_out"} : Rank[x] < 20
    BY DEF Out, Depth, Rank, LabelNames
  <2>2. own \subseteq {"kv"}
    BY <2>1, DepthRange DEF CopyInv, OwnInv
  <2>3. locks = {} /\ ~node
    BY DEF CopyInv, LockInv, SignalInv, Stage, Label, Out
  <2> QED
    BY <2>2, <2>3
<1> QED
  BY CopyInvariance, <1>1, PTL

\* SignalsAfterFork: the child has every signal sent to the group while it was
\* being made.
THEOREM SignalsComeAfterFork == CopySpec => []SignalsAfterFork
<1>1. CopyInv => SignalsAfterFork
  BY DEF CopyInv, SignalInv, SignalsAfterFork
<1> QED
  BY CopyInvariance, <1>1, PTL
=============================================================================
