------------------------------ MODULE MCKernel ------------------------------
(***************************************************************************)
(* The parts of fork.c and of the vDSO that keep objects of their own, side *)
(* by side for TLC: subject says which of them takes the steps of a         *)
(* behaviour.  The others stay as they begin.                               *)
(***************************************************************************)
EXTENDS TaskLife, AddressSpace, VdsoTask, KernelClone, Unshare, CopyProcess

CONSTANT Subjects \* the parts that are exercised

VARIABLE subject

\* Room for all areas where the vDSO is asked for, for some of them, below that
\* place only, and none at all.
MCOthers == {{16}, {15}, {12, 16}, 6 .. 16}
MCPidPage == [t \in Viewers |-> IF t = CHOOSE u \in Viewers : TRUE THEN 0 ELSE 1]

MCRequest(entry, fl) ==
  [entry |-> entry, flags |-> fl, exit_signal |-> "none", stack |-> FALSE, stack_size |-> 0,
   usize |-> 2, set_tid |-> FALSE, set_tid_size |-> 0, cgroup |-> FALSE, pidfd |-> 1,
   parent_tid |-> 2]
MCRequests ==
  {MCRequest("fork", {}), MCRequest("vfork", {}), MCRequest("kernel_thread", {"FS"}),
   MCRequest("clone3", {"VM", "VFORK", "PIDFD", "CHILD_CLEARTID"}),
   MCRequest("clone3", {"VM", "VFORK", "DETACHED"}),
   MCRequest("clone", {"PIDFD"}), MCRequest("clone", {"PIDFD", "PARENT_SETTID"})}

\* A text area of the executable, and one that fork does not copy.
MCLayout ==
  <<[pages |-> 2, account |-> TRUE, dontcopy |-> FALSE, text |-> TRUE],
    [pages |-> 1, account |-> TRUE, dontcopy |-> TRUE, text |-> FALSE]>>

MCUnshareCalls == {{"NEWUSER", "NEWIPC"}, {"NEWNS", "FILES"}, {"VM"}, {"IO"}}
MCCloneSets == {{"fs"}, {"fs", "files", "sighand", "mm", "group"}}

vars == <<subject, taskVars, spaceVars, vdsoVars, cloneVars, unshareVars, copyVars>>

\* A part that takes no step need not begin in more than one way.
Init ==
  /\ subject \in Subjects
  /\ TaskInit /\ SpaceInit /\ VdsoInit /\ CloneInit /\ UnshareInit /\ CopyInit
  /\ subject # "vtask" => \A s \in Spaces : other[s] = {16}
  /\ subject # "copy" => ~kthread

Next ==
  \/ /\ subject = "task"
     /\ TaskNext
     /\ UNCHANGED <<subject, spaceVars, vdsoVars, cloneVars, unshareVars, copyVars>>
  \/ /\ subject = "mm"
     /\ SpaceNext
     /\ UNCHANGED <<subject, taskVars, vdsoVars, cloneVars, unshareVars, copyVars>>
  \/ /\ subject = "vtask"
     /\ VdsoNext
     /\ UNCHANGED <<subject, taskVars, spaceVars, cloneVars, unshareVars, copyVars>>
  \/ /\ subject = "clone"
     /\ CloneNext
     /\ UNCHANGED <<subject, taskVars, spaceVars, vdsoVars, unshareVars, copyVars>>
  \/ /\ subject = "unshare"
     /\ UnshareNext
     /\ UNCHANGED <<subject, taskVars, spaceVars, vdsoVars, cloneVars, copyVars>>
  \/ /\ subject = "copy"
     /\ CopyNext
     /\ UNCHANGED <<subject, taskVars, spaceVars, vdsoVars, cloneVars, unshareVars>>

Spec == Init /\ [][Next]_vars
=============================================================================
