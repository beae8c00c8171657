------------------------------- MODULE MCParts -------------------------------
(***************************************************************************)
(* The parts of the repository that keep to themselves, side by side for   *)
(* TLC: the two NCCL benchmarks, the packet capture, the ACPI table, and   *)
(* the tree and the proc interface of ramfs.  subject says which of them a *)
(* behaviour exercises; the others stay in an initial state, or their      *)
(* variables hold nothing.                                                 *)
(***************************************************************************)
EXTENDS NcclThreads, Capture, AcpiTable, RamfsTree, RamfsProc, TLC

CONSTANTS Subjects, \* the parts that are exercised
          NotUsed,   \* what the variables of NcclRanks hold when it is not
                     \* exercised
          WorldSize, Devices, Rounds, Warmups

VARIABLES subject,
          devices, pos, inside, mpiCalls, ncclCalls, given, send, recv, verdict

\* A table of the firmware that ends with its header.
Short ==
  [signature |-> 60, length |-> 36, revision |-> 1, checksum |-> 158, oem |-> 1,
   oemRevision |-> 0, creator |-> 0, data1 |-> 0, data2 |-> 0, message |-> 0, ended |-> FALSE]
MCFirmware == {<<>>, <<Short>>}

\* A root pointer, and firmware that leads to it once, twice or three times.
MCRoot == <<541348690, 542266448, 0>>
MCConfigTables == {<<"other", "acpi">>, <<"acpi", "other", "acpi">>, <<"acpi", "acpi", "acpi">>}

\* An option with file type bits in it.
MCParams == {[opt |-> "mode", value |-> [type |-> {"REG"}, perm |-> "0700"]]}

\* Two paths and a newline, blanks before and between, a second line, paths
\* that are too long, a third word, and one path only.
MCBuffers ==
  {<<"a", " ", "b", "\n">>, <<" ", "a", " ", " ", "a", "b">>, <<"a", "\n", "b">>,
   <<"a", "b", "a", " ", "b">>, <<"a", " ", "a", "b", "a">>, <<"b", " ", "a", " ", "b">>,
   <<"b", " ">>}
MCDirectory == {<<"b">>, <<"a", "b">>}
MCOther == {<<"a">>}
MCCharacters == {"a", "b", " ", Newline, NotBound}

Symmetry == Permutations(Names) \cup Permutations(Writers)

NR == INSTANCE NcclRanks

ranksVars ==
  <<devices, pos, inside, mpiCalls, ncclCalls, given, send, recv, verdict>>
vars == <<subject, ranksVars, threadsVars, captureVars, acpiVars, treeVars, procVars>>

\* The variables of a part that is not exercised.
NoRanks ==
  /\ devices = NotUsed /\ pos = NotUsed /\ inside = NotUsed /\ mpiCalls = NotUsed
  /\ ncclCalls = NotUsed /\ given = NotUsed /\ send = NotUsed /\ recv = NotUsed
  /\ verdict = NotUsed

Init ==
  /\ subject \in Subjects
  /\ ThreadsInit /\ CaptureInit /\ AcpiInit /\ TreeInit /\ ProcInit
  /\ subject # "threads" => mainAt = "alloc"
  /\ subject # "capture" => filtered = FALSE /\ limit = CHOOSE l \in Limits : TRUE
  /\ subject # "acpi" => /\ acpi = (CHOOSE f \in Firmware : TRUE) /\ oem = CHOOSE o \in Oems : TRUE
                         /\ config = CHOOSE c \in ConfigTables : TRUE
  /\ IF subject = "ranks" THEN NR!Init ELSE NoRanks

Next ==
  \/ /\ subject = "ranks"
     /\ NR!Next
     /\ UNCHANGED <<subject, threadsVars, captureVars, acpiVars, treeVars, procVars>>
  \/ /\ subject = "threads"
     /\ ThreadsNext
     /\ UNCHANGED <<subject, ranksVars, captureVars, acpiVars, treeVars, procVars>>
  \/ /\ subject = "capture"
     /\ CaptureNext
     /\ UNCHANGED <<subject, ranksVars, threadsVars, acpiVars, treeVars, procVars>>
  \/ /\ subject = "acpi"
     /\ AcpiNext
     /\ UNCHANGED <<subject, ranksVars, threadsVars, captureVars, treeVars, procVars>>
  \/ /\ subject = "tree"
     /\ TreeNext
     /\ UNCHANGED <<subject, ranksVars, threadsVars, captureVars, acpiVars, procVars>>
  \/ /\ subject = "proc"
     /\ ProcNext
     /\ UNCHANGED <<subject, ranksVars, threadsVars, captureVars, acpiVars, treeVars>>

Spec == Init /\ [][Next]_vars
-----------------------------------------------------------------------------
\* The NCCL benchmarks.  The ranks stay together: the calls that MPI and NCCL
\* match by their order are the same call on every rank, nobody leaves a barrier
\* that another running rank has not come to, a timed call does not overlap a
\* warm-up, a verification agrees with the sum of all ranks, and nobody waits for
\* ever unless a rank has exited alone (main of nccl_multi_node.cu); and main
\* of the program with two GPUs waits for ever only after NCCL has refused the
\* call of one thread and taken that of the other, or if pthread_create failed
\* (main of nccl.cu).
NcclSound == (subject = "ranks" => NR!TypeOK /\ NR!RanksSound) /\ StuckByHalf
=============================================================================
