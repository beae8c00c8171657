# A TLA+ verification of os_homework

The repository extends a Linux 5.15 kernel (a key-value store per process, a
ramfs that can be saved to disk, a task_struct in the vDSO, a system call for
socket limits, a reader of an ACPI table) and holds user programs around it (a
FUSE file system that asks a language model, collective operations over TCP and
NCCL, a packet capture library, UEFI applications, exercises). This directory
models the parts with state and concurrency, checks them with TLC and proves
the central results with TLAPS.

Contents: [inventory](#inventory), [modules](#modules-and-code),
[runs](#runs), [proofs](#proofs), [what the checks showed](#what-the-checks-showed),
[not modelled](#not-modelled), [plan](#plan).

## Inventory

Paths are relative to `src/`; `K` is `kvm/linux-5.15.178`.

**Key-value store** (`K/kernel/kv_store.c`, fields in `K/include/linux/sched.h`).
State: per thread group an array of 1024 bucket lists and an array of 1024
spinlocks. Operations: `write_kv`, `read_kv`. Hard: threads share the buckets;
`read_kv` uses the node it found after it has released the lock; `kmalloc` can
fail between scan and insertion. Correct when a bucket has one node per key, the
calls behave as if atomic, and every call returns.

**Life cycle of the store** (`K/kernel/fork.c`: `init_task_kv_store`,
`dup_task_struct`, `copy_process`). State: two pointers in every task_struct.
Operations: clone with and without CLONE_THREAD, exit. Hard: the pointers are
copied before they are replaced, either allocation can fail and the result is
ignored, nothing is freed at exit. Correct when the tasks of a group agree on
their store and no task reaches memory that is not its group's.

**copy_process** (`K/kernel/fork.c`). State: references to files, fs, sighand,
signal, mm and io, what was allocated for the child, the list of forks in
progress. Operations: twenty stages, each of which can fail, and the unwinding
labels. Hard: a failing stage must undo exactly what was done; signals to the
group arrive meanwhile. Correct when a failed call leaves no trace, reference
counts are exact, and signals appear to come after the fork.

**Saving a ramfs** (`K/fs/ramfs/inode.c`, `file-mmu.c`). State:
`ramfs_sync_dir`, and the files in that directory. Operations: bind, and flush
through fsync or `/proc/fs/ramfs/sync`. Hard: flushes run concurrently with each
other, with writers, with bind and with a crash of the machine; every step can
fail. Correct when the saved file is always one whole copy, a successful flush
leaves what was in the file, and it survives a crash.

**GPTfs** (`fuse/gptfs.py`). State: per session the files input, output and
error, and worker threads. Operations: write, truncate, the worker. Hard: every
write starts a worker, workers overlap, and calls fail or take 30 seconds.
Nothing orders the replies of two workers, nor their stores in the two files.
Correct when output and error belong to one request, and in the end to the last
one, in every order of the workers but these.

**TCP collectives** (`network/nccl/tcp_ip_test.cpp`). State: per rank the
sockets and two buffers. Operations: connecting, barrier, broadcast, all-reduce,
gather. Hard: ranks run at any speed, over streams without message boundaries
and with bounded buffers; connecting races with listening. Correct when all
ranks get connected, data is what it should be, and nobody waits for ever.

**Task_struct and stack** (`fork.c`: `dup_task_struct`, `free_task`,
`put_task_stack`). State: reference counts of a task and of its stack, a cache of
stacks per CPU, the thread limit, per-CPU process counts. Hard: the reaper, RCU,
the last context switch and readers of `/proc` let go in any order; a stack is
reused by the next task; a process is counted when its leader is made, on one CPU,
and discounted when its last leader is reaped, maybe on another. Correct when no
stack is in two places or shows old data, `nr_threads` is the number of tasks, and
the counters of the CPUs add up to the number of thread group leaders.

**Address spaces** (`fork.c`: `dup_mm`, `dup_mmap`, `mmput`,
`replace_mm_exe_file`). State: `mm_users`, `mm_count`, areas and committed
memory, the executable. Hard: a copy fails at any area; the executable is
replaced while a fork copies it; the last put is queued. Correct when the
counters are exact and no running executable is open for writing.

**Creating a process** (`fork.c`: `kernel_clone`, clone3 arguments, `mm_release`,
pidfd). State: the vfork completion on the parent's stack, waiters of a pidfd.
Hard: the parent is killed while the child completes; the group exits while a
poller is about to sleep.

**unshare** (`fork.c`: `ksys_unshare`). State: counted `fs_struct` and
`files_struct`. Hard: counts are read without a lock and used later, any step
fails. Correct when counts stay exact and the task ends up alone with its copy.

**Task_struct in the vDSO** (`K/arch/x86/entry/vdso/vma.c`,
`vget_task_struct_info.c`). State: the vtask mapping of an address space and its
page table entries. Operations: `map_vdso`, page faults, fork, reads from user
space. Hard: threads share the mapping, fork copies it, tasks end, the second or
third mapping fails, and an error code is shifted before it is looked at. Correct
when a process reads its own pid, the three areas are there together or not at all,
and they lie in free space.

**Names in a ramfs** (`K/fs/ramfs/inode.c`, first half). State: inodes, dentries,
link counts, the mount's info block. Operations: mount, the directory
operations, unmount. Correct when counters match the tree and everything is
freed once.

**Binding** (`K/fs/ramfs/inode.c`, `/proc/fs/ramfs/bind`). State: the string
`ramfs_sync_dir`, the buffers of each call, the proc entries. Hard: concurrent binds
and reads in pieces, an exit of its own for every allocation. Correct when the bound
string is the one asked for and the only one left, and every exit frees what it has.

**NCCL benchmarks** (`network/nccl/nccl_multi_node.cu`, `nccl.cu`). State: the
call each rank or thread is at, its buffers. Hard: a rank exits alone, results
of calls and of `pthread_create` are dropped. Correct when ranks meet in the same call and a verdict is
about the operation just run.

**Packet capture** (`network/tcpdump`) and **ACPI table** (`edk2/MyAddAcpiPkg`,
`edk2/MyAcpiViewPkg`, `K/drivers/acpi/mytb_reader.c`). A buffer that fills up and
is walked afterwards, a handle and a filter that each exit closes by itself; a table,
its checksum, a program that takes root pointers for tables, and a sysfs directory.

**Smaller parts.** Socket limits (`K/kernel/configure_socket_fairness.c`), the
mmap and extended-attribute exercises (`os-2024-exercise/ch3-mm/ch3_1`,
`ch4-fs/ch4_1`), boot and test scripts.

**Interactions.** The system calls of the store run on the pointers that
copy_process set up; copy_process is the only place that shares them, and it
ignores the failure of `init_task_kv_store`. fsync of a ramfs file calls the
flush, which writes to another filesystem, in the directory bind has set. The parts
of fork.c work on objects of their own (stacks, address spaces, shared
structures) that meet in copy_process, where `CopyProcess` has them as counted
references. The other parts are programs of their own.

`PROJECT.json` lists every component, and under `hazards` each place in the code
where something can go wrong that a test would hardly reach, with the properties
that watch it.

## Modules and code

| Module | Code | State and actions |
|---|---|---|
| `KVMap` | what the store promises | a map; a call starts, takes effect in one step, and returns |
| `KVStore` | `kv_store.c` | bucket lists (`chain`), spinlocks, the locals of each call; an action per step: lock, one node of the scan, store, kmalloc, link, unlock, the load of the value after the unlock |
| `KVFork` | `fork.c` 2305-2312, `init_task_kv_store`, `dup_task_struct` | the two pointers of each task, allocated blocks, lock holders; an action per step of the copy, for each failing allocation, for late failures of copy_process, exit, and the pointers as the system calls use them |
| `CopyProcess` | `copy_process` and the copy_* functions | one call: pointers, reference counts, allocations, locks, the delayed signals; an action per stage, per failure, per label |
| `RamfsSync` | `ramfs_bind`, `ramfs_file_flush` | ramfs files, directory entries and inodes in memory and on disk, the locals of each flush; an action per step from the copy of the directory name to the rename, one for each error return; journal commit, writeback and crash of the filesystem below |
| `GPTfs` | `gptfs.py` | the three files, each worker; write, truncate, and the four steps of a worker |
| `TcpConnect` | `establish_connections` | listening sockets, their queues, both ends of each connection; listen, accept, read the rank and close, connect, refused, give up |
| `TcpCollective` | the rest of `tcp_ip_test.cpp` | composes TcpConnect with the programs of the ranks: a sequence of sends, receives and local steps, executed chunk by chunk |
| `TaskLife` | `fork.c`: stack cache, `dup_task_struct`, `free_task`, `set_max_threads`, `nr_processes` | for each task its step, its counts and the leader of its group, for each stack its place, data and charge; a task is published as a process or as a thread of one; exit, reaping, exec by a thread (`DeThread`), scheduler and `/proc` readers as callers |
| `AddressSpace` | `fork.c`: `dup_mm`, `dup_mmap`, `mmput`, `mmdrop`, exe_file | counters, areas and committed pages of each mm, writers of each file; dup_mmap one area at a time, replace_mm_exe_file in its five steps |
| `VdsoTask` | `vma.c`, `vget_task_struct_info.c` | the three areas, the context and page table entries of each address space; map_vdso as the search for a place, three installs and three exits that unmap, the faults of [vvar] and [vtask] with their errors, mremap, fork, thread, exit, the two reads of the pid |
| `KernelClone` | `fork.c`: `kernel_clone`, `mm_release`, pidfd | the parent's wait, the child's leaving, the pidfd's waiters; clone3 arguments as a predicate |
| `Unshare` | `fork.c`: `ksys_unshare`, `unshare_files` | who has which fs and files object; one action per step between check and commit |
| `RamfsTree` | `inode.c`: mounting and the directory operations | inodes with link and reference counts, dentries, and the tree the calls should have made |
| `RamfsProc` | `inode.c`: `/proc/fs/ramfs/bind` | the proc entries, made and removed one by one, strings that are allocated and freed, the bound one, what each writer holds, with an action for every allocation and every exit, each reader's offset |
| `NcclRanks` | `nccl_multi_node.cu` | the position of each rank in its sequence of calls; MPI and NCCL match calls by order |
| `NcclThreads` | `nccl.cu` | main and two threads, which may not come to be, three buffers per device |
| `Capture` | `custom_tcpdump.c`, `main.c` | the buffer as headers at offsets; an action per call of libpcap, whose failure closes and frees what its own lines do, and per turn of the printing loop |
| `AcpiTable` | `MyAddAcpi.c`, `MyAcpiView.c`, `mytb_reader.c` | tables as byte sums of their fields, the configuration table and the words of the root pointer; firmware, the two applications, boot, module |

`MCKernel` and `MCParts` each put six modules that share no state side by side: a
behaviour picks one of them (`subject`), and the others take no step, so that one
run covers them without multiplying their states. `MCKernel` extends its modules,
so that the run evaluates their assumptions and checks the very definitions the
theorems are about; `MCParts` extends those of its modules that have theorems and
instantiates `NcclRanks`, which has none.
`MC...` modules give TLC its constants; `...Proofs` modules hold the theorems.
Definitions called mutants are never used by a specification: each is a
plausible mistake in the code that one property must notice when it replaces the
definition that follows it.

Abstractions worth knowing:

- A pointer to a node of the store is a position in its bucket, counted from the
  oldest node: nodes are only added at the head and never removed, so positions
  do not move. C's `%` is modelled with its sign; keys whose remainder is
  negative index before the arrays and are excluded by `KVAssumption`.
- `KVFork` has one bucket, since the 1024 behave alike, and its two system calls
  only use the pointers; their contents are the business of `KVStore`. A null
  pointer used in the kernel kills the task where it is, with the lock it holds.
- `CopyProcess` has all refusals of flag combinations (`Refused`), those that depend
  on the parent's namespaces included; the instance leaves out flags that are only
  refused or change nothing here. The stages that take one resource are one action
  over the name of the stage.
- A page in `RamfsSync` is the number of the write that made it. A short read or
  write is a page; copying a page and failing are the outcomes of kernel_write.
  A new temporary file may get any free inode. The filesystem below commits the
  entries of a directory together and writes file contents back at any time,
  which is what a journaling filesystem guarantees, and no more.
- A prompt in `GPTfs` stands for the reply to it. Characters are letters, white
  space and a part of a character, which fails to decode.
- `TcpCollective` sends chunks of a byte stream; the tag in a chunk is history
  that receivers do not look at. Floats are whole numerators, so rounding is
  left out. An unread byte at close resets the connection, as in the kernel.
- `VdsoTask` counts addresses in half pages, so that an error code with a length
  added to it is an address that is not at the start of a page, as it is in the code;
  do_munmap and mremap refuse such an address. A page table entry holds the page of
  the task_struct it shows, of whatever task. get_unmapped_area is any free
  place below the one asked for. The clocks of hypervisors are one page of [vvar].
  The image for 32-bit programs is left out.
- `RamfsTree` has the operations of fs/libfs.c that ramfs installs as external
  actions, and records beside the dentries the tree the calls asked for, to which
  `TreeExact` compares them. `RamfsProc` reads the bind line character by
  character, since `parse_mount_path` is checked against a definition by words.
- A field of an ACPI table is the sum of its bytes, which is what checksums see. The
  root pointer is a sequence of words, the second of which ChangeACPITable takes for
  a length; a checksum over bytes beyond its end may come out as anything.
- `pthread_join` of a handle that was never written is undefined: it returns, ends
  the process, or never returns.
- `KernelClone` has one child with one more thread; what copy_process does inside
  is `CopyProcess`.

## Runs

Each row is a run of `PROJECT.json`; the configuration has the run's bounds.

| Run | Checks | Bounds and why they suffice |
|---|---|---|
| `kv_store` | `UniqueKeys`, `NodeStillValid`; refinement `Linearizable`; liveness `CallsReturn` | two threads and two keys of one bucket: every pair of steps of two calls on one list meets; the theorems cover any number |
| `kv_fork` | `OwnBucket`, `GroupShares`, `OrphansExplained`; liveness `KvReturns` | three tasks make a thread of a child and a child of a thread; two failing allocations cover both of one process or one of each of two; four blocks make memory run out |
| `kernel` | `StacksExact`, `TasksExact` (TaskLife); `MmExact`, `ExeNotWritten` (AddressSpace); `VtaskSound` (VdsoTask); `VforkSafe`, `PidfdFaithful` (KernelClone); `SharedExact`, `OwnIsOwn` (Unshare); `RefsExact`, `CleanFailure`, `SignalsAfterFork` (CopyProcess) | two tasks, two stacks, two CPUs with a cache of one: the cache can be empty, full, or on the other CPU; two mms of two areas, one fork, two files, so that the executable can be replaced and a copy fail half-way; two address spaces with room where the vDSO is asked for, below it only, for some of the areas only, or nowhere; one vfork child with one more thread; three sharers and four calls of unshare, clone and exit; all subsets of eight flags with a failure at each stage and two signals |
| `vtask_child_pid` | `ChildPid`, violated | the same address spaces |
| `ramfs_crash` | `FinalWhole`, `FlushExact`; liveness `FlushReturns` | files of two pages (a copy can be half done), two writes, one crash; three inodes, so that the disk can be full |
| `ramfs_two` | `SavedKept`, `LoserCovered`, action property `FinalNeverVanishes` | two flushers, of the same and of different files, two directories and any number of binds; two inodes, so that each flusher can have a file and the disk be full |
| `ramfs_concurrent` | `FinalAtomic`, violated | two flushes of one file, which has a page |
| `ramfs_durable` | `SavedDurable`, violated | one flush and one crash |
| `gptfs` | `PromptFresh`, `PairCoherent`; liveness `FinalAnswer` | three changes of input, up to three workers; an input of two characters has an inside and an end |
| `tcp_collective` | `InStep`, `ResultsCorrect`, `NoSpuriousFailure`; liveness `Completes` | four ranks, so that two can queue at rank 1 as well as at rank 0; two sizes and two rounds, so that a leftover of an earlier one could be taken for the next; messages of one and three chunks over connections that hold two, so that a sender of a long message waits for its receiver |
| `tcp_established` | `Established`, violated | three ranks |
| `parts` | `NcclSound` (NcclRanks, and the waiting of NcclThreads), `VerdictHonest` (NcclThreads), `CaptureFaithful` (Capture), `TableArrives` (AcpiTable), `TreeExact` (RamfsTree), `PathParsed`, `BindExact` (RamfsProc) | three ranks, two rounds with a warm-up each; two sizes on two GPUs; up to four packets of three lengths into a buffer that holds one to three; two byte sums of the identification, one of which makes the checksum 0, a firmware with and without a short table of the same name, and one to three entries that lead to the root pointer; three inodes, three dentries and two names, enough for a directory in a directory, a hard link and an open file without a name, but not for a directory that replaces one in another directory; two writers and a reader, seven lines with blanks, too long words and missing words |

The type invariants of the modules with theorems are proved; that of `NcclRanks`
is part of `NcclSound`.

Deadlock checking is off where the system may stop: when all tasks are dead
(`kv_fork`), when all work is done (`gptfs`, `tcp_collective`), and where a part
ends or reaches its bounds (`kernel`, `parts`). That nobody stops too early is a
property where it matters: `NcclSound` says that the
processes wait for ever only after one of them has exited, a thread could not be made
or one of two calls was refused, and the runs with fairness have liveness properties.

**Fairness.** A thread inside a system call keeps running (weak fairness of its
steps); a spinlock is a queued lock, so a thread that finds it free again and
again gets it (strong fairness of taking the lock). A flush, a worker thread and
a rank are threads the scheduler runs (weak fairness); that a call of the
language model ends is its timeout of 30 seconds. Nothing is assumed about
applications, failures, commits or crashes.

## Proofs

TLAPS checks the theorems for every value of the constants that satisfies the
assumptions of the modules and, in `RamfsSyncProofs`, the hypotheses of three
theorems, all listed below with their reasons. TLC evaluates the assumptions on the
constants of the runs. Every inductive invariant was checked by TLC on
the instance of its run before it was proved. Each proof module starts with the
parts of its inductive invariant; a lemma per action follows, and the theorems come
last.

**KVStoreProofs.** `InvariantHolds` proves the inductive invariant `IInv` of
`KVStore`. `UniqueKeys` alone is not inductive: that the inserting thread's scan
saw everything needs mutual exclusion (`HoldsLock`), scans that skip nothing
(`ScanSound`), and nodes in the bucket of their key (`RightBucket`). From `IInv`
follow `TypeCorrect`, `UniqueKeysHolds` and `NodeStillValidHolds`.
`Linearizability` proves that the store implements `KVMap`: each step maps to a
step of the map or to none, with the load after the unlock as the moment a
successful read takes effect. Assumptions: keys whose bucket is inside the array.

**KVForkProofs.** `InvariantHolds` proves `IInv` of `KVFork`. `OwnBucket` says
where a task that uses its store is; what makes it inductive is what holds of the
pointers long before (`PointersInv`: no locks, or both blocks of the own group,
or no store and foreign locks), during the copy (`CopyInv`), of children
(`ChildInv`), of groups (`GroupInv`) and of lock holders (`HolderInv`). There is
a lemma per action, with a step per conjunct. `OwnBucketHolds`,
`GroupSharesHolds` and `OrphansExplainedHolds` follow from it. Assumption: the
first task has its two blocks, as process 1 has, which copy_process made.

**RamfsSyncProofs.** `FinalWhole` speaks of the inodes under final names, but a
flush writes to an inode that it opened as `.name.tmp` and that may have been
renamed under it. So `IInv` says for which name of which directory an inode is
used (`OneHome`, `OneEntry`), that a final file is under no temporary name, on
the disk either (`FinalsLeft`), that flushes of a name that are under way
together are recorded in `mixed` (`Alone`), that the temporary file of a flush
that is alone is its own copy so far and complete before it is renamed
(`CopyInv`), and that a temporary file only leaves by a rename to the final name
(`CoveredInv`). From it follow `FinalsAreWhole`, `LosersAreCovered` and the
action property `FinalsNeverVanish`, for any flushers, files, names, inodes and
crashes. `SavedIsKept` and `FlushesAreExactApart` need `DistinctNames`: the code
names a saved file by its last component only, so two files of one name in
different directories overwrite each other in any case. `FlushesAreExact` is
`FlushExact` as `ramfs_crash` checks it, with one flusher (`OneFlusher`) and any
names; without either hypothesis it is false, by the overwriting.

**PartsProofs, GPTfs.** `PromptFresh` needs to know what a worker that has not read yet
can still read (`AskedInv`); `PairCoherent` that one worker at most is between its two
stores (`OneBetween`) and that output is its reply then (`HalfDone`), unless two have
crossed there (`crossed`), the one thing that `PairCoherent` excepts. No hypotheses.

**PartsProofs, packet capture.** `BufferInv` has a sequence of offsets that leads
from header to header (`Walk`): where one packet ends the next header is, or the
end of what is used. `CaptureFaithful` compares what is shown with the recursive
function `Greedy`, which is defined on the packets that have arrived and so
changes with each of them; that its values for the earlier packets do not is
`GreedyUnique`, by the least packet at which two such functions would differ.
`CallInv` has the results and what is open at each point of the call, so that each
exit is seen to close and free what it should.
`CaptureIsFaithful` follows. Assumed is `CaptureSizes`: sizes are numbers, and a
header has some bytes, so that no two headers are at one offset.

**PartsProofs, ACPI.** `AcpiInv` says of each table in the XSDT that it sums to 0 and
that a table with the application's identification is the one it wrote, and of the
module which table it has at each of its steps; the root pointer stays because the
length that CopyMem is given is that of the empty table. `TableDoesArrive` follows.
Assumed is `FirmwareSound`: fields are sums of bytes, the tables of the firmware have
a correct checksum and are not identified as the application's, and the root pointer
has two words, the second ("PTR ") larger than its length.

**PartsProofs, the tree of ramfs.** Link counts, dentry counts and inode counts
count each other's objects, so `TreeInv` relates all of them to three counts of
dentries: those that have an inode, those of them that a lookup finds, and those
that are directories found in a directory. How an operation changes one dentry, and
with it these counts by one or not at all, is said once and cited for each
operation. A directory has one dentry, or is the root, which has none, so that no
name needs to be compared with another. `TreeIsExact` follows, for any inodes,
dentries and names. Assumed is `TreeSound`: finitely many numbered inodes, one of
them the root's, and dentries; mknod makes no directories, as the VFS guarantees; and
the value that stands for nothing is no other.

**PartsProofs, binding through proc.** `ProcInv` has the entries at each step of
ramfs_init_proc and its unwinding (`EntriesInv`), the strings (`StringsInv`: the
bound one is the one that is not freed), what a writer holds at each point of its
call and that what it is about to bind is a directory (`WriterInv`), and the readers
(`ReaderInv`). A reader gets the text in pieces, so `BindExact` speaks of all that
was bound since its first read; inductive is that what is bound *now* is among them,
since the next piece will be of that. `BindingIsExact` follows, for any writers,
readers, lines and directories. Assumed is `ProcSound`: paths are sequences of
characters, and the value for no path is none.

**PartsProofs, NCCL with two GPUs.** The threads drop the result of their calls, so
the verdict is read off the buffers; `ThreadsInv` says what each buffer holds at each
step of main and the threads (`BuffInv`), depending on whether the thread of the
device is through a collective that both devices joined. It needs who runs when and
that a refused thread is done without the other and one that was not made never joins
(`RunInv`), and `SaidInv` relates
what was said to `joined`. `VerdictsAreHonest` follows, for any number of sizes.
Assumed is `BenchSizes`: counts are numbers.

**CloneProofs, kernel_clone.** `CloneInv` holds for each child: its life (`ChildInv`), the
frame of the completion, which is there as long as the child has the pointer
(`FrameInv`), the references to its task and pid as a sum of conditions
(`CountInv`), and the poller (`PollInv`). `VforkIsSafe` and `PidfdIsFaithful`
follow, for any children, threads and requests. Assumed of the constants is
`NullIsNoRequest`: the value that stands for "no call yet" is not a request.

**CloneProofs, copy_process.** The argument is one number, `Depth`: the position among
the bad_fork labels at which the call would start to fall through if it failed
now. A stage that succeeds lowers it, a label raises it. `OwnInv` says that what
is held is released by a label at or after it, `CopyCountInv` that the parent's
object has a second reference exactly when such a label, or the child, will put
it. A stage that jumps to a wrong label, or two labels in the wrong order, break
one of the two. `RefsAreExact`, `FailuresAreClean` and `SignalsComeAfterFork`
hold for any flags and signals. No hypotheses.

**SpaceProofs, address spaces.** `MmInv` has for each mm what its two counters
count and that nothing is left in it when nobody uses it, `PagesInv` the committed
pages as pairs of an mm and a page of one of its areas, `FileInv` for each file
its references and its i_writecount, `PointInv` what a process holds at each point
of a call. The counters are exact because what dup_mmap builds is seen by nobody
else (`Private`) and two threads of an mm are not both in dup_mmap (`LockInv`). The
hard conjunct is `Guarded`: the deny_write_access of dup_mm_exe_file cannot fail
because the executable it found is still that of the mm, or was replaced by a
thread that still denies it to writers and waits in replace_mm_exe_file for the
lock that the fork has. Without that lock, before allow_write_access, it fails.
Counts are cardinalities; `CountSame` and `Recount` say how a step changes one.
`MmIsExact` and `ExeIsNotWritten` follow. Assumed is `SpacesSound`: finitely many
processes and mms and at least one of each, areas with a number of pages, and values
that stand for nothing are no others.

**SpaceProofs, the vDSO.** `OwnPid` is a statement about the end of a read; before that
`FrameInv` says whose pages the faults have put into an address space that was
neither shared nor copied, `ReadInv` what a reader between its two reads has
seen, `UseInv` who uses a space and `VvarInv` in which time namespace. For the areas
`InstallInv` follows map_vdso: which of them are there at each of its steps, in an
address space with one user and no context yet, so that each exit can be seen to take
away exactly those; `SettleInv` says what is left afterwards, with the one exception
that do_munmap refuses (`Misaligned`, in a task that is killed), and `MapInv` that
they are clear of the program. Spaces mapped around an error code are not excepted:
a task reads its own pid there too, or is killed. `VtaskIsSound` puts `OwnPidIsRead` and `AreasAreExact` together, as
the run does. Assumed is `VdsoLayout`: sizes are numbers of pages, the pid lies
in the pages that hold the task_struct (`offsetof(pid)` does), no program has pages
below mmap_min_addr, below which [vtask] would fit, there are tasks and
address spaces, and the values that stand for nothing are no others.

**UnshareProofs.** `KindInv` says of fs_structs and files_structs that the counters
are the tasks, calls and outsiders that have the object, that a copy which is not
installed yet is nobody else's (`Apart`), and that whoever was told, *or is about
to be told*, that an object is its own is alone with it (`Claims`, `Alone`). The
second case is what makes `OwnIsOwn` inductive: unshare_fs and unshare_fd read the
counter without a lock, and between that and the return of the call nobody but the
task itself could share the object again. `TaskInv` has what a call holds at each
of its points. `SharingIsExact` and `OwnIsKept` follow, for any tasks and flags.
Assumed is `SharersSound`: finitely many tasks, and `NoObj` is no object.

**TaskLifeProofs.** For each task, every counter is the number of references that
are there (`RefInv`), free_thread_stack runs for who put the last of them
(`FreeInv`), and the task has a stack exactly while it builds, uses or frees one
(`HoldInv`); in addition a stack is in one place (`OwnInv`), a cached stack is
charged to nobody, a counted one is somebody's, nr_threads is the number of
hashed tasks, and the leader of every hashed task is hashed. `StacksAreExact` is `StacksExact` and `TasksAreExact` is `TasksExact`
for any number of tasks, CPUs, slots and stacks. The loop of nr_processes is a
recursive function; that it ends with the number of thread group leaders, threads not
counted, is carried by the invariant as a sequence of partial sums (`AddUpTo`), which
the fork of a process or the reaping of a leader on some CPU shifts from that CPU on, and which is unique by the least CPU where two could differ.
Assumed is `Sizes`: the sizes are positive, `MIN_THREADS` is at most
`MAX_THREADS`, and `NoStack` is no stack.

**Only model-checked.**

- Liveness (`CallsReturn`, `KvReturns`, `FlushReturns`, `FinalAnswer`,
  `Completes`) and what is said with ENABLED (`NcclSound`): the
  prover has no fairness and no ENABLED.
- What a fold computes over data, which needs induction: the words of a
  line (`PathParsed`).
- `InStep`, `ResultsCorrect` and `NoSpuriousFailure`, which
  compare the programs of two ranks position by position; the programs are
  concatenations whose lengths depend on the algorithm, the rank and the sizes.
- The violated properties, which are counterexamples.

## What the checks showed

Most properties hold as the code has them. Four statements of the repository do
not (`findings` in `PROJECT.json`):

- `ramfs_concurrent`: two flushes of one file share `.name.tmp`; one of them can
  rename it to the final name when the other has just emptied it, so that a successful
  flush of a file with a page leaves an empty one, and the final file is not updated
  atomically as the guide says.
- `ramfs_durable`: the data is synced but the directory is not, so a file that was
  saved successfully can be missing after a crash.
- `tcp_established`: with three ranks or more, a connection that is queued while
  another is being accepted is reset by closing the listening socket, and its
  rank believes it is connected.
- `vtask_child_pid`: the child of a process that has called
  `get_task_struct_info` reads its parent's task_struct, where the test of the
  exercise expects its own pid.

Some things are as they are, and the models have them: a process whose `kv_store`
could not be allocated starts with the locks of its parent and, using them, dies
with one of them held (`OrphansExplained` says that nothing else can do that),
and neither array is ever freed; `ramfs_bind` prints the bound string after the
unlock, when another bind may have freed it (`BindExact` excepts this read);
threads of one process see the task_struct of whichever faulted first
(`VtaskSound` speaks of processes of one thread); `vtask_len` is
added to the result of `get_unmapped_area` before it is checked (line 348), so an error
code becomes a small address, not at the start of a page, where the comment of line 343
promises free space: the areas are mapped around it, and those that a failing `map_vdso`
leaves behind, since do_munmap refuses the address, stay until the process, which execve
kills, is gone (`Misaligned`; `VtaskSound` says that they hide no page of the program and
that nobody reads a wrong pid there); replies of GPTfs may overtake each
other and mix the two files (`overtaken`, `crossed`); `unshare` keeps a new nsproxy that nobody puts when `set_cred_ucounts`
fails (`lostNs`); a rank of the NCCL benchmark that fails leaves the others
waiting; and the string for OemTableId ends in OemRevision, which is therefore 0.

Two comments promise what the code does not do, and the models follow the code.
`custom_tcpdump.h` (line 12) says that a timeout of 0 captures until the buffer is full:
the timeout is only the read timeout of `pcap_open_live`, and `pcap_loop` goes on with a
full buffer while `packet_handler` drops what comes (`PacketHandler`), until the limit of
packets or an interrupt ends it. `MyAcpiView` prints that a table has been modified
(line 127): the length of the copy is that of an empty table, so not a byte changes, and
the entry it is aimed at is the root pointer (`TableArrives` says that it is unchanged).

## Not modelled

- `file-nommu.c`, which is built only without an MMU, and `exit_ramfs_fs`, which
  never runs because ramfs is built in.
- `map_vdso_once`, `vdso_fix_landing` and the 32-bit image in `vma.c`.
- A sync directory that lies inside a ramfs, whose flush calls itself.
- CPUs and preemption: what a `kmalloc` that sleeps under a spinlock does.
- The socket limits: three fields that one call writes, copy_process resets and
  nothing reads.
- The exercises on mmap and extended attributes: a few system calls each, with
  no state of their own.
- `syscalls.h`, `unistd.h`, `sched.h` beyond the fields the models use:
  declarations, no state. Linker, boot and test scripts, tests.

## Plan

The components are modelled and their main results proved. What is left
to prove:

1. That no connection is lost between two ranks in `TcpConnect`.
2. The part of `NcclSound` without ENABLED: the ranks are never in two different
   collectives at one position.

The violation runs stay as long as the code does; runs of one module over the
same question are merged before new ones are added.
