----------------------------- MODULE RamfsSync -----------------------------
(***************************************************************************)
(* Persistence for ramfs: ramfs_bind and ramfs_file_flush of               *)
(* kvm/linux-5.15.178/fs/ramfs/inode.c, reached by fsync (file-mmu.c) and  *)
(* by writes to /proc/fs/ramfs/bind and sync.                              *)
(*                                                                         *)
(* A flush copies a ramfs file page by page into "dir/.name.tmp", syncs    *)
(* that file and renames it to "dir/name".  Only the last component of the *)
(* ramfs path is used, so the temporary and the final file belong to a     *)
(* name, not to a file.  Flushes run concurrently with each other, with    *)
(* writers of the files, with bind, with the writeback of the filesystem   *)
(* under the sync directory, and with a crash of the machine.              *)
(*                                                                         *)
(* A page is the number of the write that produced it; 0 is a hole.  The   *)
(* content of a disk inode carries a mark, whole: it is, page for page,    *)
(* what one flush copied from beginning to end.                            *)
(***************************************************************************)
EXTENDS Integers, Sequences, FiniteSets

CONSTANTS Files,      \* files of the ramfs
          Names,      \* last components of their paths
          NameOf,     \* [Files -> Names]
          Dirs,       \* directories that can be bound
          Flushers,   \* threads that call fsync or write to proc
          Jobs,       \* [Flushers -> SUBSET Files], what each one flushes
          Inodes,     \* inodes of the filesystem under the sync directories
          NoFile,     \* no file being flushed
          NoDir,      \* the NULL ramfs_sync_dir
          NoIno,      \* no directory entry
          MAXPAGES,   \* bound on the pages of a file
          MAXWRITES,  \* bound on the writes and truncations of files
          MAXCRASHES  \* bound on the crashes of the machine

ASSUME RamfsAssumption ==
  /\ NameOf \in [Files -> Names]
  /\ Jobs \in [Flushers -> SUBSET Files]
  /\ NoFile \notin Files
  /\ NoDir \notin Dirs
  /\ NoIno \notin Inodes
  /\ MAXPAGES \in Nat
  /\ MAXWRITES \in Nat
  /\ MAXCRASHES \in Nat

VARIABLES src,      \* src[f]: the pages of ramfs file f
          syncDir,  \* ramfs_sync_dir
          ent,      \* ent[s]: the inode of directory entry s, as the kernel sees it
          dent,     \* dent[s]: the same entry as it is on the disk
          data,     \* data[i]: the content of inode i in the page cache
          disk,     \* disk[i]: the content of inode i on the disk
          pc,       \* pc[w]: where flusher w is
          file, dir, ino, size, buf, old,  \* the locals of a flush
          copied,   \* copied[w]: the pages w has copied so far; pos is their number
          clean,    \* clean[w]: the file was not written since w began (history)
          saved,    \* saved[f]: what the last successful flush of f left (history)
          mixed,    \* final entries with overlapping flushes so far (history)
          writes, crashes  \* how many there were, for the bounds

appVars == <<src, writes>>
fsVars == <<ent, dent, data, disk>>
flushVars == <<pc, file, dir, ino, size, buf, old, copied, clean>>
vars == <<appVars, syncDir, fsVars, flushVars, saved, mixed, crashes>>

Slots == Dirs \X Names \X {"tmp", "final"}

\* Mutant: the final file looked for in the directory bound now.
FinalNow(w) == <<syncDir, NameOf[file[w]], "final">>

Tmp(w) == <<dir[w], NameOf[file[w]], "tmp">>
Final(w) == <<dir[w], NameOf[file[w]], "final">>
pos(w) == Len(copied[w])

Empty == [pages |-> <<>>, whole |-> FALSE]

\* Writing a page at the write position; a gap before it reads as a hole.
WriteAt(pages, p, page) ==
  [q \in 1 .. (IF p > Len(pages) THEN p ELSE Len(pages)) |->
     IF q = p THEN page ELSE IF q <= Len(pages) THEN pages[q] ELSE 0]

Init ==
  /\ src = [f \in Files |-> <<>>]
  /\ writes = 0 /\ crashes = 0
  /\ syncDir = NoDir
  /\ ent = [s \in Slots |-> NoIno] /\ dent = ent
  /\ data = [i \in Inodes |-> Empty] /\ disk = data
  /\ pc = [w \in Flushers |-> "idle"]
  /\ file = [w \in Flushers |-> NoFile]
  /\ dir = [w \in Flushers |-> NoDir]
  /\ ino = [w \in Flushers |-> NoIno]
  /\ size = [w \in Flushers |-> 0]
  /\ buf = [w \in Flushers |-> 0]
  /\ old = [w \in Flushers |-> NoIno]
  /\ copied = [w \in Flushers |-> <<>>]
  /\ clean = [w \in Flushers |-> FALSE]
  /\ saved = [f \in Files |-> [dir |-> NoDir, pages |-> <<>>, boot |-> 0]]
  /\ mixed = {}

-----------------------------------------------------------------------------
(***************************************************************************)
(* The applications: writing a page of a ramfs file, or shortening it.     *)
(***************************************************************************)
Touch(f, pages) ==
  /\ writes < MAXWRITES
  /\ writes' = writes + 1
  /\ src' = [src EXCEPT ![f] = pages]
  /\ clean' = [w \in Flushers |-> clean[w] /\ file[w] # f]
  /\ UNCHANGED <<syncDir, fsVars, pc, file, dir, ino, size, buf, old, copied, saved, mixed, crashes>>

WritePage(f) ==
  \E p \in 1 .. Len(src[f]) + 1 :
    p <= MAXPAGES /\ Touch(f, WriteAt(src[f], p, writes + 1))

Truncate(f) == src[f] # <<>> /\ Touch(f, SubSeq(src[f], 1, Len(src[f]) - 1))

\* ramfs_bind with a directory that passes its checks; one that does not, or
\* a failing kstrdup, changes nothing.
Bind(d) ==
  /\ syncDir' = d
  /\ UNCHANGED <<appVars, fsVars, flushVars, saved, mixed, crashes>>

-----------------------------------------------------------------------------
(***************************************************************************)
(* ramfs_file_flush, by flusher w.                                         *)
(***************************************************************************)
Goto(w, label) == pc' = [pc EXCEPT ![w] = label]

\* The end of a flush, by any of its returns: its locals are gone.
Return(w) ==
  /\ Goto(w, "idle")
  /\ file' = [file EXCEPT ![w] = NoFile]
  /\ dir' = [dir EXCEPT ![w] = NoDir]
  /\ ino' = [ino EXCEPT ![w] = NoIno]
  /\ size' = [size EXCEPT ![w] = 0]
  /\ buf' = [buf EXCEPT ![w] = 0]
  /\ old' = [old EXCEPT ![w] = NoIno]
  /\ copied' = [copied EXCEPT ![w] = <<>>]
  /\ clean' = [clean EXCEPT ![w] = FALSE]

Flush(w, f) ==
  /\ pc[w] = "idle"
  /\ file' = [file EXCEPT ![w] = f]
  /\ clean' = [clean EXCEPT ![w] = TRUE]
  /\ Goto(w, "copy_dir")
  /\ UNCHANGED <<appVars, syncDir, fsVars, dir, ino, size, buf, old, copied, saved, mixed, crashes>>

\* Nothing is bound: the flush succeeds, having done nothing.
Unbound(w) ==
  /\ pc[w] = "copy_dir"
  /\ syncDir = NoDir
  /\ Return(w)
  /\ UNCHANGED <<appVars, syncDir, fsVars, saved, mixed, crashes>>

\* Under the mutex, the directory is copied for the rest of the flush.
CopyDir(w) ==
  /\ pc[w] = "copy_dir"
  /\ syncDir # NoDir
  /\ dir' = [dir EXCEPT ![w] = syncDir]
  /\ Goto(w, "open_tmp")
  /\ UNCHANGED <<appVars, syncDir, fsVars, file, ino, size, buf, old, copied, clean, saved, mixed, crashes>>

Unused(i) ==
  /\ \A s \in Slots : ent[s] # i /\ dent[s] # i
  /\ \A w \in Flushers : ino[w] # i /\ old[w] # i

\* Another flush is between opening the same temporary file and its return.
Overlaps(w) ==
  \E u \in Flushers \ {w} :
    /\ pc[u] \in {"open_src", "read", "write", "lookup", "rename"}
    /\ Tmp(u) = Tmp(w)
Mix(w) == mixed' = IF Overlaps(w) THEN mixed \cup {Final(w)} ELSE mixed

\* O_CREAT | O_TRUNC, no temporary file: a new, empty one, in some free inode.
CreateTmp(w) ==
  /\ pc[w] = "open_tmp"
  /\ ent[Tmp(w)] = NoIno
  /\ \E i \in Inodes : Unused(i)
  /\ LET i == CHOOSE i \in Inodes : Unused(i)
     IN  /\ ent' = [ent EXCEPT ![Tmp(w)] = i]
         /\ ino' = [ino EXCEPT ![w] = i]
         /\ data' = [data EXCEPT ![i] = Empty]
         /\ disk' = [disk EXCEPT ![i] = Empty]
  /\ Mix(w)
  /\ Goto(w, "open_src")
  /\ UNCHANGED <<appVars, syncDir, dent, file, dir, size, buf, old, copied, clean, saved, crashes>>

\* The filesystem is full.
CreateFails(w) ==
  /\ pc[w] = "open_tmp"
  /\ ent[Tmp(w)] = NoIno
  /\ \A i \in Inodes : ~Unused(i)
  /\ Return(w)
  /\ UNCHANGED <<appVars, syncDir, fsVars, saved, mixed, crashes>>

\* Mutant: a temporary file left by a failed flush is not emptied.
ReuseTmp(w) ==
  /\ pc[w] = "open_tmp"
  /\ ent[Tmp(w)] # NoIno
  /\ ino' = [ino EXCEPT ![w] = ent[Tmp(w)]]
  /\ Mix(w)
  /\ Goto(w, "open_src")
  /\ UNCHANGED <<appVars, syncDir, fsVars, file, dir, size, buf, old, copied, clean, saved, crashes>>

\* O_CREAT | O_TRUNC, a temporary file is there: it is emptied and used.
TruncateTmp(w) ==
  /\ pc[w] = "open_tmp"
  /\ ent[Tmp(w)] # NoIno
  /\ ino' = [ino EXCEPT ![w] = ent[Tmp(w)]]
  /\ data' = [data EXCEPT ![ent[Tmp(w)]] = Empty]
  /\ Mix(w)
  /\ Goto(w, "open_src")
  /\ UNCHANGED <<appVars, syncDir, ent, dent, disk, file, dir, size, buf, old, copied, clean, saved, crashes>>

\* d_path and the source opened again by its path; its size is read once.
OpenSrc(w) ==
  /\ pc[w] = "open_src"
  /\ size' = [size EXCEPT ![w] = Len(src[file[w]])]
  /\ Goto(w, "read")
  /\ UNCHANGED <<appVars, syncDir, fsVars, file, dir, ino, buf, old, copied, clean, saved, mixed, crashes>>

\* There is a page to copy: below the size read before, and in the file now.
More(w) == pos(w) < size[w] /\ pos(w) < Len(src[file[w]])

ReadPage(w) ==
  /\ pc[w] = "read"
  /\ More(w)
  /\ buf' = [buf EXCEPT ![w] = src[file[w]][pos(w) + 1]]
  /\ Goto(w, "write")
  /\ UNCHANGED <<appVars, syncDir, fsVars, file, dir, ino, size, old, copied, clean, saved, mixed, crashes>>

\* Mutant: the position is not advanced after a write.
CopyPageStuck(w) ==
  /\ pc[w] = "write"
  /\ data' = [data EXCEPT ![ino[w]] =
       [pages |-> WriteAt(@.pages, pos(w) + 1, buf[w]), whole |-> FALSE]]
  /\ Goto(w, "read")
  /\ UNCHANGED <<appVars, syncDir, ent, dent, disk, file, dir, ino, size, buf, old, copied, clean, saved, mixed, crashes>>

CopyPage(w) ==
  /\ pc[w] = "write"
  /\ data' = [data EXCEPT ![ino[w]] =
       [pages |-> WriteAt(@.pages, pos(w) + 1, buf[w]), whole |-> FALSE]]
  /\ copied' = [copied EXCEPT ![w] = Append(@, buf[w])]
  /\ Goto(w, "read")
  /\ UNCHANGED <<appVars, syncDir, ent, dent, disk, file, dir, ino, size, buf, old, clean, saved, mixed, crashes>>

\* Mutant: the temporary file is renamed without having been synced.
NoFsync(w) ==
  /\ pc[w] = "read"
  /\ ~More(w)
  /\ data' = [data EXCEPT ![ino[w]] =
       [pages |-> @.pages, whole |-> data[ino[w]].pages = copied[w]]]
  /\ Goto(w, "lookup")
  /\ ino' = [ino EXCEPT ![w] = NoIno]
  /\ UNCHANGED <<appVars, syncDir, ent, dent, disk, file, dir, size, buf, old, copied, clean, saved, mixed, crashes>>

\* After the last page: vfs_fsync of the temporary file, and both are closed.
Fsync(w) ==
  /\ pc[w] = "read"
  /\ ~More(w)
  /\ LET content == [pages |-> data[ino[w]].pages, whole |-> data[ino[w]].pages = copied[w]]
     IN  /\ data' = [data EXCEPT ![ino[w]] = content]
         /\ disk' = [disk EXCEPT ![ino[w]] = content]
  /\ Goto(w, "lookup")
  /\ ino' = [ino EXCEPT ![w] = NoIno]
  /\ UNCHANGED <<appVars, syncDir, ent, dent, file, dir, size, buf, old, copied, clean, saved, mixed, crashes>>

\* kern_path of the temporary file.
LookupTmp(w) ==
  /\ pc[w] = "lookup"
  /\ ent[Tmp(w)] # NoIno
  /\ old' = [old EXCEPT ![w] = ent[Tmp(w)]]
  /\ Goto(w, "rename")
  /\ UNCHANGED <<appVars, syncDir, fsVars, file, dir, ino, size, buf, copied, clean, saved, mixed, crashes>>

(***************************************************************************)
(* vfs_rename, under the directory's lock.  When another flush has already *)
(* moved the inode to the final name, source and target are the same and   *)
(* there is nothing to do.                                                 *)
(***************************************************************************)
Rename(w) ==
  /\ pc[w] = "rename"
  /\ old[w] \in {ent[Tmp(w)], ent[Final(w)]}
  /\ ent' = IF old[w] = ent[Final(w)] THEN ent
            ELSE [ent EXCEPT ![Final(w)] = old[w], ![Tmp(w)] = NoIno]
  /\ saved' = [saved EXCEPT ![file[w]] =
       [dir |-> dir[w], pages |-> copied[w], boot |-> crashes]]
  /\ Goto(w, "ok")
  /\ UNCHANGED <<appVars, syncDir, dent, data, disk, file, dir, ino, size, buf, old, copied, clean, mixed, crashes>>

\* Another flush took the temporary file away: kern_path or vfs_rename fails.
TmpGone(w) ==
  /\ \/ pc[w] = "lookup" /\ ent[Tmp(w)] = NoIno
     \/ pc[w] = "rename" /\ old[w] \notin {ent[Tmp(w)], ent[Final(w)]}
  /\ Return(w)
  /\ UNCHANGED <<appVars, syncDir, fsVars, saved, mixed, crashes>>

Done(w) ==
  /\ pc[w] = "ok"
  /\ Return(w)
  /\ UNCHANGED <<appVars, syncDir, fsVars, saved, mixed, crashes>>

\* Mutants: a failing flush removes the temporary file, or the file filepath
\* names by then.
FailUnlinkTmp(w) ==
  /\ pc[w] \in {"open_src", "read", "write", "lookup", "rename"}
  /\ ent' = [ent EXCEPT ![Tmp(w)] = NoIno]
  /\ Return(w)
  /\ UNCHANGED <<appVars, syncDir, dent, data, disk, saved, mixed, crashes>>

FailUnlinkPath(w) ==
  /\ pc[w] \in {"lookup", "rename"}
  /\ ent' = [ent EXCEPT ![Final(w)] = NoIno]
  /\ Return(w)
  /\ UNCHANGED <<appVars, syncDir, dent, data, disk, saved, mixed, crashes>>

(***************************************************************************)
(* Any allocation, open, read, write, sync, lookup or rename can fail: the *)
(* flush closes its files, keeps the temporary one and returns the error.  *)
(***************************************************************************)
Fail(w) ==
  /\ pc[w] \in {"open_tmp", "open_src", "read", "write", "lookup", "rename"}
  /\ Return(w)
  /\ UNCHANGED <<appVars, syncDir, fsVars, saved, mixed, crashes>>

-----------------------------------------------------------------------------
(***************************************************************************)
(* The filesystem under the sync directories, and the machine.  What is on *)
(* the disk matters only to a crash, so it stands still after the last.    *)
(***************************************************************************)
\* A journal commit: the entries of a directory reach the disk together.
CommitDir(d) ==
  /\ crashes < MAXCRASHES
  /\ dent' = [s \in Slots |-> IF s[1] = d THEN ent[s] ELSE dent[s]]
  /\ dent' # dent
  /\ UNCHANGED <<appVars, syncDir, ent, data, disk, flushVars, saved, mixed, crashes>>

\* Background writeback of a file that was not synced.
Writeback(i) ==
  /\ crashes < MAXCRASHES
  /\ disk[i] # data[i]
  /\ disk' = [disk EXCEPT ![i] = data[i]]
  /\ UNCHANGED <<appVars, syncDir, ent, dent, data, flushVars, saved, mixed, crashes>>

\* A crash loses the ramfs, the binding, the flushes and what is not on disk.
Crash ==
  /\ crashes < MAXCRASHES
  /\ crashes' = crashes + 1
  /\ ent' = dent /\ data' = disk
  /\ src' = [f \in Files |-> <<>>]
  /\ syncDir' = NoDir
  /\ pc' = [w \in Flushers |-> "idle"]
  /\ file' = [w \in Flushers |-> NoFile]
  /\ dir' = [w \in Flushers |-> NoDir]
  /\ ino' = [w \in Flushers |-> NoIno]
  /\ size' = [w \in Flushers |-> 0]
  /\ buf' = [w \in Flushers |-> 0]
  /\ old' = [w \in Flushers |-> NoIno]
  /\ copied' = [w \in Flushers |-> <<>>]
  /\ clean' = [w \in Flushers |-> FALSE]
  /\ UNCHANGED <<dent, disk, writes, saved, mixed>>

-----------------------------------------------------------------------------
Step(w) ==
  \/ Unbound(w) \/ CopyDir(w)
  \/ CreateTmp(w) \/ CreateFails(w) \/ TruncateTmp(w) \/ OpenSrc(w)
  \/ ReadPage(w) \/ CopyPage(w) \/ Fsync(w)
  \/ LookupTmp(w) \/ Rename(w) \/ TmpGone(w) \/ Done(w)

Next ==
  \/ \E f \in Files : WritePage(f) \/ Truncate(f)
  \/ \E d \in Dirs : Bind(d) \/ CommitDir(d)
  \/ \E w \in Flushers : (\E f \in Jobs[w] : Flush(w, f)) \/ Step(w) \/ Fail(w)
  \/ \E i \in Inodes : Writeback(i)
  \/ Crash

Spec == Init /\ [][Next]_vars

\* A thread inside ramfs_file_flush keeps running.
FairSpec == Spec /\ \A w \in Flushers : WF_vars(Step(w))

-----------------------------------------------------------------------------
Content == [pages : Seq(Nat), whole : BOOLEAN]
Labels == {"idle", "copy_dir", "open_tmp", "open_src", "read", "write",
           "lookup", "rename", "ok"}

\* The type invariant of ramfs, of the disk and of the flushes in progress.
TypeOK ==
  /\ src \in [Files -> Seq(Nat)]
  /\ syncDir \in Dirs \cup {NoDir}
  /\ ent \in [Slots -> Inodes \cup {NoIno}]
  /\ dent \in [Slots -> Inodes \cup {NoIno}]
  /\ data \in [Inodes -> Content]
  /\ disk \in [Inodes -> Content]
  /\ pc \in [Flushers -> Labels]
  /\ file \in [Flushers -> Files \cup {NoFile}]
  /\ dir \in [Flushers -> Dirs \cup {NoDir}]
  /\ ino \in [Flushers -> Inodes \cup {NoIno}]
  /\ size \in [Flushers -> Nat]
  /\ buf \in [Flushers -> Nat]
  /\ old \in [Flushers -> Inodes \cup {NoIno}]
  /\ copied \in [Flushers -> Seq(Nat)]
  /\ clean \in [Flushers -> BOOLEAN]
  /\ saved \in [Files -> [dir : Dirs \cup {NoDir}, pages : Seq(Nat), boot : Nat]]
  /\ mixed \subseteq Slots
  /\ writes \in Nat
  /\ crashes \in Nat

FinalIsWhole(s) ==
  /\ ent[s] # NoIno => data[ent[s]].whole
  /\ dent[s] # NoIno => disk[dent[s]].whole
FinalSlots == {s \in Slots : s[3] = "final"}

\* The file under a final name is always one complete copy made by one flush,
\* in the running kernel and on the disk a crash would leave, as long as no
\* two flushes of the name overlap: the temporary file and the rename make the
\* update atomic.
FinalWhole == \A s \in FinalSlots \ mixed : FinalIsWhole(s)

\* The same however the flushes overlap, as the comment at the temporary path
\* of ramfs_file_flush has it: when a flush of a file that nobody wrote
\* meanwhile has renamed the temporary file, the final name has a complete
\* copy, or at least what is in the file.
FinalAtomic ==
  \A w \in Flushers : pc[w] = "ok" /\ clean[w] =>
    \/ FinalIsWhole(Final(w))
    \/ data[ent[Final(w)]].pages = src[file[w]]

\* A flush that succeeds leaves exactly the file under the final name of the
\* directory bound when it began, unless the file was written meanwhile.
FlushExact ==
  \A w \in Flushers : pc[w] = "ok" /\ clean[w] =>
    /\ ent[Final(w)] # NoIno
    /\ data[ent[Final(w)]].pages = src[file[w]]

KeptFrom(f) ==
  LET s == <<saved[f].dir, NameOf[f], "final">>
  IN  ent[s] # NoIno /\ data[ent[s]].pages = saved[f].pages

\* What a successful flush saved stays in the sync directory until the file is
\* flushed again or the machine crashes, whatever is bound and flushed in
\* between, as long as no two flushes of its name overlap.
SavedKept ==
  \A f \in Files :
    /\ saved[f].dir # NoDir /\ saved[f].boot = crashes
    /\ <<saved[f].dir, NameOf[f], "final">> \notin mixed
    => KeptFrom(f)

\* What a successful flush saved is still there after a crash.
SavedDurable == \A f \in Files : saved[f].dir # NoDir => KeptFrom(f)

\* Short of a crash, a file that has reached its final name is only ever
\* replaced: no step leaves the name without a file.
FinalNeverVanishes ==
  [][\A s \in Slots : s[3] = "final" /\ ent[s] # NoIno /\ crashes' = crashes
       => ent'[s] # NoIno]_vars

\* A flush that finds its temporary file taken away by another flush finds a
\* file under the final name: somebody's flush of the name succeeded.
LoserCovered ==
  \A w \in Flushers :
    \/ pc[w] = "lookup" /\ ent[Tmp(w)] = NoIno
    \/ pc[w] = "rename" /\ old[w] \notin {ent[Tmp(w)], ent[Final(w)]}
    => ent[Final(w)] # NoIno

\* Every flush returns, however much the file is written while it runs.
FlushReturns == \A w \in Flushers : pc[w] # "idle" ~> pc[w] = "idle"
=============================================================================
