-------------------------- MODULE RamfsSyncProofs ---------------------------
(***************************************************************************)
(* What the temporary file and the rename of ramfs_file_flush guarantee,   *)
(* for any files, directories, flushers and inodes, any pages and any      *)
(* number of writes and crashes.                                           *)
(*                                                                         *)
(* IInv is inductive.  An inode belongs to one name of one directory       *)
(* (OneHome), is under one entry at most (OneEntry), and one that is on    *)
(* the disk under a final name is never again under a temporary one        *)
(* (FinalsLeft), so a flush never writes to the file of a final name.      *)
(* Flushes of a name not in mixed are alone (Alone), so the temporary file *)
(* of such a flush holds what it copied (CopyInv), synced before it is     *)
(* renamed, and the inodes under the final name are complete (WholeInv).   *)
(***************************************************************************)
EXTENDS RamfsSync, SequenceTheorems, TLAPS

\* The temporary file is open; the flush is between its first and last step
\* on it; an inode is complete, in memory and on the disk.
Opened(w) == pc[w] \in {"open_src", "read", "write"}
Active(w) == pc[w] \in {"open_src", "read", "write", "lookup", "rename"}
WholeInode(i) == data[i].whole /\ disk[i].whole

\* The locals of a flush that are set, and the ones that are not yet.
LocalsOf(w) ==
  /\ pc[w] # "idle" => file[w] \in Files
  /\ pc[w] \notin {"idle", "copy_dir"} => dir[w] \in Dirs
  /\ Opened(w) <=> ino[w] # NoIno
  /\ pc[w] = "rename" => old[w] # NoIno
  /\ pc[w] \notin {"rename", "ok"} => old[w] = NoIno
  /\ pc[w] \in {"idle", "copy_dir", "open_tmp", "open_src"} => copied[w] = <<>>

\* So for every flush.
LocalsInv == \A w \in Flushers : LocalsOf(w)

\* Inode i is used for the name n of directory d.
UsedFor(i, d, n) ==
  \/ \E k \in {"tmp", "final"} : ent[<<d, n, k>>] = i \/ dent[<<d, n, k>>] = i
  \/ \E w \in Flushers : (ino[w] = i \/ old[w] = i) /\ dir[w] = d /\ NameOf[file[w]] = n

\* An inode is used for one name of one directory.
OneHome ==
  \A i \in Inodes, d, e \in Dirs, n, m \in Names :
    UsedFor(i, d, n) /\ UsedFor(i, e, m) => d = e /\ n = m

\* No inode has two entries, in memory or on the disk.
OneEntry ==
  \A s, t \in Slots :
    /\ ent[s] # NoIno /\ ent[s] = ent[t] => s = t
    /\ dent[s] # NoIno /\ dent[s] = dent[t] => s = t

\* The inode under a final name on the disk is under no temporary name.
FinalsLeft ==
  \A s, t \in Slots : s[3] = "final" /\ t[3] = "tmp" /\ dent[s] # NoIno => dent[s] # ent[t]

\* Two flushes of a name under way at once are recorded.
Alone ==
  \A u, w \in Flushers :
    Active(u) /\ Active(w) /\ Tmp(u) = Tmp(w) /\ u # w => Final(w) \in mixed

\* The temporary file of a flush that is alone is its own copy so far, and
\* complete, on the disk too, when the flush looks it up and renames it.
CopyOf(w) ==
  Active(w) /\ Final(w) \notin mixed =>
    /\ ent[Tmp(w)] # NoIno
    /\ data[ent[Tmp(w)]].pages = copied[w]
    /\ Opened(w) => ino[w] = ent[Tmp(w)]
    /\ pc[w] = "rename" => old[w] = ent[Tmp(w)]
    /\ pc[w] \in {"lookup", "rename"} => WholeInode(ent[Tmp(w)])

\* So for every flush.
CopyInv == \A w \in Flushers : CopyOf(w)

\* What is under a final name is complete.
WholeInv ==
  \A s \in FinalSlots \ mixed :
    /\ ent[s] # NoIno => WholeInode(ent[s])
    /\ dent[s] # NoIno => WholeInode(dent[s])

\* A temporary file is only ever taken away by a rename to the final name.
CoveredInv ==
  \A w \in Flushers :
    Active(w) => \/ ent[Final(w)] # NoIno
                 \/ ent[Tmp(w)] # NoIno /\ (pc[w] = "rename" => old[w] = ent[Tmp(w)])

\* The inductive invariant.
IInv ==
  /\ TypeOK /\ LocalsInv
  /\ OneHome /\ OneEntry /\ FinalsLeft
  /\ Alone /\ CopyInv /\ WholeInv /\ CoveredInv

-----------------------------------------------------------------------------
\* Writing a page of a file gives a sequence of pages.
LEMMA WriteAtType ==
  ASSUME NEW s \in Seq(Nat), NEW p \in Nat, NEW page \in Nat
  PROVE  WriteAt(s, p, page) \in Seq(Nat)
<1> DEFINE n == IF p > Len(s) THEN p ELSE Len(s)
           e(q) == IF q = p THEN page ELSE IF q <= Len(s) THEN s[q] ELSE 0
<1>1. n \in Nat /\ \A q \in 1 .. n : e(q) \in Nat
  OBVIOUS
<1>2. WriteAt(s, p, page) = [q \in 1 .. n |-> e(q)]
  BY DEF WriteAt
<1> HIDE DEF n, e
<1>3. [q \in 1 .. n |-> e(q)] \in [1 .. n -> Nat]
  BY <1>1
<1> QED
  BY <1>1, <1>2, <1>3, SeqDef

\* Writing the page after the last one appends it: this is why a copy that
\* nobody disturbs equals what was copied.
LEMMA WriteAtEnd ==
  ASSUME NEW s \in Seq(Nat), NEW page \in Nat
  PROVE  WriteAt(s, Len(s) + 1, page) = Append(s, page)
<1>1. /\ DOMAIN WriteAt(s, Len(s) + 1, page) = 1 .. Len(s) + 1
      /\ \A q \in 1 .. Len(s) + 1 : WriteAt(s, Len(s) + 1, page)[q] = IF q = Len(s) + 1 THEN page ELSE s[q]
  BY DEF WriteAt
<1>2. Len(Append(s, page)) = Len(s) + 1 /\ Append(s, page) \in Seq(Nat)
  OBVIOUS
<1>3. \A q \in 1 .. Len(s) + 1 : Append(s, page)[q] = IF q = Len(s) + 1 THEN page ELSE s[q]
  OBVIOUS
<1>4. WriteAt(s, Len(s) + 1, page) \in Seq(Nat)
  <2>1. Len(s) + 1 \in Nat
    OBVIOUS
  <2> QED
    BY <2>1, WriteAtType, Zenon
<1>5. Len(WriteAt(s, Len(s) + 1, page)) = Len(s) + 1
  BY <1>1, <1>4, LenProperties
<1> QED
  BY <1>1, <1>2, <1>3, <1>4, <1>5, SeqEqual

\* The parts of a directory entry.
LEMMA SlotFacts ==
  /\ \A d \in Dirs, n \in Names, k \in {"tmp", "final"} : <<d, n, k>> \in Slots
  /\ \A s \in Slots : /\ s[1] \in Dirs /\ s[2] \in Names /\ s[3] \in {"tmp", "final"}
                      /\ s = <<s[1], s[2], s[3]>>
  BY DEF Slots

\* The entries a flush uses, once it has copied the directory.
LEMMA FlushSlots ==
  ASSUME NEW w \in Flushers, file[w] \in Files, dir[w] \in Dirs
  PROVE  /\ Tmp(w) \in Slots /\ Final(w) \in Slots /\ Tmp(w) # Final(w)
         /\ NameOf[file[w]] \in Names
         /\ Tmp(w)[3] = "tmp" /\ Final(w)[3] = "final"
         /\ Final(w) \in FinalSlots
  BY SlotFacts, RamfsAssumption DEF Tmp, Final, FinalSlots

-----------------------------------------------------------------------------
(***************************************************************************)
(* The types, step by step.                                                *)
(***************************************************************************)
\* The machine before the first bind, with no file in any directory.
LEMMA InitTypes == Init => TypeOK
  BY EmptySeq DEF Init, TypeOK, Content, Empty, Labels

\* A return resets the locals of the flush.
LEMMA ReturnTypes ==
  ASSUME TypeOK, NEW w \in Flushers, Return(w),
         UNCHANGED <<appVars, syncDir, fsVars, saved, mixed, crashes>>
  PROVE  TypeOK'
  BY EmptySeq DEF TypeOK, Return, Goto, Labels, appVars, fsVars

\* The applications, bind, and the steps of a flush before the temporary file.
LEMMA QuietTypes ==
  ASSUME TypeOK, LocalsInv,
         \/ \E f \in Files : WritePage(f) \/ Truncate(f)
         \/ \E d \in Dirs : Bind(d)
         \/ \E w \in Flushers : \/ \E f \in Jobs[w] : Flush(w, f)
                                \/ CopyDir(w) \/ OpenSrc(w) \/ ReadPage(w)
  PROVE  TypeOK'
<1> USE DEF TypeOK, appVars, fsVars, flushVars, Goto, Labels
<1>1. ASSUME NEW f \in Files, WritePage(f) PROVE TypeOK'
  <2>1. PICK p \in 1 .. Len(src[f]) + 1 : Touch(f, WriteAt(src[f], p, writes + 1))
    BY <1>1 DEF WritePage
  <2>2. src[f] \in Seq(Nat) /\ p \in Nat /\ writes + 1 \in Nat
    OBVIOUS
  <2>3. WriteAt(src[f], p, writes + 1) \in Seq(Nat)
    BY <2>2, WriteAtType, Zenon
  <2>4. clean' \in [Flushers -> BOOLEAN]
    BY <2>1 DEF Touch
  <2> QED
    BY <2>1, <2>2, <2>3, <2>4 DEF Touch
<1>2. ASSUME NEW f \in Files, Truncate(f) PROVE TypeOK'
  <2>1. SubSeq(src[f], 1, Len(src[f]) - 1) \in Seq(Nat)
    OBVIOUS
  <2>2. clean' \in [Flushers -> BOOLEAN]
    BY <1>2 DEF Truncate, Touch
  <2> QED
    BY <1>2, <2>1, <2>2 DEF Truncate, Touch
<1>3. ASSUME NEW d \in Dirs, Bind(d) PROVE TypeOK'
  BY <1>3 DEF Bind
<1>4. ASSUME NEW w \in Flushers, NEW f \in Jobs[w], Flush(w, f) PROVE TypeOK'
  BY <1>4, RamfsAssumption DEF Flush
<1>5. ASSUME NEW w \in Flushers, CopyDir(w) PROVE TypeOK'
  BY <1>5 DEF CopyDir
<1>6. ASSUME NEW w \in Flushers, OpenSrc(w) PROVE TypeOK'
  BY <1>6 DEF OpenSrc, LocalsInv, LocalsOf
<1>7. ASSUME NEW w \in Flushers, ReadPage(w) PROVE TypeOK'
  <2>1. file[w] \in Files
    BY <1>7 DEF ReadPage, LocalsInv, LocalsOf
  <2>2. src[file[w]] \in Seq(Nat) /\ pos(w) \in Nat /\ pos(w) + 1 \in 1 .. Len(src[file[w]])
    BY <1>7, <2>1 DEF ReadPage, More, pos
  <2>3. src[file[w]][pos(w) + 1] \in Nat
    BY <2>2, ElementOfSeq
  <2> QED
    BY <1>7, <2>3 DEF ReadPage
<1> QED
  BY <1>1, <1>2, <1>3, <1>4, <1>5, <1>6, <1>7

\* The steps of a flush that change the filesystem under the sync directory.
LEMMA CopyTypes ==
  ASSUME TypeOK, LocalsInv, NEW w \in Flushers,
         \/ CreateTmp(w) \/ TruncateTmp(w) \/ CopyPage(w) \/ Fsync(w)
         \/ LookupTmp(w) \/ Rename(w)
  PROVE  TypeOK'
<1> USE DEF TypeOK, appVars, fsVars, Goto, Labels
<1>1. pc[w] \in {"open_tmp", "read", "write", "lookup", "rename"}
  BY DEF CreateTmp, TruncateTmp, CopyPage, Fsync, LookupTmp, Rename
<1>2. file[w] \in Files /\ dir[w] \in Dirs
  BY <1>1 DEF LocalsInv, LocalsOf
<1>3. Tmp(w) \in Slots /\ Final(w) \in Slots
  BY <1>2, FlushSlots
<1>4. Empty \in Content
  BY EmptySeq DEF Empty, Content
<1>5. ASSUME Mix(w) PROVE mixed' \subseteq Slots
  BY <1>3, <1>5 DEF Mix
<1>6. CASE CreateTmp(w)
  BY <1>3, <1>4, <1>5, <1>6 DEF CreateTmp
<1>7. CASE TruncateTmp(w)
  BY <1>3, <1>4, <1>5, <1>7 DEF TruncateTmp
<1>8. CASE CopyPage(w)
  <2>1. ino[w] \in Inodes /\ pos(w) + 1 \in Nat /\ buf[w] \in Nat /\ copied[w] \in Seq(Nat)
    BY <1>8 DEF CopyPage, LocalsInv, LocalsOf, Opened, pos
  <2>2. data[ino[w]].pages \in Seq(Nat)
    BY <2>1 DEF Content
  <2>3. WriteAt(data[ino[w]].pages, pos(w) + 1, buf[w]) \in Seq(Nat)
    BY <2>1, <2>2, WriteAtType, Zenon
  <2>4. data' \in [Inodes -> Content]
    BY <1>8, <2>1, <2>3 DEF CopyPage, Content
  <2>5. Append(copied[w], buf[w]) \in Seq(Nat)
    BY <2>1
  <2> QED
    BY <1>8, <2>4, <2>5 DEF CopyPage
<1>9. CASE Fsync(w)
  <2>1. ino[w] \in Inodes
    BY <1>9 DEF Fsync, LocalsInv, LocalsOf, Opened
  <2>2. [pages |-> data[ino[w]].pages, whole |-> data[ino[w]].pages = copied[w]] \in Content
    <3>1. data[ino[w]].pages \in Seq(Nat)
      BY <2>1 DEF Content
    <3>2. (data[ino[w]].pages = copied[w]) \in BOOLEAN
      OBVIOUS
    <3> QED
      BY <3>1, <3>2 DEF Content
  <2> QED
    BY <1>9, <2>1, <2>2 DEF Fsync
<1>10. CASE LookupTmp(w)
  BY <1>3, <1>10 DEF LookupTmp
<1>11. CASE Rename(w)
  <2>1. [dir |-> dir[w], pages |-> copied[w], boot |-> crashes]
           \in [dir : Dirs \cup {NoDir}, pages : Seq(Nat), boot : Nat]
    OBVIOUS
  <2> QED
    BY <1>2, <1>3, <1>11, <2>1 DEF Rename
<1> QED
  BY <1>6, <1>7, <1>8, <1>9, <1>10, <1>11

\* Writeback, journal commits and crashes.
LEMMA DiskTypes ==
  ASSUME TypeOK, (\E d \in Dirs : CommitDir(d)) \/ (\E i \in Inodes : Writeback(i)) \/ Crash
  PROVE  TypeOK'
<1> USE DEF TypeOK, appVars, fsVars, flushVars
<1>1. ASSUME NEW d \in Dirs, CommitDir(d) PROVE TypeOK'
  BY <1>1 DEF CommitDir
<1>2. ASSUME NEW i \in Inodes, Writeback(i) PROVE TypeOK'
  BY <1>2 DEF Writeback
<1>3. CASE Crash
  BY <1>3, EmptySeq DEF Crash, Labels
<1> QED
  BY <1>1, <1>2, <1>3

-----------------------------------------------------------------------------
(***************************************************************************)
(* Steps that leave the filesystem alone.                                  *)
(***************************************************************************)
\* A step that gives no inode to another name keeps every inode's home.
LEMMA HomeKept ==
  ASSUME OneHome,
         \A i \in Inodes, d \in Dirs, n \in Names : UsedFor(i, d, n)' => UsedFor(i, d, n)
  PROVE  OneHome'
  BY DEF OneHome

\* Flusher u is outside, or goes on with the same file, directory and inodes.
GoesOn(u) ==
  \/ ~Active(u)' /\ ino'[u] = NoIno /\ old'[u] = NoIno
  \/ /\ file'[u] = file[u] /\ dir'[u] = dir[u] /\ ino'[u] = ino[u]
     /\ old'[u] = old[u] /\ copied'[u] = copied[u]
     /\ pc'[u] = pc[u] \/ <<pc[u], pc'[u]>> \in {<<"open_src", "read">>, <<"read", "write">>}

\* A step after which every flusher goes on in that sense keeps the invariant.
LEMMA QuietKeeps ==
  ASSUME IInv, TypeOK', LocalsInv', UNCHANGED <<ent, dent, data, disk, mixed>>,
         \A u \in Flushers : GoesOn(u)
  PROVE  IInv'
<1>1. OneHome'
  <2>1. ASSUME NEW i \in Inodes, NEW d \in Dirs, NEW n \in Names, UsedFor(i, d, n)'
        PROVE  UsedFor(i, d, n)
    BY <2>1, RamfsAssumption DEF UsedFor, GoesOn
  <2> QED
    BY <2>1, HomeKept DEF IInv
<1>2. OneEntry' /\ FinalsLeft'
  BY DEF IInv, OneEntry, FinalsLeft
<1>3. ASSUME NEW u \in Flushers, Active(u)'
      PROVE  /\ Active(u) /\ Tmp(u)' = Tmp(u) /\ Final(u)' = Final(u)
             /\ copied'[u] = copied[u] /\ ino'[u] = ino[u] /\ old'[u] = old[u]
             /\ Opened(u)' <=> Opened(u)
             /\ pc'[u] \in {"lookup", "rename"} => pc'[u] = pc[u]
  BY <1>3 DEF GoesOn, Active, Opened, Tmp, Final
<1>4. Alone'
  BY <1>3 DEF IInv, Alone
<1>5. CopyInv'
  BY <1>3 DEF IInv, CopyInv, CopyOf, WholeInode
<1>6. WholeInv'
  BY DEF IInv, WholeInv, WholeInode
<1>7. CoveredInv'
  BY <1>3 DEF IInv, CoveredInv
<1> QED
  BY <1>1, <1>2, <1>4, <1>5, <1>6, <1>7 DEF IInv

\* A flush that returns, by whatever way.
LEMMA ReturnKeeps ==
  ASSUME IInv, NEW w \in Flushers, Return(w),
         UNCHANGED <<appVars, syncDir, fsVars, saved, mixed, crashes>>
  PROVE  IInv'
<1>1. TypeOK'
  BY ReturnTypes DEF IInv
<1>2. LocalsInv'
  BY DEF IInv, TypeOK, LocalsInv, LocalsOf, Return, Goto, Opened
<1>3. ASSUME NEW u \in Flushers PROVE GoesOn(u)
  BY DEF IInv, TypeOK, Return, Goto, GoesOn, Active
<1> QED
  BY <1>1, <1>2, <1>3, QuietKeeps DEF fsVars

\* The applications, bind, and the steps of a flush that only read.
LEMMA ReadingKeeps ==
  ASSUME IInv,
         \/ \E f \in Files : WritePage(f) \/ Truncate(f)
         \/ \E d \in Dirs : Bind(d)
         \/ \E w \in Flushers : \/ \E f \in Jobs[w] : Flush(w, f)
                                \/ CopyDir(w) \/ OpenSrc(w) \/ ReadPage(w)
  PROVE  IInv'
<1> USE DEF IInv, appVars, fsVars, flushVars
<1>1. TypeOK'
  BY QuietTypes
<1>2. ASSUME UNCHANGED <<ent, dent, data, disk, mixed, pc, file, dir, ino, old, copied>>
      PROVE  IInv'
  <2>1. LocalsInv'
    BY <1>2 DEF LocalsInv, LocalsOf, Opened
  <2>2. \A u \in Flushers : GoesOn(u)
    BY <1>2 DEF GoesOn
  <2> QED
    BY <1>1, <1>2, <2>1, <2>2, QuietKeeps
<1>3. ASSUME NEW f \in Files, WritePage(f) \/ Truncate(f) PROVE IInv'
  BY <1>2, <1>3 DEF WritePage, Truncate, Touch
<1>4. ASSUME NEW d \in Dirs, Bind(d) PROVE IInv'
  BY <1>2, <1>4 DEF Bind
<1>5. ASSUME NEW w \in Flushers, NEW f \in Jobs[w], Flush(w, f) PROVE IInv'
  <2>1. LocalsInv'
    BY <1>5, RamfsAssumption DEF Flush, Goto, TypeOK, LocalsInv, LocalsOf, Opened
  <2>2. ASSUME NEW u \in Flushers PROVE GoesOn(u)
    BY <1>5 DEF Flush, Goto, TypeOK, LocalsInv, LocalsOf, Opened, Active, GoesOn
  <2> QED
    BY <1>1, <1>5, <2>1, <2>2, QuietKeeps DEF Flush
<1>6. ASSUME NEW w \in Flushers, CopyDir(w) PROVE IInv'
  <2>1. LocalsInv'
    BY <1>6 DEF CopyDir, Goto, TypeOK, LocalsInv, LocalsOf, Opened
  <2>2. ASSUME NEW u \in Flushers PROVE GoesOn(u)
    BY <1>6 DEF CopyDir, Goto, TypeOK, LocalsInv, LocalsOf, Opened, Active, GoesOn
  <2> QED
    BY <1>1, <1>6, <2>1, <2>2, QuietKeeps DEF CopyDir
<1>7. ASSUME NEW w \in Flushers, OpenSrc(w) \/ ReadPage(w) PROVE IInv'
  <2>1. LocalsInv'
    BY <1>7 DEF OpenSrc, ReadPage, Goto, TypeOK, LocalsInv, LocalsOf, Opened
  <2>2. ASSUME NEW u \in Flushers PROVE GoesOn(u)
    BY <1>7 DEF OpenSrc, ReadPage, Goto, TypeOK, GoesOn
  <2> QED
    BY <1>1, <1>7, <2>1, <2>2, QuietKeeps DEF OpenSrc, ReadPage
<1> QED
  BY <1>3, <1>4, <1>5, <1>6, <1>7

-----------------------------------------------------------------------------
(***************************************************************************)
(* Steps of a flush that change the filesystem.                            *)
(***************************************************************************)
\* An inode under an entry and held by a flush is under an entry of that flush.
LEMMA HeldIsOwn ==
  ASSUME IInv, NEW w \in Flushers, file[w] \in Files, dir[w] \in Dirs,
         NEW i \in Inodes, ino[w] = i \/ old[w] = i,
         NEW s \in Slots, ent[s] = i \/ dent[s] = i
  PROVE  s[1] = dir[w] /\ s[2] = NameOf[file[w]]
<1>1. UsedFor(i, dir[w], NameOf[file[w]])
  BY DEF UsedFor
<1>2. UsedFor(i, s[1], s[2])
  BY SlotFacts DEF UsedFor
<1> QED
  BY <1>1, <1>2, SlotFacts, FlushSlots DEF IInv, OneHome

\* Flushes with the same temporary entry have the same final one.
LEMMA SameSlots ==
  ASSUME NEW u \in Flushers, NEW w \in Flushers
  PROVE  Tmp(u) = Tmp(w) <=> Final(u) = Final(w)
  BY DEF Tmp, Final

\* What a flush writes to is neither the file of a final name nor the
\* temporary file of another flush, where the name is not in mixed.
LEMMA WritesOwnCopy ==
  ASSUME IInv, NEW w \in Flushers, Opened(w)
  PROVE  /\ \A s \in FinalSlots \ mixed : ent[s] # ino[w] /\ dent[s] # ino[w]
         /\ \A u \in Flushers \ {w} : Active(u) /\ Final(u) \notin mixed => ent[Tmp(u)] # ino[w]
<1>1. /\ file[w] \in Files /\ dir[w] \in Dirs /\ ino[w] \in Inodes /\ ino[w] # NoIno
      /\ Active(w)
  BY DEF IInv, TypeOK, LocalsInv, LocalsOf, Opened, Active
<1>2. Tmp(w) \in Slots /\ Tmp(w)[3] = "tmp"
  BY <1>1, FlushSlots
<1>3. ASSUME NEW s \in FinalSlots \ mixed, ent[s] = ino[w] \/ dent[s] = ino[w] PROVE FALSE
  <2>1. s \in Slots /\ s[3] = "final"
    BY <1>3 DEF FinalSlots
  <2>2. s = Final(w)
    BY <1>1, <1>3, <2>1, HeldIsOwn, SlotFacts DEF Final
  <2>3. ino[w] = ent[Tmp(w)]
    BY <1>1, <1>3, <2>2 DEF IInv, CopyInv, CopyOf
  <2> QED
    BY <1>1, <1>2, <1>3, <2>1, <2>3 DEF IInv, OneEntry, FinalsLeft
<1>4. ASSUME NEW u \in Flushers \ {w}, Active(u), Final(u) \notin mixed, ent[Tmp(u)] = ino[w]
      PROVE  FALSE
  <2>1. file[u] \in Files /\ dir[u] \in Dirs
    BY <1>4 DEF IInv, LocalsInv, LocalsOf, Active
  <2>2. Tmp(u) \in Slots
    BY <2>1, FlushSlots
  <2>3. Tmp(u) = Tmp(w)
    BY <1>1, <1>4, <2>2, HeldIsOwn DEF Tmp
  <2> QED
    BY <1>1, <1>4, <2>3, SameSlots DEF IInv, Alone
<1> QED
  BY <1>3, <1>4

\* What the steps of w leave to the other flushers.
Others(w) ==
  \A u \in Flushers \ {w} :
    /\ pc'[u] = pc[u] /\ file'[u] = file[u] /\ dir'[u] = dir[u] /\ ino'[u] = ino[u]
    /\ old'[u] = old[u] /\ copied'[u] = copied[u]

\* Neither do the names and stages of the other flushers change.
LEMMA OthersFacts ==
  ASSUME NEW w \in Flushers, Others(w), NEW u \in Flushers \ {w}
  PROVE  /\ Tmp(u)' = Tmp(u) /\ Final(u)' = Final(u)
         /\ Active(u)' <=> Active(u)
         /\ Opened(u)' <=> Opened(u)
  BY DEF Others, Tmp, Final, Active, Opened

\* The locals of the others stay in order.
LEMMA LocalsKept ==
  ASSUME IInv, NEW w \in Flushers, Others(w), LocalsOf(w)'
  PROVE  LocalsInv'
<1>1. ASSUME NEW u \in Flushers \ {w} PROVE LocalsOf(u)'
  BY OthersFacts DEF IInv, LocalsInv, LocalsOf, Others
<1> QED
  BY <1>1 DEF LocalsInv

\* A flush that finds its temporary entry used or free, and what it needs there.
LEMMA OpeningFacts ==
  ASSUME IInv, NEW w \in Flushers, pc[w] = "open_tmp"
  PROVE  /\ file[w] \in Files /\ dir[w] \in Dirs /\ NameOf[file[w]] \in Names
         /\ Tmp(w) \in Slots /\ Final(w) \in Slots /\ Tmp(w) # Final(w) /\ Tmp(w)[3] = "tmp"
         /\ ino[w] = NoIno /\ old[w] = NoIno /\ copied[w] = <<>>
  BY FlushSlots DEF IInv, LocalsInv, LocalsOf, Opened

\* A flush that opens the temporary file of another one records it.
LEMMA OpeningAlone ==
  ASSUME IInv, NEW w \in Flushers, pc[w] = "open_tmp", Mix(w), Others(w),
         file'[w] = file[w], dir'[w] = dir[w], pc'[w] = "open_src"
  PROVE  /\ Alone'
         /\ \A u \in Flushers \ {w} : Active(u) /\ Final(u) \notin mixed' => Tmp(u) # Tmp(w)
         /\ mixed \subseteq mixed'
<1>1. Tmp(w)' = Tmp(w) /\ Final(w)' = Final(w)
  BY DEF Tmp, Final
<1>2. mixed \subseteq mixed'
  BY DEF Mix
<1>3. ASSUME NEW u \in Flushers \ {w}, Active(u), Tmp(u) = Tmp(w)
      PROVE  Final(w) \in mixed' /\ Final(u) \in mixed'
  BY <1>3, SameSlots DEF Mix, Overlaps, Active
<1>4. Alone'
  BY <1>1, <1>2, <1>3, OthersFacts DEF IInv, Alone
<1> QED
  BY <1>2, <1>3, <1>4

\* The free inode becomes the temporary file of w and of nobody else.
LEMMA CreateTmpKeeps ==
  ASSUME IInv, NEW w \in Flushers, CreateTmp(w)
  PROVE  IInv'
<1> USE DEF Goto
<1>1. TypeOK'
  BY CopyTypes DEF IInv
<1>2. PICK i \in Inodes :
        /\ Unused(i)
        /\ ent' = [ent EXCEPT ![Tmp(w)] = i]
        /\ ino' = [ino EXCEPT ![w] = i]
        /\ data' = [data EXCEPT ![i] = Empty]
        /\ disk' = [disk EXCEPT ![i] = Empty]
  BY DEF CreateTmp
<1>3. /\ pc[w] = "open_tmp" /\ ent[Tmp(w)] = NoIno /\ Mix(w) /\ Others(w)
      /\ file' = file /\ dir' = dir /\ old' = old /\ copied' = copied /\ dent' = dent
      /\ pc' = [pc EXCEPT ![w] = "open_src"]
      /\ Tmp(w)' = Tmp(w) /\ Final(w)' = Final(w)
  BY <1>2 DEF CreateTmp, Others, IInv, TypeOK, Tmp, Final
<1>4. i # NoIno
  BY RamfsAssumption
<1>5. pc'[w] = "open_src" /\ ino'[w] = i
  BY <1>2, <1>3 DEF IInv, TypeOK
<1>6. LocalsInv'
  BY <1>3, <1>4, <1>5, OpeningFacts, LocalsKept DEF LocalsOf, Opened
<1>7. OneHome'
  <2>1. ASSUME NEW j \in Inodes, NEW d \in Dirs, NEW n \in Names, UsedFor(j, d, n)', j # i
        PROVE  UsedFor(j, d, n)
    BY <1>2, <1>3, <2>1, OpeningFacts, SlotFacts DEF IInv, TypeOK, UsedFor
  <2>2. ASSUME NEW d \in Dirs, NEW n \in Names, UsedFor(i, d, n)'
        PROVE  d = dir[w] /\ n = NameOf[file[w]]
    BY <1>2, <1>3, <2>2, OpeningFacts, SlotFacts DEF IInv, TypeOK, UsedFor, Unused, Tmp
  <2> QED
    BY <2>1, <2>2 DEF IInv, OneHome
<1>8. OneEntry'
  BY <1>2, <1>3, OpeningFacts DEF IInv, TypeOK, OneEntry, Unused
<1>9. FinalsLeft'
  BY <1>2, <1>3, OpeningFacts DEF IInv, TypeOK, FinalsLeft, Unused
<1>10. Alone'
  BY <1>3, <1>5, OpeningAlone
<1>11. ASSUME NEW u \in Flushers \ {w}, Active(u), Tmp(u) # Tmp(w)
       PROVE  ent'[Tmp(u)] = ent[Tmp(u)] /\ ent[Tmp(u)] # i
  <2>1. Tmp(u) \in Slots
    BY <1>11, FlushSlots DEF IInv, LocalsInv, LocalsOf, Active
  <2> QED
    BY <1>2, <1>11, <2>1 DEF IInv, TypeOK, Unused
<1>12. CopyInv'
  <2>1. ASSUME NEW u \in Flushers \ {w}, Active(u)', Final(u)' \notin mixed'
        PROVE  /\ Active(u) /\ Final(u) \notin mixed /\ Tmp(u)' = Tmp(u)
               /\ ent'[Tmp(u)] = ent[Tmp(u)] /\ ent[Tmp(u)] \in Inodes /\ ent[Tmp(u)] # i
    <3>1. Active(u) /\ Final(u) \notin mixed /\ Tmp(u) # Tmp(w)
      BY <1>3, <1>5, <2>1, OthersFacts, OpeningAlone
    <3>2. ent[Tmp(u)] \in Inodes
      BY <3>1, FlushSlots DEF IInv, CopyInv, CopyOf, TypeOK, LocalsInv, LocalsOf, Active
    <3> QED
      BY <1>3, <1>11, <3>1, <3>2, OthersFacts
  <2>2. ASSUME NEW u \in Flushers \ {w}, Active(u)', Final(u)' \notin mixed'
        PROVE  /\ data'[ent'[Tmp(u)']] = data[ent[Tmp(u)]]
               /\ disk'[ent'[Tmp(u)']] = disk[ent[Tmp(u)]]
    BY <1>2, <2>1, <2>2 DEF IInv, TypeOK
  <2>3. ent'[Tmp(w)'] = i /\ data'[i] = Empty
    BY <1>2, <1>3, OpeningFacts DEF IInv, TypeOK
  <2>4. Empty.pages = copied'[w]
    BY <1>3, OpeningFacts DEF Empty
  <2> QED
    BY <1>3, <1>4, <1>5, <2>1, <2>2, <2>3, <2>4, OthersFacts
    DEF IInv, CopyInv, CopyOf, WholeInode, Opened, Others
<1>13. WholeInv'
  <2>1. ASSUME NEW s \in FinalSlots \ mixed'
        PROVE  s \in FinalSlots \ mixed /\ ent'[s] = ent[s] /\ ent[s] # i /\ dent[s] # i
    BY <1>2, <1>3, <1>5, OpeningFacts, OpeningAlone DEF FinalSlots, Unused, IInv, TypeOK
  <2>2. ASSUME NEW j \in Inodes, j # i PROVE data'[j] = data[j] /\ disk'[j] = disk[j]
    BY <1>2, <2>2 DEF IInv, TypeOK
  <2>3. ASSUME NEW s \in FinalSlots
        PROVE  ent[s] \in Inodes \cup {NoIno} /\ dent[s] \in Inodes \cup {NoIno}
    BY DEF FinalSlots, IInv, TypeOK
  <2> QED
    BY <1>3, <2>1, <2>2, <2>3 DEF IInv, WholeInv, WholeInode, FinalSlots
<1>14. CoveredInv'
  <2>1. ASSUME NEW u \in Flushers \ {w}, Active(u)'
        PROVE  /\ Active(u) /\ Tmp(u)' = Tmp(u) /\ Final(u)' = Final(u)
               /\ Tmp(u) \in Slots /\ Final(u) \in Slots
               /\ pc'[u] = pc[u] /\ old'[u] = old[u]
               /\ pc[u] = "rename" => old[u] # NoIno
    BY <1>3, <2>1, OthersFacts, FlushSlots DEF IInv, LocalsInv, LocalsOf, Active, Others
  <2> QED
    BY <1>2, <1>3, <1>4, <1>5, <2>1, OpeningFacts DEF IInv, TypeOK, CoveredInv
<1> QED
  BY <1>1, <1>6, <1>7, <1>8, <1>9, <1>10, <1>12, <1>13, <1>14 DEF IInv

\* Emptying the temporary file disturbs neither a final name nor another flush.
LEMMA TruncateTmpKeeps ==
  ASSUME IInv, NEW w \in Flushers, TruncateTmp(w)
  PROVE  IInv'
<1> DEFINE i == ent[Tmp(w)]
<1>1. TypeOK'
  BY CopyTypes DEF IInv
<1>2. i \in Inodes /\ i # NoIno
  BY OpeningFacts DEF TruncateTmp, IInv, TypeOK
<1>3. /\ pc[w] = "open_tmp" /\ Mix(w) /\ Others(w)
      /\ ino' = [ino EXCEPT ![w] = i] /\ data' = [data EXCEPT ![i] = Empty]
      /\ file' = file /\ dir' = dir /\ old' = old /\ copied' = copied
      /\ ent' = ent /\ dent' = dent /\ disk' = disk
      /\ Tmp(w)' = Tmp(w) /\ Final(w)' = Final(w)
  BY DEF TruncateTmp, Others, Goto, IInv, TypeOK, Tmp, Final
<1>4. pc'[w] = "open_src" /\ ino'[w] = i
  BY <1>3 DEF TruncateTmp, Goto, IInv, TypeOK
<1>5. LocalsInv'
  BY <1>2, <1>3, <1>4, OpeningFacts, LocalsKept DEF LocalsOf, Opened
<1>6. OneHome'
  <2>1. ASSUME NEW j \in Inodes, NEW d \in Dirs, NEW n \in Names, UsedFor(j, d, n)'
        PROVE  UsedFor(j, d, n)
    BY <1>2, <1>3, <2>1, OpeningFacts DEF IInv, TypeOK, UsedFor, Tmp
  <2> QED
    BY <2>1, HomeKept DEF IInv
<1>7. OneEntry' /\ FinalsLeft'
  BY <1>3 DEF IInv, OneEntry, FinalsLeft
<1>8. Alone'
  BY <1>3, <1>4, OpeningAlone
<1>9. CopyInv'
  <2>1. ASSUME NEW u \in Flushers \ {w}, Active(u)', Final(u)' \notin mixed'
        PROVE  /\ Active(u) /\ Final(u) \notin mixed /\ Tmp(u)' = Tmp(u)
               /\ ent[Tmp(u)] \in Inodes /\ ent[Tmp(u)] # i
    <3>1. Active(u) /\ Final(u) \notin mixed /\ Tmp(u) # Tmp(w)
      BY <1>3, <1>4, <2>1, OthersFacts, OpeningAlone
    <3>2. Tmp(u) \in Slots /\ ent[Tmp(u)] \in Inodes
      BY <3>1, FlushSlots DEF IInv, CopyInv, CopyOf, TypeOK, LocalsInv, LocalsOf, Active
    <3> QED
      BY <1>2, <1>3, <3>1, <3>2, OthersFacts, OpeningFacts DEF IInv, OneEntry
  <2>2. ASSUME NEW u \in Flushers \ {w}, Active(u)', Final(u)' \notin mixed'
        PROVE  data'[ent'[Tmp(u)']] = data[ent[Tmp(u)]] /\ ent'[Tmp(u)'] = ent[Tmp(u)]
    BY <1>3, <2>1, <2>2 DEF IInv, TypeOK
  <2>3. ent'[Tmp(w)'] = i /\ data'[i] = Empty
    BY <1>2, <1>3 DEF IInv, TypeOK
  <2>4. Empty.pages = copied'[w]
    BY <1>3, OpeningFacts DEF Empty
  <2> QED
    BY <1>2, <1>3, <1>4, <2>1, <2>2, <2>3, <2>4, OthersFacts
    DEF IInv, CopyInv, CopyOf, WholeInode, Opened, Others
<1>10. WholeInv'
  <2>1. ASSUME NEW s \in FinalSlots \ mixed'
        PROVE  /\ s \in FinalSlots \ mixed /\ s \in Slots
               /\ ent[s] # NoIno => ent[s] # i
               /\ dent[s] # NoIno => dent[s] # i
    BY <1>3, <1>4, OpeningFacts, OpeningAlone DEF FinalSlots, IInv, OneEntry, FinalsLeft
  <2>2. ASSUME NEW j \in Inodes, j # i PROVE data'[j] = data[j]
    BY <1>3, <2>2 DEF IInv, TypeOK
  <2>3. ASSUME NEW s \in Slots
        PROVE  ent[s] \in Inodes \cup {NoIno} /\ dent[s] \in Inodes \cup {NoIno}
    BY DEF IInv, TypeOK
  <2> QED
    BY <1>3, <2>1, <2>2, <2>3 DEF IInv, WholeInv, WholeInode
<1>11. CoveredInv'
  BY <1>2, <1>3, <1>4, OthersFacts DEF IInv, CoveredInv, Others
<1> QED
  BY <1>1, <1>5, <1>6, <1>7, <1>8, <1>9, <1>10, <1>11 DEF IInv

\* The state of a flush that is copying.
LEMMA CopyingFacts ==
  ASSUME IInv, NEW w \in Flushers, Opened(w)
  PROVE  /\ Active(w) /\ file[w] \in Files /\ dir[w] \in Dirs
         /\ Tmp(w) \in Slots /\ Final(w) \in Slots
         /\ ino[w] \in Inodes /\ ino[w] # NoIno /\ old[w] = NoIno
         /\ data[ino[w]].pages \in Seq(Nat) /\ copied[w] \in Seq(Nat)
  BY FlushSlots DEF IInv, TypeOK, Content, LocalsInv, LocalsOf, Active, Opened

\* A page more in the temporary file and in what was copied.
LEMMA CopyPageKeeps ==
  ASSUME IInv, NEW w \in Flushers, CopyPage(w)
  PROVE  IInv'
<1> DEFINE i == ino[w]
<1>1. TypeOK'
  BY CopyTypes DEF IInv
<1>2. /\ pc[w] = "write" /\ Opened(w) /\ Others(w)
      /\ ino' = ino /\ file' = file /\ dir' = dir /\ old' = old /\ mixed' = mixed
      /\ ent' = ent /\ dent' = dent /\ disk' = disk
      /\ Tmp(w)' = Tmp(w) /\ Final(w)' = Final(w)
  BY DEF CopyPage, Others, Goto, IInv, TypeOK, Tmp, Final, Opened
<1>3. pc'[w] = "read" /\ copied'[w] = Append(copied[w], buf[w])
  BY DEF CopyPage, Goto, IInv, TypeOK
<1>4. LocalsInv'
  BY <1>2, <1>3, CopyingFacts, LocalsKept DEF LocalsOf, Opened
<1>5. OneHome'
  BY <1>2 DEF IInv, OneHome, UsedFor
<1>6. OneEntry' /\ FinalsLeft'
  BY <1>2 DEF IInv, OneEntry, FinalsLeft
<1>7. Alone'
  BY <1>2, OthersFacts, CopyingFacts DEF IInv, Alone
<1>8. ASSUME NEW j \in Inodes, j # i PROVE data'[j] = data[j]
  BY <1>8 DEF CopyPage, IInv, TypeOK
<1>9. CopyInv'
  <2>1. ASSUME NEW u \in Flushers \ {w}, Active(u)', Final(u)' \notin mixed'
        PROVE  /\ Active(u) /\ Final(u) \notin mixed /\ Tmp(u)' = Tmp(u)
               /\ data'[ent[Tmp(u)]] = data[ent[Tmp(u)]]
    <3>1. Active(u) /\ Final(u) \notin mixed /\ ent[Tmp(u)] # i
      BY <1>2, <2>1, OthersFacts, WritesOwnCopy
    <3>2. ent[Tmp(u)] \in Inodes
      BY <3>1, FlushSlots DEF IInv, CopyInv, CopyOf, TypeOK, LocalsInv, LocalsOf, Active
    <3> QED
      BY <1>2, <1>8, <3>1, <3>2, OthersFacts
  <2>2. ASSUME Final(w) \notin mixed
        PROVE  ent[Tmp(w)] = i /\ data'[i].pages = copied'[w]
    <3>1. ent[Tmp(w)] = i /\ data[i].pages = copied[w]
      BY <1>2, <2>2, CopyingFacts DEF IInv, CopyInv, CopyOf
    <3>2. data'[i].pages = WriteAt(copied[w], Len(copied[w]) + 1, buf[w])
      BY <1>2, <3>1, CopyingFacts DEF CopyPage, IInv, TypeOK, pos
    <3>3. buf[w] \in Nat /\ copied[w] \in Seq(Nat)
      BY DEF IInv, TypeOK
    <3> QED
      BY <1>3, <3>1, <3>2, <3>3, WriteAtEnd
  <2>3. ASSUME NEW u \in Flushers \ {w} PROVE CopyOf(u)'
    BY <1>2, <2>1, OthersFacts DEF IInv, CopyInv, CopyOf, WholeInode, Others
  <2>4. CopyOf(w)'
    BY <1>2, <1>3, <2>2, CopyingFacts DEF CopyOf, WholeInode, Opened
  <2> QED
    BY <2>3, <2>4 DEF CopyInv
<1>10. WholeInv'
  <2>1. ASSUME NEW s \in FinalSlots
        PROVE  ent[s] \in Inodes \cup {NoIno} /\ dent[s] \in Inodes \cup {NoIno}
    BY DEF FinalSlots, IInv, TypeOK
  <2> QED
    BY <1>2, <1>8, <2>1, WritesOwnCopy DEF IInv, WholeInv, WholeInode
<1>11. CoveredInv'
  BY <1>2, <1>3, OthersFacts, CopyingFacts DEF IInv, CoveredInv, Others, Opened
<1> QED
  BY <1>1, <1>4, <1>5, <1>6, <1>7, <1>9, <1>10, <1>11 DEF IInv

\* The sync makes the copy of a flush that is alone complete, on the disk too.
LEMMA FsyncKeeps ==
  ASSUME IInv, NEW w \in Flushers, Fsync(w)
  PROVE  IInv'
<1> DEFINE i == ino[w]
           content == [pages |-> data[i].pages, whole |-> data[i].pages = copied[w]]
<1>1. TypeOK'
  BY CopyTypes DEF IInv
<1>2. /\ pc[w] = "read" /\ Opened(w) /\ Others(w)
      /\ file' = file /\ dir' = dir /\ old' = old /\ mixed' = mixed /\ copied' = copied
      /\ ent' = ent /\ dent' = dent
      /\ ino' = [ino EXCEPT ![w] = NoIno]
      /\ Tmp(w)' = Tmp(w) /\ Final(w)' = Final(w)
  BY DEF Fsync, Others, Goto, IInv, TypeOK, Tmp, Final, Opened
<1>3. pc'[w] = "lookup" /\ ino'[w] = NoIno
  BY DEF Fsync, Goto, IInv, TypeOK
<1>4. LocalsInv'
  BY <1>2, <1>3, CopyingFacts, LocalsKept DEF LocalsOf, Opened
<1>5. OneHome'
  <2>1. ASSUME NEW j \in Inodes, NEW d \in Dirs, NEW n \in Names, UsedFor(j, d, n)'
        PROVE  UsedFor(j, d, n)
    BY <1>2, <2>1, RamfsAssumption DEF IInv, TypeOK, UsedFor
  <2> QED
    BY <2>1, HomeKept DEF IInv
<1>6. OneEntry' /\ FinalsLeft'
  BY <1>2 DEF IInv, OneEntry, FinalsLeft
<1>7. Alone'
  BY <1>2, OthersFacts, CopyingFacts DEF IInv, Alone
<1>8. ASSUME NEW j \in Inodes, j # i PROVE data'[j] = data[j] /\ disk'[j] = disk[j]
  BY <1>8 DEF Fsync, IInv, TypeOK
<1>9. CopyInv'
  <2>1. ASSUME NEW u \in Flushers \ {w}, Active(u)', Final(u)' \notin mixed'
        PROVE  /\ Active(u) /\ Final(u) \notin mixed /\ Tmp(u)' = Tmp(u)
               /\ data'[ent[Tmp(u)]] = data[ent[Tmp(u)]]
               /\ disk'[ent[Tmp(u)]] = disk[ent[Tmp(u)]]
    <3>1. Active(u) /\ Final(u) \notin mixed /\ ent[Tmp(u)] # i
      BY <1>2, <2>1, OthersFacts, WritesOwnCopy
    <3>2. ent[Tmp(u)] \in Inodes
      BY <3>1, FlushSlots DEF IInv, CopyInv, CopyOf, TypeOK, LocalsInv, LocalsOf, Active
    <3> QED
      BY <1>2, <1>8, <3>1, <3>2, OthersFacts
  <2>2. ASSUME Final(w) \notin mixed
        PROVE  ent[Tmp(w)] = i /\ data'[i].pages = copied[w] /\ data'[i].whole /\ disk'[i].whole
    <3>1. ent[Tmp(w)] = i /\ data[i].pages = copied[w]
      BY <1>2, <2>2, CopyingFacts DEF IInv, CopyInv, CopyOf
    <3>2. data'[i] = content /\ disk'[i] = content
      BY <1>2, CopyingFacts DEF Fsync, IInv, TypeOK
    <3>3. (data[i].pages = copied[w]) = TRUE
      BY <3>1
    <3>4. content = [pages |-> data[i].pages, whole |-> TRUE]
      BY <3>3
    <3>5. content.whole /\ content.pages = copied[w]
      BY <3>1, <3>4
    <3> QED
      BY <3>1, <3>2, <3>5
  <2>3. ASSUME NEW u \in Flushers \ {w} PROVE CopyOf(u)'
    BY <1>2, <2>1, OthersFacts DEF IInv, CopyInv, CopyOf, WholeInode, Others
  <2>4. CopyOf(w)'
    BY <1>2, <1>3, <2>2, CopyingFacts DEF CopyOf, WholeInode, Opened
  <2> QED
    BY <2>3, <2>4 DEF CopyInv
<1>10. WholeInv'
  <2>1. ASSUME NEW s \in FinalSlots
        PROVE  ent[s] \in Inodes \cup {NoIno} /\ dent[s] \in Inodes \cup {NoIno}
    BY DEF FinalSlots, IInv, TypeOK
  <2> QED
    BY <1>2, <1>8, <2>1, WritesOwnCopy DEF IInv, WholeInv, WholeInode
<1>11. CoveredInv'
  BY <1>2, <1>3, OthersFacts, CopyingFacts DEF IInv, CoveredInv, Others, Opened
<1> QED
  BY <1>1, <1>4, <1>5, <1>6, <1>7, <1>9, <1>10, <1>11 DEF IInv

\* kern_path finds the temporary file, which is the flush's own when it is alone.
LEMMA LookupTmpKeeps ==
  ASSUME IInv, NEW w \in Flushers, LookupTmp(w)
  PROVE  IInv'
<1>1. TypeOK'
  BY CopyTypes DEF IInv
<1>2. /\ pc[w] = "lookup" /\ Others(w) /\ ent[Tmp(w)] # NoIno
      /\ ino' = ino /\ file' = file /\ dir' = dir /\ mixed' = mixed /\ copied' = copied
      /\ ent' = ent /\ dent' = dent /\ data' = data /\ disk' = disk
      /\ old' = [old EXCEPT ![w] = ent[Tmp(w)]]
      /\ Tmp(w)' = Tmp(w) /\ Final(w)' = Final(w)
  BY DEF LookupTmp, Others, Goto, fsVars, IInv, TypeOK, Tmp, Final
<1>3. pc'[w] = "rename" /\ old'[w] = ent[Tmp(w)]
  BY DEF LookupTmp, Goto, IInv, TypeOK
<1>4. file[w] \in Files /\ dir[w] \in Dirs /\ ino[w] = NoIno
  BY <1>2 DEF IInv, LocalsInv, LocalsOf, Opened
<1>5. LocalsInv'
  BY <1>2, <1>3, <1>4, LocalsKept DEF LocalsOf, Opened
<1>6. OneHome'
  <2>1. ASSUME NEW j \in Inodes, NEW d \in Dirs, NEW n \in Names, UsedFor(j, d, n)'
        PROVE  UsedFor(j, d, n)
    BY <1>2, <1>4, <2>1 DEF IInv, TypeOK, UsedFor, Tmp
  <2> QED
    BY <2>1, HomeKept DEF IInv
<1>7. OneEntry' /\ FinalsLeft' /\ WholeInv'
  BY <1>2 DEF IInv, OneEntry, FinalsLeft, WholeInv, WholeInode
<1>8. Alone'
  BY <1>2, OthersFacts DEF IInv, Alone, Active
<1>9. CopyInv'
  <2>1. ASSUME NEW u \in Flushers \ {w} PROVE CopyOf(u)'
    BY <1>2, OthersFacts DEF IInv, CopyInv, CopyOf, WholeInode, Others
  <2>2. CopyOf(w)'
    BY <1>2, <1>3 DEF IInv, CopyInv, CopyOf, WholeInode, Opened, Active
  <2> QED
    BY <2>1, <2>2 DEF CopyInv
<1>10. CoveredInv'
  BY <1>2, <1>3, OthersFacts DEF IInv, CoveredInv, Others
<1> QED
  BY <1>1, <1>5, <1>6, <1>7, <1>8, <1>9, <1>10 DEF IInv

\* The rename takes the inode from the temporary to the final name, unless
\* another flush has done so.
LEMMA RenameKeeps ==
  ASSUME IInv, NEW w \in Flushers, Rename(w)
  PROVE  IInv'
<1> DEFINE i == old[w]
           T == Tmp(w)
           F == Final(w)
<1>1. TypeOK'
  BY CopyTypes DEF IInv
<1>2. /\ pc[w] = "rename" /\ Others(w) /\ old[w] \in {ent[T], ent[F]}
      /\ ino' = ino /\ file' = file /\ dir' = dir /\ mixed' = mixed /\ copied' = copied
      /\ old' = old /\ dent' = dent /\ data' = data /\ disk' = disk
      /\ T' = T /\ F' = F
  BY DEF Rename, Others, Goto, IInv, TypeOK, Tmp, Final
<1>3. pc'[w] = "ok"
  BY DEF Rename, Goto, IInv, TypeOK
<1>4. /\ file[w] \in Files /\ dir[w] \in Dirs /\ ino[w] = NoIno
      /\ i # NoIno /\ i \in Inodes /\ Active(w)
  BY <1>2 DEF IInv, TypeOK, LocalsInv, LocalsOf, Opened, Active
<1>5. T \in Slots /\ F \in Slots /\ T # F /\ T[3] = "tmp" /\ F[3] = "final"
  BY <1>4, FlushSlots
<1>6. LocalsInv'
  BY <1>2, <1>3, <1>4, LocalsKept DEF LocalsOf, Opened
<1>7. Alone'
  BY <1>2, <1>3, OthersFacts DEF IInv, Alone, Active
<1>8. CASE i = ent[F]
  <2>1. ent' = ent
    BY <1>8 DEF Rename
  <2>2. OneHome' /\ OneEntry' /\ FinalsLeft' /\ WholeInv'
    BY <1>2, <2>1 DEF IInv, OneHome, UsedFor, OneEntry, FinalsLeft, WholeInv, WholeInode
  <2>3. CopyInv'
    BY <1>2, <1>3, <2>1, OthersFacts DEF IInv, CopyInv, CopyOf, WholeInode, Others, Active
  <2>4. CoveredInv'
    BY <1>2, <1>3, <2>1, OthersFacts DEF IInv, CoveredInv, Others, Active
  <2> QED
    BY <1>1, <1>6, <1>7, <2>2, <2>3, <2>4 DEF IInv
<1>9. CASE i # ent[F]
  <2>1. i = ent[T] /\ ent' = [ent EXCEPT ![F] = i, ![T] = NoIno]
    BY <1>2, <1>9 DEF Rename
  <2>2. /\ ent'[F] = i /\ ent'[T] = NoIno
        /\ \A s \in Slots \ {F, T} : ent'[s] = ent[s]
    BY <1>5, <2>1 DEF IInv, TypeOK
  <2>3. OneHome'
    <3>1. ASSUME NEW j \in Inodes, NEW d \in Dirs, NEW n \in Names, UsedFor(j, d, n)'
          PROVE  UsedFor(j, d, n)
      <4>1. CASE ent'[F] = j /\ F[1] = d /\ F[2] = n
        BY <1>2, <1>4, <2>2, <4>1 DEF UsedFor, Final
      <4>2. CASE \E k \in {"tmp", "final"} : ent'[<<d, n, k>>] = j
        <5>1. PICK k \in {"tmp", "final"} : ent'[<<d, n, k>>] = j
          BY <4>2
        <5>2. <<d, n, k>> \in Slots /\ <<d, n, k>> # T
          BY <2>2, <5>1, SlotFacts, RamfsAssumption
        <5> QED
          BY <2>2, <4>1, <5>1, <5>2 DEF UsedFor
      <4> QED
        BY <1>2, <3>1, <4>2 DEF UsedFor
    <3> QED
      BY <3>1, HomeKept DEF IInv
  <2>4. OneEntry'
    <3>1. ASSUME NEW s \in Slots \ {F, T} PROVE ent'[s] = ent[s] /\ ent[s] # i
      BY <1>4, <1>5, <2>1, <2>2 DEF IInv, OneEntry
    <3>2. ASSUME NEW s \in Slots, NEW t \in Slots, ent'[s] # NoIno, ent'[s] = ent'[t]
          PROVE  s = t
      BY <2>2, <3>1, <3>2 DEF IInv, OneEntry
    <3> QED
      BY <1>2, <3>2 DEF IInv, OneEntry
  <2>5. FinalsLeft'
    BY <1>2, <1>5, <2>2 DEF IInv, FinalsLeft
  <2>6. ASSUME NEW u \in Flushers \ {w}, Active(u)
        PROVE  Tmp(u) \in Slots /\ Final(u) \in Slots /\ Tmp(u) # F /\ Final(u) # T
    <3>1. Tmp(u) \in Slots /\ Final(u) \in Slots /\ Tmp(u)[3] = "tmp" /\ Final(u)[3] = "final"
      BY <2>6, FlushSlots DEF IInv, LocalsInv, LocalsOf, Active
    <3> QED
      BY <1>5, <3>1
  <2>7. CopyInv'
    <3>1. ASSUME NEW u \in Flushers \ {w} PROVE CopyOf(u)'
      <4> SUFFICES ASSUME Active(u)', Final(u)' \notin mixed' PROVE CopyOf(u)'
        BY DEF CopyOf
      <4>1. Active(u) /\ Final(u) \notin mixed /\ Tmp(u)' = Tmp(u)
        BY <1>2, OthersFacts
      <4>2. Tmp(u) # T
        BY <1>4, <4>1, SameSlots DEF IInv, Alone
      <4>3. ent'[Tmp(u)] = ent[Tmp(u)]
        BY <2>2, <2>6, <4>1, <4>2
      <4> QED
        BY <1>2, <4>1, <4>3, OthersFacts DEF IInv, CopyInv, CopyOf, WholeInode, Others
    <3> QED
      BY <1>3, <3>1 DEF CopyInv, CopyOf, Active
  <2>8. WholeInv'
    <3>1. ASSUME F \notin mixed PROVE WholeInode(i)
      BY <1>2, <1>4, <2>1, <3>1 DEF IInv, CopyInv, CopyOf
    <3>2. ASSUME NEW s \in FinalSlots \ mixed
          PROVE  s \in Slots /\ s # T
      BY <1>5 DEF FinalSlots
    <3> QED
      BY <1>2, <2>2, <3>1, <3>2 DEF IInv, WholeInv, WholeInode
  <2>9. CoveredInv'
    <3>1. ASSUME NEW u \in Flushers \ {w}, Active(u)'
          PROVE  /\ Active(u) /\ Tmp(u)' = Tmp(u) /\ Final(u)' = Final(u)
                 /\ pc'[u] = pc[u] /\ old'[u] = old[u]
                 /\ Tmp(u) = T <=> Final(u) = F
      BY <1>2, <3>1, OthersFacts, SameSlots DEF Others
    <3>2. ASSUME NEW u \in Flushers \ {w}, Active(u)'
          PROVE  \/ Final(u) = F
                 \/ ent'[Tmp(u)] = ent[Tmp(u)] /\ ent'[Final(u)] = ent[Final(u)]
      <4>1. Tmp(u) \in Slots \ {F} /\ Final(u) \in Slots \ {T}
        BY <2>6, <3>1, <3>2
      <4>2. CASE Final(u) # F
        <5>1. Tmp(u) \in Slots \ {F, T} /\ Final(u) \in Slots \ {F, T}
          BY <3>1, <3>2, <4>1, <4>2
        <5> QED
          BY <2>2, <5>1
      <4> QED
        BY <4>2
    <3> QED
      BY <1>2, <1>3, <1>4, <2>2, <3>1, <3>2 DEF IInv, CoveredInv, Active
  <2> QED
    BY <1>1, <1>6, <1>7, <2>3, <2>4, <2>5, <2>7, <2>8, <2>9 DEF IInv
<1> QED
  BY <1>8, <1>9

-----------------------------------------------------------------------------
(***************************************************************************)
(* The filesystem under the sync directories, and the machine.             *)
(***************************************************************************)
\* A journal commit takes the entries of one directory as they are now.
LEMMA CommitDirKeeps ==
  ASSUME IInv, NEW c \in Dirs, CommitDir(c)
  PROVE  IInv'
<1> USE DEF IInv
<1>1. TypeOK'
  BY DiskTypes
<1>2. /\ ent' = ent /\ data' = data /\ disk' = disk /\ mixed' = mixed
      /\ UNCHANGED <<pc, file, dir, ino, old, copied>>
      /\ \A s \in Slots : dent'[s] = IF s[1] = c THEN ent[s] ELSE dent[s]
  BY DEF CommitDir, flushVars
<1>3. LocalsInv' /\ Alone' /\ CopyInv' /\ CoveredInv'
  BY <1>2 DEF LocalsInv, LocalsOf, Opened, Alone, Active, Tmp, Final, CopyInv, CopyOf,
              WholeInode, CoveredInv
<1>4. OneHome'
  <2>1. ASSUME NEW j \in Inodes, NEW d \in Dirs, NEW n \in Names, UsedFor(j, d, n)'
        PROVE  UsedFor(j, d, n)
    <3>1. ASSUME NEW k \in {"tmp", "final"}
          PROVE  dent'[<<d, n, k>>] \in {ent[<<d, n, k>>], dent[<<d, n, k>>]}
      BY <1>2, SlotFacts
    <3> QED
      BY <1>2, <2>1, <3>1 DEF UsedFor
  <2> QED
    BY <2>1, HomeKept
<1>5. OneEntry'
  <2>1. ASSUME NEW s \in Slots, NEW t \in Slots, ent[s] # NoIno, ent[s] = dent[t]
        PROVE  s[1] = t[1]
    <3>1. UsedFor(ent[s], s[1], s[2]) /\ UsedFor(ent[s], t[1], t[2])
      BY <2>1, SlotFacts DEF UsedFor
    <3> QED
      BY <2>1, <3>1, SlotFacts DEF OneHome, TypeOK
  <2> QED
    BY <1>2, <2>1 DEF OneEntry
<1>6. FinalsLeft'
  <2>1. \A s, t \in Slots : s[3] = "final" /\ t[3] = "tmp" => s # t
    OBVIOUS
  <2> QED
    BY <1>2, <2>1 DEF OneEntry, FinalsLeft
<1>7. WholeInv'
  BY <1>2 DEF WholeInv, WholeInode, FinalSlots
<1> QED
  BY <1>1, <1>3, <1>4, <1>5, <1>6, <1>7

\* Writeback of an inode under a final name writes a complete file.
LEMMA WritebackKeeps ==
  ASSUME IInv, NEW i \in Inodes, Writeback(i)
  PROVE  IInv'
<1> USE DEF IInv
<1>1. TypeOK'
  BY DiskTypes
<1>2. /\ UNCHANGED <<ent, dent, data, mixed, pc, file, dir, ino, old, copied>>
      /\ \A j \in Inodes : disk'[j] = IF j = i THEN data[j] ELSE disk[j]
  BY DEF Writeback, flushVars, TypeOK
<1>3. ASSUME NEW j \in Inodes, WholeInode(j) PROVE WholeInode(j)'
  BY <1>2, <1>3 DEF WholeInode
<1>4. LocalsInv' /\ Alone' /\ CoveredInv' /\ OneHome' /\ OneEntry' /\ FinalsLeft'
  BY <1>2 DEF LocalsInv, LocalsOf, Opened, Alone, Active, Tmp, Final, CoveredInv,
              OneHome, UsedFor, OneEntry, FinalsLeft
<1>5. CopyInv'
  <2>1. ASSUME NEW w \in Flushers PROVE CopyOf(w)'
    <3> SUFFICES ASSUME Active(w), Final(w) \notin mixed PROVE CopyOf(w)'
      BY <1>2 DEF CopyOf, Active, Final
    <3>1. ent[Tmp(w)] \in Inodes
      BY FlushSlots DEF TypeOK, LocalsInv, LocalsOf, CopyInv, CopyOf, Active
    <3>2. Tmp(w)' = Tmp(w) /\ WholeInode(ent[Tmp(w)]) => WholeInode(ent[Tmp(w)])'
      BY <1>2, <1>3, <3>1 DEF Tmp, WholeInode
    <3> QED
      BY <1>2, <3>1, <3>2 DEF CopyInv, CopyOf, Opened, Active, Tmp, Final
  <2> QED
    BY <2>1 DEF CopyInv
<1>6. WholeInv'
  BY <1>2, <1>3 DEF WholeInv, WholeInode, FinalSlots, TypeOK
<1> QED
  BY <1>1, <1>4, <1>5, <1>6

\* A crash ends every flush and leaves what was on the disk.
LEMMA CrashKeeps ==
  ASSUME IInv, Crash
  PROVE  IInv'
<1> USE DEF IInv
<1>1. TypeOK'
  BY DiskTypes
<1>2. /\ ent' = dent /\ dent' = dent /\ data' = disk /\ disk' = disk /\ mixed' = mixed
      /\ \A w \in Flushers : /\ pc'[w] = "idle" /\ ino'[w] = NoIno /\ old'[w] = NoIno
                             /\ copied'[w] = <<>>
  BY DEF Crash
<1>3. LocalsInv' /\ Alone' /\ CopyInv' /\ CoveredInv'
  BY <1>2 DEF LocalsInv, LocalsOf, Opened, Alone, Active, CopyInv, CopyOf, CoveredInv
<1>4. OneHome'
  <2>1. ASSUME NEW j \in Inodes, NEW d \in Dirs, NEW n \in Names, UsedFor(j, d, n)'
        PROVE  UsedFor(j, d, n)
    BY <1>2, <2>1, RamfsAssumption DEF UsedFor
  <2> QED
    BY <2>1, HomeKept
<1>5. OneEntry' /\ FinalsLeft'
  <2>1. \A s, t \in Slots : s[3] = "final" /\ t[3] = "tmp" => s # t
    OBVIOUS
  <2> QED
    BY <1>2, <2>1 DEF OneEntry, FinalsLeft
<1>6. WholeInv'
  BY <1>2 DEF WholeInv, WholeInode
<1> QED
  BY <1>1, <1>3, <1>4, <1>5, <1>6

-----------------------------------------------------------------------------
\* No directory has an entry and nobody flushes.
LEMMA InitIInv == Init => IInv
<1> SUFFICES ASSUME Init PROVE IInv
  OBVIOUS
<1>1. /\ \A s \in Slots : ent[s] = NoIno /\ dent[s] = NoIno
      /\ \A w \in Flushers : /\ pc[w] = "idle" /\ ino[w] = NoIno /\ old[w] = NoIno
                             /\ copied[w] = <<>>
  BY DEF Init
<1>2. LocalsInv /\ Alone /\ CopyInv /\ CoveredInv
  BY <1>1 DEF LocalsInv, LocalsOf, Opened, Alone, Active, CopyInv, CopyOf, CoveredInv
<1>3. OneHome
  BY <1>1, SlotFacts, RamfsAssumption DEF OneHome, UsedFor
<1>4. OneEntry /\ FinalsLeft /\ WholeInv
  BY <1>1 DEF OneEntry, FinalsLeft, WholeInv, FinalSlots
<1> QED
  BY <1>2, <1>3, <1>4, InitTypes DEF IInv

\* Every step keeps the invariant.
LEMMA NextKeeps ==
  ASSUME IInv, [Next]_vars
  PROVE  IInv'
<1>1. ASSUME NEW w \in Flushers, Return(w), UNCHANGED <<appVars, syncDir, fsVars, saved, mixed, crashes>>
      PROVE  IInv'
  BY <1>1, ReturnKeeps
<1>2. ASSUME NEW w \in Flushers, Step(w) \/ Fail(w) \/ \E f \in Jobs[w] : Flush(w, f)
      PROVE  IInv'
  <2>1. CASE Unbound(w) \/ CreateFails(w) \/ TmpGone(w) \/ Done(w) \/ Fail(w)
    BY <1>1, <2>1 DEF Unbound, CreateFails, TmpGone, Done, Fail
  <2>2. CASE CopyDir(w) \/ OpenSrc(w) \/ ReadPage(w) \/ \E f \in Jobs[w] : Flush(w, f)
    BY <2>2, ReadingKeeps
  <2>3. CASE CreateTmp(w) \/ TruncateTmp(w) \/ CopyPage(w)
    BY <2>3, CreateTmpKeeps, TruncateTmpKeeps, CopyPageKeeps
  <2>4. CASE Fsync(w) \/ LookupTmp(w) \/ Rename(w)
    BY <2>4, FsyncKeeps, LookupTmpKeeps, RenameKeeps
  <2> QED
    BY <1>2, <2>1, <2>2, <2>3, <2>4 DEF Step
<1>3. CASE (\E f \in Files : WritePage(f) \/ Truncate(f)) \/ \E d \in Dirs : Bind(d)
  BY <1>3, ReadingKeeps
<1>4. CASE (\E d \in Dirs : CommitDir(d)) \/ (\E i \in Inodes : Writeback(i)) \/ Crash
  BY <1>4, CommitDirKeeps, WritebackKeeps, CrashKeeps
<1>5. CASE UNCHANGED vars
  <2> USE <1>5 DEF vars, appVars, fsVars, flushVars
  <2>1. TypeOK' /\ LocalsInv'
    BY DEF IInv, TypeOK, LocalsInv, LocalsOf, Opened
  <2>2. \A u \in Flushers : GoesOn(u)
    BY DEF GoesOn
  <2> QED
    BY <2>1, <2>2, QuietKeeps
<1> QED
  BY <1>2, <1>3, <1>4, <1>5 DEF Next

\* IInv holds in every state the machine can reach.
THEOREM Invariance == Spec => []IInv
<1>1. IInv /\ [Next]_vars => IInv'
  BY NextKeeps
<1> QED
  BY InitIInv, <1>1, PTL DEF Spec

\* FinalWhole: at every moment, and on the disk a crash would leave, the file
\* under a final name is one complete copy of one flush, unless two flushes of
\* the name overlapped.
THEOREM FinalsAreWhole == Spec => []FinalWhole
<1>1. IInv => FinalWhole
  BY DEF IInv, WholeInv, WholeInode, FinalWhole, FinalIsWhole
<1> QED
  BY Invariance, <1>1, PTL

\* LoserCovered: a flush only loses its temporary file to one that succeeded,
\* however many overlap.
THEOREM LosersAreCovered == Spec => []LoserCovered
<1>1. IInv => LoserCovered
  BY DEF IInv, CoveredInv, LoserCovered, Active
<1> QED
  BY Invariance, <1>1, PTL

\* FinalNeverVanishes: vfs_rename replaces the file of a final name, no step
\* of any flush removes it.
THEOREM FinalsNeverVanish == Spec => FinalNeverVanishes
<1> DEFINE Kept == \A s \in Slots : s[3] = "final" /\ ent[s] # NoIno /\ crashes' = crashes
                                      => ent'[s] # NoIno
<1>1. ASSUME IInv, Next PROVE Kept
  <2>1. ASSUME ent' = ent PROVE Kept
    BY <2>1
  <2>2. ASSUME NEW w \in Flushers, CreateTmp(w) PROVE Kept
    BY <1>1, <2>2, OpeningFacts, RamfsAssumption DEF CreateTmp, IInv, TypeOK
  <2>3. ASSUME NEW w \in Flushers, Rename(w) PROVE Kept
    <3>1. old[w] # NoIno /\ file[w] \in Files /\ dir[w] \in Dirs
      BY <1>1, <2>3 DEF Rename, IInv, LocalsInv, LocalsOf
    <3> QED
      BY <1>1, <2>3, <3>1, FlushSlots DEF Rename, IInv, TypeOK
  <2>4. ASSUME NEW w \in Flushers, Step(w) \/ Fail(w) \/ \E f \in Jobs[w] : Flush(w, f)
        PROVE  Kept
    BY <2>1, <2>2, <2>3, <2>4
    DEF Step, fsVars, Unbound, CopyDir, CreateFails, TruncateTmp, OpenSrc, ReadPage,
        CopyPage, Fsync, LookupTmp, TmpGone, Done, Fail, Flush
  <2>5. CASE Crash
    <3>1. crashes \in Nat /\ crashes' = crashes + 1
      BY <1>1, <2>5 DEF Crash, IInv, TypeOK
    <3> QED
      BY <3>1
  <2>6. CASE (\E f \in Files : WritePage(f) \/ Truncate(f)) \/ \E d \in Dirs : Bind(d) \/ CommitDir(d)
    BY <2>1, <2>6 DEF WritePage, Truncate, Touch, Bind, CommitDir, fsVars
  <2>7. CASE \E i \in Inodes : Writeback(i)
    BY <2>1, <2>7 DEF Writeback
  <2> QED
    BY <1>1, <2>4, <2>5, <2>6, <2>7 DEF Next
<1>2. IInv /\ [Next]_vars => [Kept]_vars
  BY <1>1
<1> QED
  BY Invariance, <1>2, PTL DEF Spec, FinalNeverVanishes

-----------------------------------------------------------------------------
(***************************************************************************)
(* What a flush leaves behind.  Two files with the same last component     *)
(* overwrite each other, so these results need names that tell files apart *)
(* or a single flusher.                                                    *)
(***************************************************************************)
\* Files that ramfs_sync cannot confuse; a single flusher.
DistinctNames == \A f, g \in Files : NameOf[f] = NameOf[g] => f = g
OneFlusher == \A u, w \in Flushers : u = w

\* Where the last save of f went.
FinalOf(f) == <<saved[f].dir, NameOf[f], "final">>

\* No save is dated later than the present boot.
SavedInv == SavedKept /\ \A f \in Files : saved[f].boot <= crashes

\* u, or a flush of the same file into the same directory that has succeeded
\* and not returned yet, began after the last write of the file.
Still(u) ==
  \/ clean[u]
  \/ \E w \in Flushers : pc[w] = "ok" /\ clean[w] /\ file[w] = file[u] /\ dir[w] = dir[u]

\* A flush of a file that stands still copies exactly that file.
ExactOf(u) ==
  LET s == src[file[u]]
  IN  Still(u) /\ Final(u) \notin mixed =>
        /\ pc[u] \in {"read", "write"} =>
             /\ size[u] = Len(s) /\ Len(copied[u]) <= Len(s)
             /\ \A p \in 1 .. Len(copied[u]) : copied[u][p] = s[p]
        /\ pc[u] = "write" => Len(copied[u]) < Len(s) /\ buf[u] = s[Len(copied[u]) + 1]
        /\ pc[u] \in {"lookup", "rename"} => copied[u] = s
        /\ pc[u] = "ok" => ent[Final(u)] # NoIno /\ data[ent[Final(u)]].pages = s

\* So for every flush.
ExactInv == \A u \in Flushers : ExactOf(u)

\* Short of a rename and a crash the file under a final name stays as it is.
LEMMA FinalsUndisturbed ==
  ASSUME IInv, [Next]_vars, ~Crash, \A w \in Flushers : ~Rename(w)
  PROVE  /\ \A s \in FinalSlots \ mixed' :
              ent'[s] = ent[s] /\ (ent[s] # NoIno => data'[ent[s]].pages = data[ent[s]].pages)
         /\ mixed \subseteq mixed' /\ saved' = saved /\ crashes' = crashes
<1> DEFINE Goal == /\ \A s \in FinalSlots \ mixed' :
                        /\ ent'[s] = ent[s]
                        /\ ent[s] # NoIno => data'[ent[s]].pages = data[ent[s]].pages
                   /\ mixed \subseteq mixed' /\ saved' = saved /\ crashes' = crashes
<1>1. ASSUME UNCHANGED <<ent, data, mixed, saved, crashes>> PROVE Goal
  BY <1>1
<1>2. ASSUME NEW s \in FinalSlots PROVE s \in Slots /\ ent[s] \in Inodes \cup {NoIno}
  BY DEF FinalSlots, IInv, TypeOK
<1>3. ASSUME NEW w \in Flushers, CreateTmp(w) PROVE Goal
  <2>1. PICK i \in Inodes : /\ Unused(i)
                            /\ ent' = [ent EXCEPT ![Tmp(w)] = i]
                            /\ data' = [data EXCEPT ![i] = Empty]
    BY <1>3 DEF CreateTmp
  <2>2. ASSUME NEW s \in FinalSlots PROVE ent'[s] = ent[s] /\ ent[s] # i
    BY <1>2, <1>3, <2>1, OpeningFacts DEF CreateTmp, FinalSlots, IInv, TypeOK, Unused
  <2>3. mixed \subseteq mixed' /\ saved' = saved /\ crashes' = crashes
    BY <1>3 DEF CreateTmp, Mix
  <2> QED
    BY <1>2, <2>1, <2>2, <2>3 DEF IInv, TypeOK
<1>4. ASSUME NEW w \in Flushers, TruncateTmp(w) PROVE Goal
  <2>1. /\ ent' = ent /\ data' = [data EXCEPT ![ent[Tmp(w)]] = Empty]
        /\ mixed \subseteq mixed' /\ saved' = saved /\ crashes' = crashes
        /\ ent[Tmp(w)] # NoIno
    BY <1>4 DEF TruncateTmp, Mix
  <2>2. ASSUME NEW s \in FinalSlots, ent[s] # NoIno PROVE ent[s] # ent[Tmp(w)]
    BY <1>4, <2>2, OpeningFacts DEF TruncateTmp, FinalSlots, IInv, OneEntry
  <2> QED
    BY <1>2, <2>1, <2>2 DEF IInv, TypeOK
<1>5. ASSUME NEW w \in Flushers, CopyPage(w) \/ Fsync(w) PROVE Goal
  <2>1. /\ Opened(w) /\ ent' = ent /\ mixed' = mixed /\ saved' = saved /\ crashes' = crashes
        /\ \A j \in Inodes \ {ino[w]} : data'[j] = data[j]
    BY <1>5 DEF CopyPage, Fsync, Opened, IInv, TypeOK
  <2> QED
    BY <1>2, <2>1, WritesOwnCopy
<1>6. ASSUME NEW w \in Flushers, Step(w) \/ Fail(w) \/ \E f \in Jobs[w] : Flush(w, f)
      PROVE  Goal
  BY <1>1, <1>3, <1>4, <1>5, <1>6
  DEF Step, fsVars, Unbound, CopyDir, CreateFails, OpenSrc, ReadPage, LookupTmp, TmpGone,
      Done, Fail, Flush
<1>7. CASE (\E f \in Files : WritePage(f) \/ Truncate(f)) \/ \E d \in Dirs : Bind(d) \/ CommitDir(d)
  BY <1>1, <1>7 DEF WritePage, Truncate, Touch, Bind, CommitDir, fsVars
<1>8. CASE \E i \in Inodes : Writeback(i)
  BY <1>1, <1>8 DEF Writeback
<1>9. CASE UNCHANGED vars
  BY <1>1, <1>9 DEF vars, fsVars
<1> QED
  BY <1>6, <1>7, <1>8, <1>9 DEF Next

\* The rename of a flush that is alone leaves what it copied.
LEMMA RenameEffect ==
  ASSUME IInv, NEW w \in Flushers, Rename(w)
  PROVE  /\ file[w] \in Files /\ dir[w] \in Dirs
         /\ \A s \in FinalSlots \ {Final(w)} : ent'[s] = ent[s]
         /\ Final(w) \notin mixed =>
              ent'[Final(w)] # NoIno /\ data[ent'[Final(w)]].pages = copied[w]
         /\ data' = data /\ mixed' = mixed /\ crashes' = crashes
         /\ saved' = [saved EXCEPT ![file[w]] =
                        [dir |-> dir[w], pages |-> copied[w], boot |-> crashes]]
<1>1. /\ pc[w] = "rename" /\ Active(w) /\ old[w] \in Inodes /\ old[w] # NoIno
      /\ file[w] \in Files /\ dir[w] \in Dirs
  BY DEF Rename, IInv, TypeOK, LocalsInv, LocalsOf, Active
<1>2. Tmp(w) \in Slots /\ Final(w) \in Slots /\ Tmp(w) # Final(w) /\ Tmp(w)[3] = "tmp"
  BY <1>1, FlushSlots
<1>3. \A s \in FinalSlots \ {Final(w)} : ent'[s] = ent[s]
  BY <1>2 DEF Rename, FinalSlots, IInv, TypeOK
<1>4. ASSUME Final(w) \notin mixed
      PROVE  ent'[Final(w)] # NoIno /\ data[ent'[Final(w)]].pages = copied[w]
  <2>1. old[w] = ent[Tmp(w)] /\ data[old[w]].pages = copied[w]
    BY <1>1, <1>4 DEF IInv, CopyInv, CopyOf
  <2>2. ent'[Final(w)] = old[w]
    BY <1>2, <2>1 DEF Rename, IInv, TypeOK
  <2> QED
    BY <1>1, <2>1, <2>2
<1> QED
  BY <1>1, <1>3, <1>4 DEF Rename

\* A step keeps what was saved, when no other file has the name.
LEMMA SavedStep ==
  ASSUME DistinctNames, IInv, TypeOK', SavedInv, [Next]_vars
  PROVE  SavedInv'
<1>1. ASSUME NEW f \in Files, saved[f].dir # NoDir
      PROVE  FinalOf(f) \in FinalSlots
  BY <1>1, SlotFacts, RamfsAssumption DEF FinalOf, FinalSlots, IInv, TypeOK
<1>2. CASE Crash
  <2>1. saved' = saved /\ crashes' = crashes + 1
    BY <1>2 DEF Crash
  <2>2. \A f \in Files : saved'[f].boot < crashes' /\ saved'[f].boot <= crashes'
    BY <2>1 DEF SavedInv, IInv, TypeOK
  <2>3. \A f \in Files : saved'[f].boot # crashes'
    BY <2>1, <2>2 DEF IInv, TypeOK
  <2> QED
    BY <2>2, <2>3 DEF SavedInv, SavedKept
<1>3. ASSUME NEW w \in Flushers, Rename(w) PROVE SavedInv'
  <2>1. /\ saved'[file[w]] = [dir |-> dir[w], pages |-> copied[w], boot |-> crashes]
        /\ \A f \in Files \ {file[w]} : saved'[f] = saved[f]
        /\ data' = data /\ mixed' = mixed /\ crashes' = crashes
    BY <1>3, RenameEffect DEF IInv, TypeOK
  <2>2. \A f \in Files : saved'[f].boot <= crashes'
    <3>1. saved'[file[w]].boot = crashes /\ crashes \in Nat
      BY <2>1 DEF IInv, TypeOK
    <3> QED
      BY <2>1, <3>1 DEF SavedInv
  <2>3. ASSUME NEW f \in Files, saved'[f].dir # NoDir, saved'[f].boot = crashes',
               FinalOf(f)' \notin mixed'
        PROVE  KeptFrom(f)'
    <3>1. CASE f = file[w]
      <4>1. FinalOf(f)' = Final(w)
        BY <2>1, <3>1 DEF FinalOf, Final
      <4> QED
        BY <1>3, <2>1, <2>3, <3>1, <4>1, RenameEffect DEF KeptFrom, FinalOf
    <3>2. CASE f # file[w]
      <4>1. saved'[f] = saved[f] /\ FinalOf(f)' = FinalOf(f) /\ FinalOf(f) \in FinalSlots
        BY <1>1, <2>1, <2>3, <3>2 DEF FinalOf
      <4>2. NameOf[f] # NameOf[file[w]]
        BY <1>3, <3>2, RenameEffect DEF DistinctNames
      <4>3. FinalOf(f) # Final(w)
        BY <4>2 DEF FinalOf, Final
      <4>4. ent'[FinalOf(f)] = ent[FinalOf(f)]
        BY <1>3, <4>1, <4>3, RenameEffect
      <4>5. KeptFrom(f)
        BY <2>1, <2>3, <4>1 DEF SavedInv, SavedKept, FinalOf
      <4> QED
        BY <2>1, <4>1, <4>4, <4>5 DEF KeptFrom, FinalOf
    <3> QED
      BY <3>1, <3>2
  <2> QED
    BY <2>2, <2>3 DEF SavedInv, SavedKept, FinalOf
<1>4. CASE ~Crash /\ \A w \in Flushers : ~Rename(w)
  <2>1. saved' = saved /\ crashes' = crashes /\ mixed \subseteq mixed'
    BY <1>4, FinalsUndisturbed
  <2>2. ASSUME NEW f \in Files, saved[f].dir # NoDir, saved[f].boot = crashes,
               FinalOf(f) \notin mixed'
        PROVE  KeptFrom(f)'
    <3>1. KeptFrom(f)
      BY <2>1, <2>2 DEF SavedInv, SavedKept, FinalOf
    <3>2. FinalOf(f) \in FinalSlots \ mixed'
      BY <1>1, <2>2
    <3> QED
      BY <1>4, <2>1, <3>1, <3>2, FinalsUndisturbed DEF KeptFrom, FinalOf
  <2> QED
    BY <2>1, <2>2 DEF SavedInv, SavedKept, FinalOf
<1> QED
  BY <1>2, <1>3, <1>4

\* SavedKept: what a successful flush saved stays until the file is flushed
\* again or the machine crashes, when names tell files apart and the flushes of
\* the name do not overlap.
THEOREM SavedIsKept ==
  ASSUME DistinctNames
  PROVE  Spec => []SavedKept
<1>1. Init => SavedInv
  BY DEF Init, SavedInv, SavedKept
<1>2. IInv /\ IInv' /\ SavedInv /\ [Next]_vars => SavedInv'
  BY SavedStep DEF IInv
<1>3. SavedInv => SavedKept
  BY DEF SavedInv
<1> QED
  BY Invariance, <1>1, <1>2, <1>3, PTL DEF Spec

\* What ExactOf(u) needs of a step for a flush u that the step does not move.
Same(u) ==
  /\ pc'[u] = pc[u] /\ file'[u] = file[u] /\ dir'[u] = dir[u]
  /\ size'[u] = size[u] /\ buf'[u] = buf[u] /\ copied'[u] = copied[u]
  /\ src'[file[u]] = src[file[u]]

\* A flush that does not move, whose file does not change and under whose
\* final name nothing changes, is as exact as before.
LEMMA ExactKept ==
  ASSUME IInv, [Next]_vars, ~Crash, \A w \in Flushers : ~Rename(w),
         NEW u \in Flushers, Same(u), Still(u)' => Still(u), ExactOf(u)
  PROVE  ExactOf(u)'
<1> SUFFICES ASSUME Still(u)', Final(u)' \notin mixed' PROVE ExactOf(u)'
  BY DEF ExactOf
<1>1. Final(u)' = Final(u) /\ Final(u) \notin mixed
  BY FinalsUndisturbed DEF Same, Final
<1>2. ASSUME pc[u] = "ok"
      PROVE  Final(u) \in FinalSlots
  BY <1>2, FlushSlots DEF IInv, LocalsInv, LocalsOf
<1>3. ASSUME pc[u] = "ok", ent[Final(u)] # NoIno
      PROVE  ent'[Final(u)] = ent[Final(u)] /\ data'[ent[Final(u)]].pages = data[ent[Final(u)]].pages
  BY <1>1, <1>2, <1>3, FinalsUndisturbed
<1> QED
  BY <1>1, <1>3 DEF ExactOf, Same

\* A write or a truncation only leaves flushes of other files standing still.
LEMMA TouchExact ==
  ASSUME IInv, ExactInv, [Next]_vars, NEW f \in Files, NEW pages, Touch(f, pages)
  PROVE  ExactInv'
<1>1. ASSUME NEW u \in Flushers PROVE ExactOf(u)'
  <2>1. CASE file[u] = f
    <3>1. ~Still(u)'
      BY <2>1 DEF Touch, Still
    <3> QED
      BY <3>1 DEF ExactOf
  <2>2. CASE file[u] # f
    <3>1. Same(u) /\ (Still(u)' => Still(u))
      BY <2>2 DEF Touch, Same, Still, IInv, TypeOK
    <3>2. ~Crash
      <4>1. crashes' = crashes /\ crashes \in Nat
        BY DEF Touch, IInv, TypeOK
      <4> QED
        BY <4>1 DEF Crash
    <3>3. ASSUME NEW w \in Flushers PROVE ~Rename(w)
      BY DEF Touch, Rename, Goto, IInv, TypeOK
    <3> QED
      BY <3>1, <3>2, <3>3, ExactKept DEF ExactInv
  <2> QED
    BY <2>1, <2>2
<1> QED
  BY <1>1 DEF ExactInv

\* A step of w that does not end in success leaves the others standing still
\* only if they were.
LEMMA StillOfOthers ==
  ASSUME NEW w \in Flushers, pc'[w] # "ok",
         \A u \in Flushers \ {w} : /\ pc'[u] = pc[u] /\ file'[u] = file[u]
                                   /\ dir'[u] = dir[u] /\ clean'[u] = clean[u],
         NEW u \in Flushers \ {w}, Still(u)'
  PROVE  Still(u)
  BY DEF Still

\* A step of flusher w other than its rename.
LEMMA FlusherExact ==
  ASSUME IInv, ExactInv, [Next]_vars, NEW w \in Flushers, ~Rename(w),
         Step(w) \/ Fail(w) \/ \E f \in Jobs[w] : Flush(w, f)
  PROVE  ExactInv'
<1> USE DEF Goto
<1>1. ASSUME NEW u \in Flushers \ {w}
      PROVE  /\ Same(u) /\ clean'[u] = clean[u]
  BY DEF IInv, TypeOK, Same, Step, appVars, Return, Unbound, CopyDir, CreateTmp, CreateFails,
         TruncateTmp, OpenSrc, ReadPage, CopyPage, Fsync, LookupTmp, TmpGone, Done, Fail, Flush
<1>2. pc'[w] # "ok" /\ pc'[w] # pc[w]
  BY DEF IInv, TypeOK, Step, Return, Unbound, CopyDir, CreateTmp, CreateFails,
         TruncateTmp, OpenSrc, ReadPage, CopyPage, Fsync, LookupTmp, TmpGone, Done, Fail, Flush
<1>3. ~Crash /\ \A u \in Flushers : ~Rename(u)
  <2>1. crashes' = crashes
    BY DEF Step, Unbound, CopyDir, CreateTmp, CreateFails, TruncateTmp, OpenSrc, ReadPage,
           CopyPage, Fsync, LookupTmp, TmpGone, Done, Fail, Flush
  <2>2. ~Crash
    BY <2>1 DEF Crash, IInv, TypeOK
  <2>3. ASSUME NEW u \in Flushers \ {w} PROVE ~Rename(u)
    BY <1>1 DEF Rename, Same, IInv, TypeOK
  <2> QED
    BY <2>2, <2>3
<1>4. ASSUME NEW u \in Flushers \ {w} PROVE ExactOf(u)'
  <2>1. Still(u)' => Still(u)
    BY <1>1, <1>2, StillOfOthers DEF Same
  <2> QED
    BY <1>1, <1>3, <2>1, ExactKept DEF ExactInv
<1>5. ExactOf(w)'
  <2>1. CASE pc'[w] \in {"idle", "copy_dir", "open_tmp", "open_src"}
    BY <2>1 DEF ExactOf
  <2>2. ASSUME file' = file, dir' = dir, clean' = clean, src' = src, mixed' = mixed
        PROVE  /\ Still(w)' => Still(w)
               /\ Final(w)' = Final(w)
               /\ file[w] \in Files => src[file[w]] \in Seq(Nat)
    BY <1>1, <1>2, <2>2 DEF Still, Final, IInv, TypeOK, Same
  <2>3. CASE OpenSrc(w)
    <3>1. pc'[w] = "read" /\ size'[w] = Len(src[file[w]]) /\ copied'[w] = <<>>
      BY <2>3 DEF OpenSrc, IInv, TypeOK, LocalsInv, LocalsOf
    <3>2. file[w] \in Files /\ src' = src /\ file' = file
      BY <2>3 DEF OpenSrc, IInv, LocalsInv, LocalsOf, appVars
    <3>3. src[file[w]] \in Seq(Nat)
      BY <3>2 DEF IInv, TypeOK
    <3> QED
      BY <3>1, <3>2, <3>3 DEF ExactOf
  <2>4. CASE ReadPage(w)
    <3>1. /\ pc[w] = "read" /\ pc'[w] = "write" /\ file[w] \in Files
          /\ size' = size /\ copied' = copied /\ buf'[w] = src[file[w]][Len(copied[w]) + 1]
          /\ Len(copied[w]) < Len(src[file[w]])
          /\ file' = file /\ dir' = dir /\ clean' = clean /\ src' = src /\ mixed' = mixed
      BY <2>4 DEF ReadPage, More, pos, appVars, IInv, TypeOK, LocalsInv, LocalsOf
    <3> QED
      BY <2>2, <3>1 DEF ExactInv, ExactOf
  <2>5. CASE CopyPage(w)
    <3>1. /\ pc[w] = "write" /\ pc'[w] = "read" /\ file[w] \in Files
          /\ size' = size /\ copied'[w] = Append(copied[w], buf[w])
          /\ copied[w] \in Seq(Nat) /\ buf[w] \in Nat
          /\ file' = file /\ dir' = dir /\ clean' = clean /\ src' = src /\ mixed' = mixed
      BY <2>5 DEF CopyPage, appVars, IInv, TypeOK, LocalsInv, LocalsOf
    <3>2. /\ Len(copied'[w]) = Len(copied[w]) + 1
          /\ \A p \in 1 .. Len(copied[w]) : copied'[w][p] = copied[w][p]
          /\ copied'[w][Len(copied[w]) + 1] = buf[w]
          /\ Len(copied[w]) \in Nat
      BY <3>1
    <3>3. src[file[w]] \in Seq(Nat) /\ Len(src[file[w]]) \in Nat
      BY <2>2, <3>1
    <3>4. ASSUME Still(w), Final(w) \notin mixed
          PROVE  /\ size[w] = Len(src[file[w]]) /\ Len(copied'[w]) <= Len(src[file[w]])
                 /\ \A p \in 1 .. Len(copied'[w]) : copied'[w][p] = src[file[w]][p]
      <4>1. /\ size[w] = Len(src[file[w]])
            /\ \A p \in 1 .. Len(copied[w]) : copied[w][p] = src[file[w]][p]
            /\ Len(copied[w]) < Len(src[file[w]])
            /\ buf[w] = src[file[w]][Len(copied[w]) + 1]
        BY <3>1, <3>4 DEF ExactInv, ExactOf
      <4> QED
        BY <3>2, <3>3, <4>1
    <3> QED
      BY <2>2, <3>1, <3>4 DEF ExactOf
  <2>6. CASE Fsync(w)
    <3>1. /\ pc[w] = "read" /\ pc'[w] = "lookup" /\ file[w] \in Files
          /\ copied' = copied /\ ~More(w) /\ copied[w] \in Seq(Nat)
          /\ file' = file /\ dir' = dir /\ clean' = clean /\ src' = src /\ mixed' = mixed
      BY <2>6 DEF Fsync, appVars, IInv, TypeOK, LocalsInv, LocalsOf
    <3>2. ASSUME Still(w), Final(w) \notin mixed PROVE copied[w] = src[file[w]]
      <4>1. /\ size[w] = Len(src[file[w]]) /\ Len(copied[w]) <= Len(src[file[w]])
            /\ \A p \in 1 .. Len(copied[w]) : copied[w][p] = src[file[w]][p]
        BY <3>1, <3>2 DEF ExactInv, ExactOf
      <4>2. src[file[w]] \in Seq(Nat)
        BY <2>2, <3>1
      <4>3. Len(copied[w]) = Len(src[file[w]])
        BY <3>1, <4>1, <4>2 DEF More, pos
      <4> QED
        BY <3>1, <4>1, <4>2, <4>3, SeqEqual
    <3> QED
      BY <2>2, <3>1, <3>2 DEF ExactOf
  <2>7. CASE LookupTmp(w)
    <3>1. /\ pc[w] = "lookup" /\ pc'[w] = "rename" /\ copied' = copied
          /\ file' = file /\ dir' = dir /\ clean' = clean /\ src' = src /\ mixed' = mixed
      BY <2>7 DEF LookupTmp, appVars, IInv, TypeOK
    <3> QED
      BY <2>2, <3>1 DEF ExactInv, ExactOf
  <2>8. ASSUME pc'[w] \notin {"idle", "copy_dir", "open_tmp", "open_src"}
        PROVE  OpenSrc(w) \/ ReadPage(w) \/ CopyPage(w) \/ Fsync(w) \/ LookupTmp(w)
    BY <2>8 DEF IInv, TypeOK, Step, Return, Unbound, CopyDir, CreateTmp, CreateFails,
                TruncateTmp, TmpGone, Done, Fail, Flush
  <2> QED
    BY <2>1, <2>3, <2>4, <2>5, <2>6, <2>7, <2>8
<1> QED
  BY <1>4, <1>5 DEF ExactInv

\* A flush that succeeds leaves the file, and a copy of the same to every other
\* flush of that name that has succeeded since the file was last written.
LEMMA RenameExact ==
  ASSUME DistinctNames \/ OneFlusher, IInv, ExactInv, NEW w \in Flushers, Rename(w)
  PROVE  ExactInv'
<1>1. /\ pc[w] = "rename" /\ pc'[w] = "ok" /\ Others(w) /\ Active(w)
      /\ file' = file /\ dir' = dir /\ clean' = clean /\ src' = src /\ mixed' = mixed
      /\ size' = size /\ buf' = buf /\ copied' = copied /\ data' = data
      /\ file[w] \in Files /\ dir[w] \in Dirs
  BY DEF Rename, Goto, appVars, Others, IInv, TypeOK, LocalsInv, LocalsOf, Active
<1>2. ASSUME Still(w), Final(w) \notin mixed
      PROVE  ent'[Final(w)] # NoIno /\ data[ent'[Final(w)]].pages = src[file[w]]
  BY <1>1, <1>2, RenameEffect DEF ExactInv, ExactOf
<1>3. Still(w)' => Still(w)
  BY <1>1 DEF Still, Others
<1>4. ExactOf(w)'
  BY <1>1, <1>2, <1>3 DEF ExactOf, Final
<1>5. ASSUME NEW u \in Flushers \ {w} PROVE ExactOf(u)'
  <2> SUFFICES ASSUME Still(u)', Final(u) \notin mixed PROVE ExactOf(u)'
    BY <1>1 DEF ExactOf, Final
  <2>1. CASE Final(u) = Final(w)
    <3>1. ~Active(u)
      BY <1>1, <2>1, SameSlots DEF IInv, Alone
    <3>2. ASSUME pc[u] = "ok" PROVE ent'[Final(w)] # NoIno /\ data[ent'[Final(w)]].pages = src[file[u]]
      <4>1. file[u] \in Files
        BY <3>2 DEF IInv, LocalsInv, LocalsOf
      <4>2. file[u] = file[w] /\ dir[u] = dir[w]
        BY <1>1, <2>1, <4>1 DEF Final, DistinctNames, OneFlusher
      <4>3. Still(w)
        BY <1>1, <3>2, <4>2 DEF Still, Others
      <4> QED
        BY <1>2, <2>1, <4>2, <4>3
    <3> QED
      BY <1>1, <2>1, <3>1, <3>2 DEF ExactOf, Final, Active, Others
  <2>2. CASE Final(u) # Final(w)
    <3>1. Still(u)
      BY <1>1, <2>2 DEF Still, Others, Final
    <3>2. ASSUME pc[u] = "ok" PROVE ent'[Final(u)] = ent[Final(u)]
      <4>1. Final(u) \in FinalSlots
        BY <3>2, FlushSlots DEF IInv, LocalsInv, LocalsOf
      <4> QED
        BY <2>2, <4>1, RenameEffect
    <3> QED
      BY <1>1, <3>1, <3>2 DEF ExactInv, ExactOf, Final, Others
  <2> QED
    BY <2>1, <2>2
<1> QED
  BY <1>4, <1>5 DEF ExactInv

\* Every step keeps the flushes exact.
LEMMA ExactStep ==
  ASSUME DistinctNames \/ OneFlusher, IInv, ExactInv, [Next]_vars
  PROVE  ExactInv'
<1>1. ASSUME NEW w \in Flushers, Step(w) \/ Fail(w) \/ \E f \in Jobs[w] : Flush(w, f)
      PROVE  ExactInv'
  BY <1>1, FlusherExact, RenameExact
<1>2. ASSUME NEW f \in Files, WritePage(f) \/ Truncate(f) PROVE ExactInv'
  BY <1>2, TouchExact DEF WritePage, Truncate
<1>3. CASE Crash
  BY <1>3 DEF Crash, ExactInv, ExactOf
<1>4. ASSUME UNCHANGED <<appVars, flushVars, crashes>> PROVE ExactInv'
  <2>1. ~Crash
    BY <1>4 DEF Crash, IInv, TypeOK
  <2>2. ASSUME NEW w \in Flushers PROVE ~Rename(w)
    BY <1>4 DEF Rename, Goto, flushVars, IInv, TypeOK
  <2>3. ASSUME NEW u \in Flushers PROVE Same(u) /\ (Still(u)' => Still(u))
    BY <1>4 DEF Same, Still, appVars, flushVars
  <2> QED
    BY <2>1, <2>2, <2>3, ExactKept DEF ExactInv
<1>5. CASE (\E d \in Dirs : Bind(d) \/ CommitDir(d)) \/ \E i \in Inodes : Writeback(i)
  BY <1>4, <1>5 DEF Bind, CommitDir, Writeback
<1>6. CASE UNCHANGED vars
  BY <1>4, <1>6 DEF vars
<1> QED
  BY <1>1, <1>2, <1>3, <1>5, <1>6 DEF Next

\* A flush that succeeds leaves exactly the file under the final name, unless
\* the file was written meanwhile or flushes of the name overlapped.
FlushExactApart ==
  \A w \in Flushers : pc[w] = "ok" /\ clean[w] /\ Final(w) \notin mixed =>
    /\ ent[Final(w)] # NoIno
    /\ data[ent[Final(w)]].pages = src[file[w]]

\* A flush is exact for any number of flushers, of files whose names tell them
\* apart, even while another flush of the same file follows it.
THEOREM FlushesAreExactApart ==
  ASSUME DistinctNames
  PROVE  Spec => []FlushExactApart
<1>1. Init => ExactInv
  BY DEF Init, ExactInv, ExactOf
<1>2. IInv /\ ExactInv /\ [Next]_vars => ExactInv'
  BY ExactStep
<1>3. ExactInv => FlushExactApart
  BY DEF ExactInv, ExactOf, Still, FlushExactApart
<1> QED
  BY Invariance, <1>1, <1>2, <1>3, PTL DEF Spec

\* FlushExact: with one flusher, whatever the names, a flush that succeeds
\* leaves exactly the file, unless it was written meanwhile.
THEOREM FlushesAreExact ==
  ASSUME OneFlusher
  PROVE  Spec => []FlushExact
<1>1. Init => ExactInv /\ mixed = {}
  BY DEF Init, ExactInv, ExactOf
<1>2. IInv /\ ExactInv /\ [Next]_vars => ExactInv'
  BY ExactStep
<1>3. mixed = {} /\ [Next]_vars => (mixed = {})'
  <2>1. ASSUME NEW w \in Flushers, Mix(w) PROVE mixed' = mixed
    BY <2>1 DEF Mix, Overlaps, OneFlusher
  <2>2. ASSUME NEW w \in Flushers, Step(w) PROVE mixed' = mixed
    BY <2>1, <2>2 DEF Step, Unbound, CopyDir, CreateTmp, CreateFails, TruncateTmp, OpenSrc,
       ReadPage, CopyPage, Fsync, LookupTmp, Rename, TmpGone, Done
  <2>3. ASSUME Next PROVE mixed' = mixed
    BY <2>2, <2>3 DEF Next, WritePage, Truncate, Touch, Bind, CommitDir, Flush, Fail,
       Writeback, Crash
  <2> QED
    BY <2>3 DEF vars
<1>4. ExactInv /\ mixed = {} => FlushExact
  BY DEF ExactInv, ExactOf, Still, FlushExact
<1> QED
  BY Invariance, <1>1, <1>2, <1>3, <1>4, PTL DEF Spec

\* Type correctness of the files, the disk and the flushes.
THEOREM TypesAreKept == Spec => []TypeOK
<1>1. IInv => TypeOK
  BY DEF IInv
<1> QED
  BY Invariance, <1>1, PTL
=============================================================================
