------------------------------ MODULE RamfsTree ------------------------------
(***************************************************************************)
(* The ramfs mount and its tree (kvm/linux-5.15.178/fs/ramfs/inode.c):     *)
(* the mount context and its options, ramfs_fill_super, the operations on  *)
(* directories, and ramfs_kill_sb.  There is nothing under the dentries: a *)
(* name exists as long as its dentry is pinned, so every operation has to  *)
(* leave the counters of dentries, inodes and links exact.                 *)
(*                                                                         *)
(* An operation on a directory runs under the lock of the directory and is *)
(* one step; the caller's own reference to a dentry is taken and dropped   *)
(* within it.  The VFS and libfs are external.                             *)
(***************************************************************************)
EXTENDS Integers, FiniteSets

CONSTANTS Inodes,   \* the inodes an instance can allocate, a set of numbers
          Dentries, \* likewise the dentries, the root's not among them
          Names,
          Types,    \* the types of files that are made with mknod
          Params,   \* the mount options that are given
          Default,  \* RAMFS_DEFAULT_MODE
          None

\* A dentry: the directory and the name it is under, its inode, its reference
\* count, and whether a lookup finds it.
Records ==
  [dir : Inodes, name : Names \cup {None}, inode : Inodes, count : 1 .. 2, hashed : BOOLEAN]

\* Inodes and dentries are finitely many numbers, and there is a root; mknod
\* makes no directories, which have a call of their own; None is nothing else.
TreeSound ==
  /\ IsFiniteSet(Inodes) /\ Inodes \subseteq Nat /\ Inodes # {}
  /\ IsFiniteSet(Dentries) /\ Dentries \subseteq Nat
  /\ {"DIR"} \notin Types
  /\ Default # None /\ None \notin Records
  /\ \A param \in Params : param.opt = "mode" => param.value.perm # None

ASSUME TreeSoundHolds == TreeSound

VARIABLES phase,   \* "none", "context", "mounted"
          owner,   \* who is to free the ramfs_fs_info: "fc", "sb"; "none", "freed"
          mode,    \* mount_opts.mode: [type, perm], None without an fs info
          frees,   \* how often this ramfs_fs_info was freed
          perm,    \* the permissions of the root, None without one
          kind, nlink, icount, \* of an inode; kind "free" is no inode
          linkable, \* inodes in state I_LINKABLE: temporary files never linked
          dentry,  \* one of Records, or None
          open,    \* the dentries that have an open file
          tree     \* the names that were made and not removed (history)

inodeVars == <<kind, nlink, icount, linkable>>
mountVars == <<phase, owner, mode, frees, perm>>
treeVars == <<mountVars, inodeVars, dentry, open, tree>>

Lowest(S) == CHOOSE i \in S : \A j \in S : i <= j
Free == {i \in Inodes : kind[i] = "free"}
Unborn == {e \in Dentries : dentry[e] = None}
Alive == Dentries \ Unborn
Hashed == {e \in Alive : dentry[e].hashed}
Root == Lowest(Inodes)

TreeInit ==
  /\ phase = "none" /\ owner = "none" /\ frees = 0
  /\ mode = None /\ perm = None
  /\ kind = [i \in Inodes |-> "free"]
  /\ nlink = [i \in Inodes |-> 0] /\ icount = nlink
  /\ linkable = {}
  /\ dentry = [e \in Dentries |-> None]
  /\ open = {} /\ tree = {}

-----------------------------------------------------------------------------
(***************************************************************************)
(* Mounting.                                                               *)
(***************************************************************************)
\* ramfs_init_fs_context; without memory there is no context.
InitFsContext ==
  /\ phase = "none"
  /\ phase' = "context" /\ owner' = "fc" /\ frees' = 0
  /\ mode' = [type |-> {}, perm |-> Default]
  /\ UNCHANGED <<perm, inodeVars, dentry, open, tree>>

\* result.uint_32 & S_IALLUGO
Mask(value) == [type |-> {}, perm |-> value.perm]

\* ramfs_parse_param: an unknown option is ignored, one that is no octal
\* number is an error and changes nothing either.
ParseParam(param) ==
  /\ phase = "context" /\ owner = "fc"
  /\ param.opt = "mode"
  /\ mode' = Mask(param.value)
  /\ UNCHANGED <<phase, owner, frees, perm, inodeVars, dentry, open, tree>>

\* ramfs_get_inode: the kind by the type bits of the mode.
GetInode(i, type) ==
  /\ kind' = [kind EXCEPT ![i] = CASE type = {"REG"} -> "reg"
                                   [] type = {"DIR"} -> "dir"
                                   [] type = {"LNK"} -> "lnk"
                                   [] OTHER -> "special"]
  /\ nlink' = [nlink EXCEPT ![i] = IF type = {"DIR"} THEN 2 ELSE 1]
  /\ icount' = [icount EXCEPT ![i] = 1]
  /\ UNCHANGED linkable

\* ramfs_get_tree, ramfs_fill_super: the super block takes the fs info over.
FillSuper ==
  /\ phase = "context" /\ owner = "fc"
  /\ owner' = "sb"
  /\ phase' = "mounted"
  /\ GetInode(Root, {"DIR"} \cup mode.type)
  /\ perm' = mode.perm
  /\ UNCHANGED <<mode, frees, dentry, open, tree>>

\* No inode or no dentry for the root: the super block is killed again, and
\* the context finds no fs info to free.
FillSuperFails ==
  /\ phase = "context" /\ owner = "fc"
  /\ frees' = frees + 1
  /\ owner' = "freed" /\ mode' = None
  /\ UNCHANGED <<phase, perm, inodeVars, dentry, open, tree>>

\* ramfs_free_fc of a context that was not mounted.
FreeFc ==
  /\ phase = "context"
  /\ frees' = IF owner = "fc" THEN frees + 1 ELSE frees
  /\ owner' = "freed" /\ mode' = None
  /\ phase' = "none"
  /\ UNCHANGED <<perm, inodeVars, dentry, open, tree>>

\* ramfs_kill_sb: the fs info, and kill_litter_super takes the pin of every
\* dentry and then the dentries themselves.
KillSb ==
  /\ phase = "mounted" /\ open = {}
  /\ frees' = frees + 1
  /\ owner' = "freed" /\ mode' = None
  /\ phase' = "none" /\ perm' = None
  /\ dentry' = [e \in Dentries |->
       IF e \in Alive /\ dentry[e].count > 1 THEN [dentry[e] EXCEPT !.count = @ - 1] ELSE None]
  /\ icount' = [i \in Inodes |->
       icount[i] - Cardinality({e \in Alive : dentry'[e] = None /\ dentry[e].inode = i})
                 - (IF i = Root THEN 1 ELSE 0)]
  /\ kind' = [i \in Inodes |-> IF icount'[i] = 0 THEN "free" ELSE kind[i]]
  /\ nlink' = [i \in Inodes |-> IF icount'[i] = 0 THEN 0 ELSE nlink[i]]
  /\ tree' = {}
  /\ UNCHANGED <<linkable, open>>

\* What ramfs_show_options adds to the line in /proc/mounts.
ShowOptions == IF mode = [type |-> {}, perm |-> Default] THEN None ELSE mode.perm

-----------------------------------------------------------------------------
(***************************************************************************)
(* The tree.                                                               *)
(***************************************************************************)
\* A directory that is not removed, and a name that it has or does not have.
LiveDir(d) == kind[d] = "dir" /\ (d = Root \/ \E e \in Hashed : dentry[e].inode = d)
Entry(d, n) == {e \in Hashed : dentry[e].dir = d /\ dentry[e].name = n}
Absent(d, n) == LiveDir(d) /\ Entry(d, n) = {} /\ Unborn # {}

\* d_instantiate and dget: the pin outlives the caller's own reference.
Pinned(d, n, i) == [dir |-> d, name |-> n, inode |-> i, count |-> 1, hashed |-> TRUE]
Instantiate(d, n, i) ==
  /\ dentry' = [dentry EXCEPT ![Lowest(Unborn)] = Pinned(d, n, i)]
  /\ tree' = tree \cup {[dir |-> d, name |-> n, inode |-> i]}

\* ramfs_mknod, which is ramfs_create for a regular file.
Mknod(d, n, type) ==
  /\ phase = "mounted"
  /\ Absent(d, n) /\ Free # {}
  /\ GetInode(Lowest(Free), type)
  /\ Instantiate(d, n, Lowest(Free))
  /\ UNCHANGED <<mountVars, open>>

\* Mutant: the parent does not count the new directory.
MkdirUncounted(d, n) ==
  /\ phase = "mounted"
  /\ Absent(d, n) /\ Free # {}
  /\ LET i == Lowest(Free)
     IN  /\ kind' = [kind EXCEPT ![i] = "dir"]
         /\ nlink' = [nlink EXCEPT ![i] = 2]
         /\ icount' = [icount EXCEPT ![i] = 1]
         /\ Instantiate(d, n, i)
  /\ UNCHANGED <<mountVars, linkable, open>>

Mkdir(d, n) ==
  /\ phase = "mounted"
  /\ Absent(d, n) /\ Free # {}
  /\ LET i == Lowest(Free)
     IN  /\ kind' = [kind EXCEPT ![i] = "dir"]
         /\ nlink' = [nlink EXCEPT ![i] = 2, ![d] = @ + 1]
         /\ icount' = [icount EXCEPT ![i] = 1]
         /\ Instantiate(d, n, i)
  /\ UNCHANGED <<mountVars, linkable, open>>

\* page_symlink needs a page of its own; when there is none the inode is put.
Symlink(d, n, ok) ==
  /\ phase = "mounted"
  /\ Absent(d, n) /\ Free # {}
  /\ IF ok
     THEN GetInode(Lowest(Free), {"LNK"}) /\ Instantiate(d, n, Lowest(Free))
     ELSE UNCHANGED <<inodeVars, dentry, tree>>
  /\ UNCHANGED <<mountVars, open>>

\* ramfs_tmpfile: no link and no pin, the open file alone keeps it.
Tmpfile(d) ==
  /\ phase = "mounted"
  /\ LiveDir(d) /\ Unborn # {} /\ Free # {}
  /\ LET i == Lowest(Free)
         e == Lowest(Unborn)
     IN  /\ kind' = [kind EXCEPT ![i] = "reg"]
         /\ nlink' = [nlink EXCEPT ![i] = 0]
         /\ icount' = [icount EXCEPT ![i] = 1]
         /\ dentry' = [dentry EXCEPT ![e] = [Pinned(d, None, i) EXCEPT !.hashed = FALSE]]
         /\ linkable' = linkable \cup {i}
         /\ open' = open \cup {e}
  /\ UNCHANGED <<mountVars, tree>>

-----------------------------------------------------------------------------
(***************************************************************************)
(* libfs and the VFS, as the operations of ramfs are called from there.    *)
(***************************************************************************)
\* A dentry with a reference less, that a lookup still finds or does not.
Unref(record, hashed) == [record EXCEPT !.count = @ - 1, !.hashed = hashed]

\* dput: the last reference takes the dentry, and iput the inode with it.
Dput(e, links, hashed) ==
  LET i == dentry[e].inode
      last == dentry[e].count = 1
      dead == last /\ icount[i] = 1
  IN  /\ dentry' = [dentry EXCEPT ![e] = IF last THEN None ELSE Unref(@, hashed)]
      /\ icount' = [icount EXCEPT ![i] = IF last THEN @ - 1 ELSE @]
      /\ kind' = [kind EXCEPT ![i] = IF dead THEN "free" ELSE @]
      /\ nlink' = [links EXCEPT ![i] = IF dead THEN 0 ELSE @]
      /\ linkable' = IF dead THEN linkable \ {i} ELSE linkable

Named(d, n, i) == [dir |-> d, name |-> n, inode |-> i]
NameOf(e) == Named(dentry[e].dir, dentry[e].name, dentry[e].inode)
Forget(e) == tree' = tree \ {NameOf(e)}

Open(e) ==
  /\ e \in Hashed \ open
  /\ open' = open \cup {e}
  /\ dentry' = [dentry EXCEPT ![e].count = @ + 1]
  /\ UNCHANGED <<mountVars, inodeVars, tree>>

Close(e) ==
  /\ e \in open
  /\ open' = open \ {e}
  /\ Dput(e, nlink, dentry[e].hashed)
  /\ UNCHANGED <<mountVars, tree>>

\* simple_link, of an open temporary file too.
Link(e, d, n) ==
  /\ phase = "mounted"
  /\ e \in Hashed \cup open
  /\ Absent(d, n)
  /\ LET i == dentry[e].inode
     IN  /\ kind[i] # "dir"
         /\ nlink[i] > 0 \/ i \in linkable
         /\ nlink' = [nlink EXCEPT ![i] = @ + 1]
         /\ icount' = [icount EXCEPT ![i] = @ + 1]
         /\ linkable' = linkable \ {i}
         /\ Instantiate(d, n, i)
  /\ UNCHANGED <<mountVars, kind, open>>

\* simple_unlink
Unlink(e) ==
  /\ phase = "mounted"
  /\ e \in Hashed
  /\ kind[dentry[e].inode] # "dir"
  /\ Dput(e, [nlink EXCEPT ![dentry[e].inode] = @ - 1], FALSE)
  /\ Forget(e)
  /\ UNCHANGED <<mountVars, open>>

EmptyDir(i) == kind[i] = "dir" /\ \A e \in Hashed : dentry[e].dir # i

\* simple_rmdir
Rmdir(e) ==
  /\ phase = "mounted"
  /\ e \in Hashed
  /\ EmptyDir(dentry[e].inode)
  /\ Dput(e, [nlink EXCEPT ![dentry[e].inode] = @ - 2, ![dentry[e].dir] = @ - 1], FALSE)
  /\ Forget(e)
  /\ UNCHANGED <<mountVars, open>>

\* The directories from d up to the root.
Above(d) ==
  LET up[k \in 0 .. Cardinality(Inodes)] ==
        IF k = 0 THEN {d}
        ELSE up[k - 1] \cup {dentry[e].dir : e \in {x \in Hashed : dentry[x].inode \in up[k - 1]}}
  IN  up[Cardinality(Inodes)]

\* d_move: the dentry under another name.
Moved(record, d, n) == [record EXCEPT !.dir = d, !.name = n]

\* simple_rename to a name that does not exist.
RenameNew(e, d, n) ==
  /\ phase = "mounted"
  /\ e \in Hashed
  /\ LiveDir(d) /\ Entry(d, n) = {} /\ dentry[e].inode \notin Above(d)
  /\ dentry' = [dentry EXCEPT ![e] = Moved(@, d, n)]
  /\ nlink' = IF kind[dentry[e].inode] = "dir" /\ dentry[e].dir # d
              THEN [nlink EXCEPT ![dentry[e].dir] = @ - 1, ![d] = @ + 1] ELSE nlink
  /\ tree' = (tree \ {NameOf(e)}) \cup {Named(d, n, dentry[e].inode)}
  /\ UNCHANGED <<mountVars, kind, icount, linkable, open>>

\* simple_rename over a name: the target loses its link and its pin, and the
\* dentry takes its place.
RenameOver(e, t) ==
  /\ phase = "mounted"
  /\ {e, t} \subseteq Hashed
  /\ LET i == dentry[e].inode
         j == dentry[t].inode
         dirs == kind[i] = "dir"
         last == dentry[t].count = 1
         dead == last /\ icount[j] = 1
         links == IF dirs THEN [[nlink EXCEPT ![j] = @ - 2] EXCEPT ![dentry[e].dir] = @ - 1]
                  ELSE [nlink EXCEPT ![j] = @ - 1]
     IN  /\ i # j /\ dirs = (kind[j] = "dir")
         /\ dirs => EmptyDir(j) /\ i \notin Above(dentry[t].dir)
         /\ dentry' = [dentry EXCEPT
              ![e] = Moved(@, dentry[t].dir, dentry[t].name),
              ![t] = IF last THEN None ELSE Unref(@, FALSE)]
         /\ icount' = [icount EXCEPT ![j] = IF last THEN @ - 1 ELSE @]
         /\ kind' = [kind EXCEPT ![j] = IF dead THEN "free" ELSE @]
         /\ nlink' = [links EXCEPT ![j] = IF dead THEN 0 ELSE @]
         /\ tree' = (tree \ {NameOf(e), NameOf(t)})
                    \cup {Named(dentry[t].dir, dentry[t].name, i)}
  /\ UNCHANGED <<mountVars, linkable, open>>

TreeNext ==
  \/ InitFsContext \/ FillSuper \/ FillSuperFails \/ FreeFc \/ KillSb
  \/ \E param \in Params : ParseParam(param)
  \/ \E d \in Inodes :
       \/ Tmpfile(d)
       \/ \E n \in Names :
            \/ Mkdir(d, n)
            \/ \E type \in Types : Mknod(d, n, type)
            \/ \E ok \in BOOLEAN : Symlink(d, n, ok)
            \/ \E e \in Dentries : Link(e, d, n) \/ RenameNew(e, d, n)
  \/ \E e \in Dentries :
       \/ Open(e) \/ Close(e) \/ Unlink(e) \/ Rmdir(e)
       \/ \E t \in Dentries : RenameOver(e, t)

TreeSpec == TreeInit /\ [][TreeNext]_treeVars
-----------------------------------------------------------------------------
\* Every variable has its type.
TreeTypeOK ==
  /\ phase \in {"none", "context", "mounted"}
  /\ owner \in {"none", "fc", "sb", "freed"}
  /\ frees \in Nat
  /\ kind \in [Inodes -> {"free", "dir", "reg", "lnk", "special"}]
  /\ nlink \in [Inodes -> Nat] /\ icount \in [Inodes -> Nat]
  /\ dentry \in [Dentries -> Records \cup {None}] /\ open \subseteq Alive
  /\ tree \subseteq [dir : Inodes, name : Names, inode : Inodes]

Subdirs(d) == {t \in tree : t.dir = d /\ kind[t.inode] = "dir"}
LinksOf(i) == {t \in tree : t.inode = i}

\* The tree is what the calls made of it, and the counters know: no name is
\* lost and none is left over, a directory has two links and one for each of
\* its directories, another inode one for each name, an inode lives exactly
\* as long as a name or an open file leads to it, and after the unmount
\* nothing is left; the root is a directory with the permissions that
\* /proc/mounts shows, and the fs info is freed exactly once, by whoever has
\* it last (ramfs_mknod, ramfs_mkdir, ramfs_symlink, ramfs_tmpfile, the
\* simple_* operations, ramfs_fill_super, ramfs_free_fc, ramfs_kill_sb).
TreeExact ==
  /\ tree = {NameOf(e) : e \in Hashed}
  /\ \A e \in Alive :
       dentry[e].count = (IF e \in Hashed THEN 1 ELSE 0) + (IF e \in open THEN 1 ELSE 0)
  /\ \A i \in Inodes \ Free :
       /\ icount[i] = Cardinality({e \in Alive : dentry[e].inode = i}) + (IF i = Root THEN 1 ELSE 0)
       /\ icount[i] > 0
       /\ nlink[i] = IF kind[i] # "dir" THEN Cardinality(LinksOf(i))
                     ELSE IF LiveDir(i) THEN 2 + Cardinality(Subdirs(i)) ELSE 0
  /\ phase = "mounted" => /\ kind[Root] = "dir"
                          /\ perm = IF ShowOptions = None THEN Default ELSE ShowOptions
                          /\ owner = "sb"
  /\ phase # "mounted" => Free = Inodes /\ Alive = {}
  /\ frees = IF owner = "freed" THEN 1 ELSE 0
=============================================================================
