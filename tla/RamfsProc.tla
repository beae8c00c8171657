------------------------------ MODULE RamfsProc ------------------------------
(***************************************************************************)
(* The proc interface of the ramfs persistence                             *)
(* (kvm/linux-5.15.178/fs/ramfs/inode.c): /proc/fs/ramfs/bind and sync     *)
(* from ramfs_init_proc on, parse_mount_path, ramfs_bind with the life of  *)
(* the string ramfs_sync_dir, and reading the binding in pieces.  What a   *)
(* flush does with the directory is RamfsSync.                             *)
(*                                                                         *)
(* A path is a sequence of characters; a blank is a space or a tab.        *)
(***************************************************************************)
EXTENDS Integers, Sequences, FiniteSets, SequencesExt

CONSTANTS Writers,   \* threads that write to bind
          Readers,   \* open files of bind that are read
          Characters,
          Buffers,   \* what is written
          Directory, \* paths of directories that can be written to
          Other,     \* paths of anything else
          Counts,    \* how much a read asks for
          MaxPath,   \* RAMFS_MAX_PATH
          PathMax,   \* PATH_MAX
          BindBound, \* how many strings an instance allocates
          NoPath

Blanks == {" "}
Newline == "\n"
NotBound == "(no sync directory)" \* the message for it, as one character

\* Paths are sequences of characters, and NoPath is none.
ProcSound ==
  /\ Newline \in Characters /\ NotBound \in Characters
  /\ Directory \subseteq Seq(Characters) /\ NoPath \notin Directory
  /\ Counts \subseteq Nat /\ BindBound \in Nat

ASSUME ProcSoundHolds == ProcSound

VARIABLES entries,   \* what there is under /proc/fs/ramfs, the directory included
          init,      \* where ramfs_init_proc is; "up" once init_ramfs_fs is over
          strings,   \* strings[k]: [path, freed], in the order of the kstrdups
          sync_dir,  \* ramfs_sync_dir: the number of a string, or 0 for NULL
          pc, buffer, held, sync_path, ptr, \* of a writer
          printedFreed, \* whether the pr_info of some writer read a freed string
          ppos, got, \* of a reader: the position, and what it was given
          since      \* what was bound since the reader's first read (history)

writerVars == <<pc, buffer, held, sync_path, ptr>>
readerVars == <<ppos, got, since>>
procVars == <<entries, init, strings, sync_dir, writerVars, printedFreed, readerVars>>

ProcInit ==
  /\ entries = {} /\ init = "dir"
  /\ strings = <<>> /\ sync_dir = 0
  /\ pc = [t \in Writers |-> "idle"]
  /\ buffer = [t \in Writers |-> <<>>]
  /\ held = [t \in Writers |-> {}]
  /\ sync_path = [t \in Writers |-> NoPath]
  /\ ptr = [t \in Writers |-> 0]
  /\ printedFreed = FALSE
  /\ ppos = [r \in Readers |-> 0] /\ got = [r \in Readers |-> <<>>]
  /\ since = [r \in Readers |-> {}]

\* ramfs_init_proc makes the directory and the two files one after another.
MakeEntry ==
  /\ init \in {"dir", "bind", "sync"}
  /\ entries' = entries \cup {init}
  /\ init' = CASE init = "dir" -> "bind" [] init = "bind" -> "sync" [] init = "sync" -> "up"
  /\ UNCHANGED <<strings, sync_dir, writerVars, printedFreed, readerVars>>

\* One of them cannot be made: back to the label that takes away the others.
MakeEntryFails ==
  /\ init \in {"dir", "bind", "sync"}
  /\ init' = CASE init = "dir" -> "up"
              [] init = "bind" -> "remove_dir"
              [] init = "sync" -> "remove_bind"
  /\ UNCHANGED <<entries, strings, sync_dir, writerVars, printedFreed, readerVars>>

\* remove_bind falls through to remove_dir, and init_ramfs_fs goes on all the
\* same after a failure.
RemoveBind ==
  /\ init = "remove_bind"
  /\ entries' = entries \ {"bind"}
  /\ init' = "remove_dir"
  /\ UNCHANGED <<strings, sync_dir, writerVars, printedFreed, readerVars>>

RemoveDir ==
  /\ init = "remove_dir"
  /\ entries' = entries \ {"dir"}
  /\ init' = "up"
  /\ UNCHANGED <<strings, sync_dir, writerVars, printedFreed, readerVars>>

\* No program runs before the initcalls are over.
Usable == init = "up" /\ "bind" \in entries

-----------------------------------------------------------------------------
(***************************************************************************)
(* parse_mount_path, as a fold over the characters of the buffer.          *)
(***************************************************************************)
\* Mutant: no room is left for the zero at the end.
ScanFull(s, word, c) ==
  IF Len(s[word]) >= MaxPath THEN [s EXCEPT !.at = "long"]
  ELSE [s EXCEPT !.at = word, ![word] = Append(@, c)]

Scan(s, word, c) ==
  IF Len(s[word]) >= MaxPath - 1 THEN [s EXCEPT !.at = "long"]
  ELSE [s EXCEPT !.at = word, ![word] = Append(@, c)]

\* A character beyond the second word, or after an error, is not looked at.
ParseChar(s, c) ==
  CASE s.at = "start" -> IF c \in Blanks THEN s
                         ELSE IF c = Newline THEN [s EXCEPT !.at = "end"] ELSE Scan(s, "ramfs", c)
    [] s.at = "ramfs" -> IF c \in Blanks THEN [s EXCEPT !.at = "between"]
                         ELSE IF c = Newline THEN [s EXCEPT !.at = "end"] ELSE Scan(s, "ramfs", c)
    [] s.at = "between" -> IF c \in Blanks THEN s
                         ELSE IF c = Newline THEN [s EXCEPT !.at = "end"] ELSE Scan(s, "sync", c)
    [] s.at = "sync" -> IF c \in Blanks \cup {Newline} THEN [s EXCEPT !.at = "end"]
                         ELSE Scan(s, "sync", c)
    [] OTHER -> s

\* The sync path, or NoPath: an empty path or a long one is an error.
ParseMountPath(text) ==
  LET s == FoldLeft(ParseChar, [at |-> "start", ramfs |-> <<>>, sync |-> <<>>], text)
  IN  IF s.at = "long" \/ s.ramfs = <<>> \/ s.sync = <<>> THEN NoPath ELSE s.sync

-----------------------------------------------------------------------------
(***************************************************************************)
(* ramfs_proc_bind_write and ramfs_bind.                                   *)
(***************************************************************************)
ProcGoto(t, l) == pc' = [pc EXCEPT ![t] = l]

\* A step of the call that changes where it is and what it holds.
ProcStep(t, l, h) ==
  /\ ProcGoto(t, l)
  /\ held' = [held EXCEPT ![t] = h]
  /\ UNCHANGED <<entries, init, strings, sync_dir, buffer, sync_path, ptr, printedFreed,
                 readerVars>>

\* The end of the call; what is freed at this return.
Return(t, freed) ==
  /\ ProcGoto(t, "idle")
  /\ held' = [held EXCEPT ![t] = @ \ freed]
  /\ buffer' = [buffer EXCEPT ![t] = <<>>]
  /\ sync_path' = [sync_path EXCEPT ![t] = NoPath]
  /\ ptr' = [ptr EXCEPT ![t] = 0]
  /\ UNCHANGED <<entries, init, strings, sync_dir, printedFreed, readerVars>>

\* The call begins; one with PATH_MAX characters returns at once.
BindWrite(t, text) ==
  /\ Usable
  /\ pc[t] = "idle"
  /\ Len(text) < PathMax
  /\ buffer' = [buffer EXCEPT ![t] = text]
  /\ ProcGoto(t, "kbuf")
  /\ UNCHANGED <<entries, init, strings, sync_dir, held, sync_path, ptr, printedFreed, readerVars>>

\* The kmallocs of kbuf, ramfs_path and sync_path.
Kmalloc(t) ==
  \/ pc[t] = "kbuf" /\ ProcStep(t, "ramfs_path", held[t] \cup {"kbuf"})
  \/ pc[t] = "ramfs_path" /\ ProcStep(t, "sync_path", held[t] \cup {"ramfs_path"})
  \/ pc[t] = "sync_path" /\ ProcStep(t, "copy", held[t] \cup {"sync_path"})

\* Each failure has a return of its own that frees what it names.
KmallocFails(t) ==
  \/ pc[t] = "kbuf" /\ Return(t, {})
  \/ pc[t] = "ramfs_path" /\ Return(t, {"kbuf"})
  \/ pc[t] = "sync_path" /\ Return(t, {"kbuf", "ramfs_path"})

\* copy_from_user, or a fault in it.
CopyFromUser(t) ==
  /\ pc[t] = "copy"
  /\ \/ ProcStep(t, "parse", held[t])
     \/ ProcStep(t, "out", held[t])

ParseFails(t) ==
  /\ pc[t] = "parse"
  /\ ParseMountPath(buffer[t]) = NoPath
  /\ ProcStep(t, "out", held[t])

Parse(t) ==
  /\ pc[t] = "parse"
  /\ ParseMountPath(buffer[t]) # NoPath
  /\ sync_path' = [sync_path EXCEPT ![t] = ParseMountPath(buffer[t])]
  /\ ProcGoto(t, "lookup")
  /\ UNCHANGED <<entries, init, strings, sync_dir, buffer, held, ptr, printedFreed, readerVars>>

\* kern_path, which may fail for any path, and takes a reference if it does not.
LookupFails(t) ==
  /\ pc[t] = "lookup"
  /\ ProcStep(t, "out", held[t])

Lookup(t) ==
  /\ pc[t] = "lookup"
  /\ sync_path[t] \in Directory \cup Other
  /\ ProcStep(t, "check", held[t] \cup {"path"})

\* What was found is a directory that can be written to, or it is put again.
CheckDir(t) ==
  /\ pc[t] = "check"
  /\ ProcStep(t, IF sync_path[t] \in Directory THEN "lock" ELSE "put", held[t])

\* The label out of ramfs_bind.
PathPut(t) ==
  /\ pc[t] = "put"
  /\ ProcStep(t, "out", held[t] \ {"path"})

\* The label out of ramfs_proc_bind_write.
Out(t) ==
  /\ pc[t] = "out"
  /\ Return(t, {"kbuf", "ramfs_path", "sync_path"})

\* Mutant: the string that was bound is not freed.
ReplacedKept == strings

\* kfree(ramfs_sync_dir)
Replaced ==
  [k \in DOMAIN strings |->
     IF k = sync_dir THEN [strings[k] EXCEPT !.freed = TRUE] ELSE strings[k]]

\* Under the mutex: kstrdup, kfree of the old string, and the new one is bound.
Swap(t) ==
  /\ pc[t] = "lock"
  /\ Len(strings) < BindBound
  /\ strings' = Append(Replaced, [path |-> sync_path[t], freed |-> FALSE])
  /\ sync_dir' = Len(strings) + 1
  /\ since' = [r \in Readers |-> since[r] \cup {sync_path[t]}]
  /\ ProcGoto(t, "load")
  /\ UNCHANGED <<entries, init, buffer, held, sync_path, ptr, printedFreed, ppos, got>>

StrdupFails(t) ==
  /\ pc[t] = "lock"
  /\ ProcStep(t, "put", held[t])

\* pr_info after the unlock: it takes the global pointer, then the characters.
LoadPtr(t) ==
  /\ pc[t] = "load"
  /\ ptr' = [ptr EXCEPT ![t] = sync_dir]
  /\ ProcGoto(t, "print")
  /\ UNCHANGED <<entries, init, strings, sync_dir, buffer, held, sync_path, printedFreed,
                 readerVars>>

ShowMessage(t) ==
  /\ pc[t] = "print"
  /\ printedFreed' = (printedFreed \/ strings[ptr[t]].freed)
  /\ ProcGoto(t, "put")
  /\ UNCHANGED <<entries, init, strings, sync_dir, buffer, held, sync_path, ptr, readerVars>>

-----------------------------------------------------------------------------
\* The text in temp: the path and a newline, made anew under the mutex.
Message == <<NotBound, Newline>>
TextOf(path) == IF path = NoPath THEN Message ELSE Append(path, Newline)
Bound == IF sync_dir = 0 THEN NoPath ELSE strings[sync_dir].path

\* What a read returns: the text from *ppos on, at most count of it.
Piece(r, count) ==
  SubSeq(TextOf(Bound), ppos[r] + 1, Min({ppos[r] + count, Len(TextOf(Bound))}))

\* ramfs_proc_bind_read; at the end of the text it returns 0.
BindRead(r, count) ==
  /\ Usable
  /\ Piece(r, count) # <<>>
  /\ got' = [got EXCEPT ![r] = @ \o Piece(r, count)]
  /\ ppos' = [ppos EXCEPT ![r] = @ + Len(Piece(r, count))]
  /\ since' = [since EXCEPT ![r] = IF ppos[r] = 0 THEN {Bound} ELSE @]
  /\ UNCHANGED <<entries, init, strings, sync_dir, writerVars, printedFreed>>

ProcNext ==
  \/ MakeEntry \/ MakeEntryFails \/ RemoveBind \/ RemoveDir
  \/ \E t \in Writers :
       \/ \E text \in Buffers : BindWrite(t, text)
       \/ Kmalloc(t) \/ KmallocFails(t) \/ CopyFromUser(t) \/ Parse(t) \/ ParseFails(t)
       \/ Lookup(t) \/ LookupFails(t) \/ CheckDir(t)
       \/ Swap(t) \/ StrdupFails(t) \/ LoadPtr(t) \/ ShowMessage(t)
       \/ PathPut(t) \/ Out(t)
  \/ \E r \in Readers, count \in Counts : BindRead(r, count)

ProcSpec == ProcInit /\ [][ProcNext]_procVars
-----------------------------------------------------------------------------
\* Every variable has its type.
ProcTypeOK ==
  /\ entries \subseteq {"dir", "bind", "sync"}
  /\ init \in {"dir", "bind", "sync", "remove_bind", "remove_dir", "up"}
  /\ sync_dir \in 0 .. Len(strings) /\ printedFreed \in BOOLEAN
  /\ pc \in [Writers -> {"idle", "kbuf", "ramfs_path", "sync_path", "copy", "parse", "lookup",
                         "check", "lock", "load", "print", "put", "out"}]
  /\ held \in [Writers -> SUBSET {"kbuf", "ramfs_path", "sync_path", "path"}]
  /\ ppos \in [Readers -> Nat]

\* The words of the first line, by where they begin.
LineOf(text) == SubSeq(text, 1, IF \E i \in DOMAIN text : text[i] = Newline
                                THEN (CHOOSE i \in DOMAIN text : text[i] = Newline /\
                                        \A j \in 1 .. i - 1 : text[j] # Newline) - 1
                                ELSE Len(text))
Begins(line) == {i \in DOMAIN line : line[i] \notin Blanks /\ (i > 1 => line[i - 1] \in Blanks)}
WordAt(line, i) ==
  SubSeq(line, i, CHOOSE j \in i .. Len(line) :
                    /\ \A k \in i .. j : line[k] \notin Blanks
                    /\ j < Len(line) => line[j + 1] \in Blanks)
SecondWord(text) ==
  LET line == LineOf(text)
      words == SetToSortSeq({[from |-> i, word |-> WordAt(line, i)] : i \in Begins(line)},
                            LAMBDA x, y : x.from < y.from)
  IN  IF Len(words) < 2 \/ \E k \in 1 .. 2 : Len(words[k].word) >= MaxPath
      THEN NoPath ELSE words[2].word

\* The path that a writer of /proc/fs/ramfs/bind looks up is the second word of
\* the line it wrote, whatever blanks are around the words, and there is none
\* if a word is missing or too long (parse_mount_path, ramfs_proc_bind_write).
PathParsed == \A t \in Writers : sync_path[t] # NoPath => sync_path[t] = SecondWord(buffer[t])

\* Whatever the threads do to the binding at once: it names a directory; the
\* string that is bound is the only one that is not freed, so none is lost
\* and none is used by a read or a flush after it is gone (the message of
\* ramfs_bind, printed after the unlock, is the exception); a call that
\* returns, wherever it does, has freed its buffers and put its path; once
\* ramfs_init_proc is over the interface is there whole or not at all; and a
\* reader is given, at each place of the text, what was bound at some moment
\* of its reading (ramfs_bind, ramfs_proc_bind_read, ramfs_proc_bind_write,
\* ramfs_init_proc).
BindExact ==
  /\ {k \in DOMAIN strings : ~strings[k].freed} = {sync_dir} \ {0}
  /\ Bound # NoPath => Bound \in Directory
  /\ \A t \in Writers : pc[t] = "idle" => held[t] = {}
  /\ init = "up" => entries \in {{}, {"dir", "bind", "sync"}}
  /\ \A r \in Readers : \A i \in DOMAIN got[r] :
       \E path \in since[r] : i <= Len(TextOf(path)) /\ got[r][i] = TextOf(path)[i]
=============================================================================
