------------------------------- MODULE GPTfs --------------------------------
(***************************************************************************)
(* A session of fuse/gptfs.py: a directory with the files input, output    *)
(* and error.  FUSE runs the operations in threads of its own              *)
(* (nothreads=False); every write to input starts a worker that sends the  *)
(* content of input to a language model and puts the reply into output and *)
(* error, each under the lock of its file.  Sessions share nothing, so one *)
(* is enough.  The operations that only read, or only refuse, change no    *)
(* state; times are left out.                                              *)
(***************************************************************************)
EXTENDS Naturals, Sequences

CONSTANTS MAXWRITES,  \* bound on writes
          MAXCHANGES, \* bound on writes and truncations together
          Letters,  \* characters of a prompt
          SPACE,    \* white space
          HALF,     \* a part of a character, which does not decode
          MAXLEN    \* bound on the length of input

ASSUME GPTfsAssumption ==
  /\ {MAXWRITES, MAXCHANGES, MAXLEN} \subseteq Nat
  /\ SPACE \notin Letters /\ HALF \notin Letters /\ SPACE # HALF

Workers == 1 .. MAXWRITES  \* worker threads, in the order they are started
Units == Letters \cup {SPACE, HALF}
Empty == <<>>

VARIABLES input,    \* files[input]
          st_size,  \* file_attrs[input]['st_size']
          output, error,  \* the other files: the prompt that was replied to, or Empty
          wpc,      \* wpc[w]: where worker w is
          prompt,   \* prompt[w]: input_data
          failed,   \* failed[w]: the call of the interface failed
          version,  \* how often input has changed (history)
          born,     \* born[w]: the version that w's write made (history)
          used,     \* used[w]: the version that w read (history)
          crossed,  \* one worker set output between the two stores of another (history)
          overtaken, \* a reply was stored after that to a later request (history)
          written   \* the last change of input was a write (history)

vars == <<input, st_size, output, error, wpc, prompt, failed, version, born, used, crossed,
          overtaken, written>>
history == <<version, born, used, crossed, overtaken, written>>

Init ==
  /\ input = Empty /\ st_size = 0 /\ output = Empty /\ error = Empty
  /\ wpc = [w \in Workers |-> "idle"]
  /\ prompt = [w \in Workers |-> Empty]
  /\ failed = [w \in Workers |-> FALSE]
  /\ version = 0
  /\ born = [w \in Workers |-> 0]
  /\ used = [w \in Workers |-> 0]
  /\ crossed = FALSE
  /\ overtaken = FALSE
  /\ written = FALSE

\* The first n units of s: s[:n].
Upto(s, n) == SubSeq(s, 1, IF n < Len(s) THEN n ELSE Len(s))

\* new_content of a write of data at this offset.
Overwrite(s, offset, data) == Upto(s, offset) \o data \o SubSeq(s, offset + Len(data) + 1, Len(s))

Blank(s) == \A i \in DOMAIN s : s[i] = SPACE
Decodes(s) == \A i \in DOMAIN s : s[i] # HALF
Busy(w) == wpc[w] \in {"call", "output", "error"}

-----------------------------------------------------------------------------
\* The part of write that concerns the file.
Store(offset, data) ==
  /\ input' = Overwrite(input, offset, data)
  /\ st_size' = Len(Overwrite(input, offset, data))
  /\ version' = version + 1
  /\ written' = TRUE

\* Mutant: the prompt is what was read before the update.
WriteStale(w, offset, data) ==
  /\ wpc[w] = "idle"
  /\ Store(offset, data)
  /\ wpc' = [wpc EXCEPT ![w] = "call"]
  /\ prompt' = [prompt EXCEPT ![w] = input]
  /\ used' = [used EXCEPT ![w] = version]
  /\ born' = [born EXCEPT ![w] = version + 1]
  /\ UNCHANGED <<output, error, failed, crossed, overtaken>>

\* Mutant: no worker is started while one is busy.
WriteOnce(w, offset, data) ==
  /\ wpc[w] = "idle"
  /\ Store(offset, data)
  /\ wpc' = IF \E v \in Workers : Busy(v) THEN wpc ELSE [wpc EXCEPT ![w] = "start"]
  /\ born' = [born EXCEPT ![w] = version + 1]
  /\ UNCHANGED <<output, error, prompt, failed, used, crossed, overtaken>>

\* write, all of it under the lock of input: the file, its size, a new worker.
Write(w, offset, data) ==
  /\ wpc[w] = "idle"
  /\ Store(offset, data)
  /\ wpc' = [wpc EXCEPT ![w] = "start"]
  /\ born' = [born EXCEPT ![w] = version + 1]
  /\ UNCHANGED <<output, error, prompt, failed, used, crossed, overtaken>>

\* truncate: st_size becomes length even when that is beyond the content.
Truncate(length) ==
  /\ input' = Upto(input, length)
  /\ st_size' = length
  /\ version' = version + 1
  /\ written' = FALSE
  /\ UNCHANGED <<output, error, wpc, prompt, failed, born, used, crossed, overtaken>>

-----------------------------------------------------------------------------
(***************************************************************************)
(* _process_input, in worker w.                                            *)
(***************************************************************************)
\* The thread ends, and its variables with it.
End(w) ==
  /\ wpc' = [wpc EXCEPT ![w] = "done"]
  /\ prompt' = [prompt EXCEPT ![w] = Empty]
  /\ failed' = [failed EXCEPT ![w] = FALSE]

\* input is read and decoded, under its lock; a worker with nothing to ask, or
\* with something that does not decode, ends.
ReadInput(w) ==
  /\ wpc[w] = "start"
  /\ \/ /\ Decodes(input) /\ ~Blank(input)
        /\ wpc' = [wpc EXCEPT ![w] = "call"]
        /\ prompt' = [prompt EXCEPT ![w] = input]
        /\ used' = [used EXCEPT ![w] = version]
        /\ UNCHANGED failed
     \/ /\ ~Decodes(input) \/ Blank(input)
        /\ End(w)
        /\ UNCHANGED used
  /\ UNCHANGED <<input, st_size, output, error, version, born, crossed, overtaken, written>>

\* _call_gpt_api: a reply, or an error (also after the 30 seconds).
CallGptApi(w) ==
  /\ wpc[w] = "call"
  /\ wpc' = [wpc EXCEPT ![w] = "output"]
  /\ \E b \in BOOLEAN : failed' = [failed EXCEPT ![w] = b]
  /\ UNCHANGED <<input, st_size, output, error, prompt, history>>

\* The first of the two stores, each under the lock of its own file.  Nothing
\* orders the stores of two workers, nor their replies.
SetOutput(w) ==
  /\ wpc[w] = "output"
  /\ output' = IF failed[w] THEN Empty ELSE prompt[w]
  /\ wpc' = [wpc EXCEPT ![w] = "error"]
  /\ crossed' = (crossed \/ \E v \in Workers : wpc[v] = "error")
  /\ overtaken' = (overtaken \/ \E v \in Workers :
                                 used[v] > used[w] /\ wpc[v] \in {"error", "done"})
  /\ UNCHANGED <<input, st_size, error, prompt, failed, version, born, used, written>>

\* Mutant: the error of an earlier request stays.
SetErrorOnly(w) ==
  /\ wpc[w] = "error"
  /\ error' = IF failed[w] THEN prompt[w] ELSE error
  /\ End(w)
  /\ UNCHANGED <<input, st_size, output, history>>

SetError(w) ==
  /\ wpc[w] = "error"
  /\ error' = IF failed[w] THEN prompt[w] ELSE Empty
  /\ End(w)
  /\ UNCHANGED <<input, st_size, output, history>>

-----------------------------------------------------------------------------
Work(w) == ReadInput(w) \/ CallGptApi(w) \/ SetOutput(w) \/ SetError(w)

\* The writes that fit in MAXLEN, at any offset.
Data == {<<u>> : u \in Units} \cup {<<u, v>> : u, v \in Units}

NextWorker(w) == \A v \in 1 .. w - 1 : wpc[v] # "idle"

Change ==
  /\ version < MAXCHANGES
  /\ \/ \E w \in Workers, data \in Data : \E offset \in 0 .. MAXLEN - Len(data) :
          NextWorker(w) /\ Write(w, offset, data)
     \/ \E length \in 0 .. MAXLEN : Truncate(length)

Next ==
  \/ Change
  \/ \E w \in Workers : Work(w)

\* A started thread runs, and the call of the interface times out.
Spec == Init /\ [][Next]_vars /\ \A w \in Workers : WF_vars(Work(w))

-----------------------------------------------------------------------------
\* The type invariant of the files and the workers.
TypeOK ==
  /\ {input, output, error} \subseteq Seq(Units) /\ Len(input) <= MAXLEN
  /\ st_size \in 0 .. MAXLEN
  /\ wpc \in [Workers -> {"idle", "start", "call", "output", "error", "done"}]
  /\ prompt \in [Workers -> Seq(Units)]
  /\ failed \in [Workers -> BOOLEAN]
  /\ version \in Nat /\ born \in [Workers -> Nat] /\ used \in [Workers -> Nat]
  /\ {crossed, overtaken, written} \subseteq BOOLEAN

\* A worker asks about the content as its own write left it, or a later one,
\* never about what was there before.
PromptFresh == \A w \in Workers : Busy(w) => used[w] >= born[w]

\* When no worker is between the two files, output and error are those of one
\* request, one of them empty, however many requests are under way; only a
\* worker that sets output between the two stores of another can mix them.
PairCoherent ==
  ~crossed /\ (\A w \in Workers : wpc[w] # "error") => output = Empty \/ error = Empty

\* In the end the files hold the reply to the last thing written, whichever
\* workers ran at the same time, unless a reply was stored after that to a later
\* request, or two workers crossed between the files.
FinalAnswer ==
  <>[](~crossed /\ ~overtaken /\ written /\ Decodes(input) /\ ~Blank(input)
         => input \in {output, error})
=============================================================================
