----------------------------- MODULE PartsProofs -----------------------------
(***************************************************************************)
(* Theorems about the parts of the repository that keep to themselves: a   *)
(* session of GPTfs, the packet capture, the ACPI table, the tree of       *)
(* ramfs, its sync directory in proc and the NCCL benchmark with two GPUs. *)
(* No part reads a variable of another one; each has an inductive          *)
(* invariant of its own.                                                   *)
(***************************************************************************)
EXTENDS GPTfs, NcclThreads, Capture, AcpiTable, RamfsTree, RamfsProc,
        FiniteSetTheorems, WellFoundedInduction, TLAPS

(***************************************************************************)
(* What a session of GPTfs promises, for any number of writes, any input   *)
(* and any interleaving of the workers.  SessionInv is inductive: AskedInv *)
(* says how old a prompt can be, the other parts say that the worker       *)
(* between its two stores, of which there is one unless two have crossed,  *)
(* owns output and error.                                                  *)
(***************************************************************************)
\* A worker that has not read input yet can only read what its write left, or
\* something later.
AskedInv ==
  \A w \in Workers :
    /\ wpc[w] = "start" => born[w] <= version
    /\ Busy(w) => used[w] >= born[w]

\* Unless two have crossed, one worker at most is between the two files.
OneBetween ==
  ~crossed => \A v, w \in Workers : wpc[v] = "error" /\ wpc[w] = "error" => v = w

\* A worker between the two files has put its own reply into output.
HalfDone ==
  ~crossed => \A w \in Workers :
    wpc[w] = "error" => output = IF failed[w] THEN Empty ELSE prompt[w]

\* The inductive invariant.
SessionInv == TypeOK /\ AskedInv /\ OneBetween /\ HalfDone /\ PairCoherent

-----------------------------------------------------------------------------
\* s[:n] is a sequence of the same units, of length n at most.
LEMMA UptoFits ==
  ASSUME NEW S, NEW s \in Seq(S), NEW n \in Nat
  PROVE  Upto(s, n) \in Seq(S) /\ Len(Upto(s, n)) <= n /\ Len(Upto(s, n)) <= Len(s)
  BY DEF Upto

\* A write of data at an offset that leaves room for it keeps input in MAXLEN.
LEMMA OverwriteFits ==
  ASSUME NEW S, NEW s \in Seq(S), NEW data \in Seq(S), NEW m \in Nat, Len(s) <= m,
         NEW from \in 0 .. m - Len(data)
  PROVE  Overwrite(s, from, data) \in Seq(S) /\ Len(Overwrite(s, from, data)) <= m
<1> DEFINE head == Upto(s, from)
           tail == SubSeq(s, from + Len(data) + 1, Len(s))
<1>1. from \in Nat /\ Len(data) \in Nat /\ Len(s) \in Nat /\ from + Len(data) <= m
  OBVIOUS
<1>2. head \in Seq(S) /\ Len(head) <= from
  BY <1>1, UptoFits
<1>3. tail \in Seq(S)
  BY <1>1
<1>4. Overwrite(s, from, data) = (head \o data) \o tail
  BY DEF Overwrite
<1>5. head \o data \in Seq(S) /\ Len(head \o data) = Len(head) + Len(data) /\ Len(head) \in Nat
  BY <1>2
<1>6. /\ (head \o data) \o tail \in Seq(S)
      /\ Len((head \o data) \o tail) = Len(head) + Len(data) + Len(tail)
  BY <1>3, <1>5
<1>7. Len(tail) = IF from + Len(data) < Len(s) THEN Len(s) - (from + Len(data)) ELSE 0
  BY <1>1
<1>8. Len(tail) \in Nat /\ Len(head) + Len(data) + Len(tail) <= m
  <2>1. ASSUME NEW h \in Nat, NEW d \in Nat, NEW n \in Nat, NEW t,
               h <= from, from + d <= m, n <= m,
               t = IF from + d < n THEN n - (from + d) ELSE 0
        PROVE  t \in Nat /\ h + d + t <= m
    BY <1>1, <2>1
  <2>2. Len(head) \in Nat /\ Len(head) <= from /\ from + Len(data) <= m /\ Len(s) <= m
    BY <1>1, <1>2, <1>5
  <2> HIDE DEF head, tail
  <2> QED
    BY <1>1, <1>7, <2>1, <2>2, Zenon
<1> QED
  BY <1>8, <1>4, <1>6, Zenon

\* A session that has just been opened.
LEMMA SessionInit == Init => SessionInv
<1> SUFFICES ASSUME Init PROVE SessionInv
  OBVIOUS
<1> USE DEF Init
<1>1. Empty \in Seq(Units) /\ Len(Empty) = 0 /\ MAXLEN \in Nat
  BY GPTfsAssumption DEF Empty
<1>2. TypeOK
  <2>1. /\ {input, output, error} \subseteq Seq(Units)
        /\ Len(input) <= MAXLEN /\ st_size \in 0 .. MAXLEN
    BY <1>1
  <2>2. {crossed, overtaken, written} \subseteq BOOLEAN
    OBVIOUS
  <2> QED
    BY <1>1, <2>1, <2>2 DEF TypeOK
<1>3. AskedInv /\ OneBetween /\ HalfDone /\ PairCoherent
  BY DEF AskedInv, OneBetween, HalfDone, PairCoherent, Busy
<1> QED
  BY <1>2, <1>3 DEF SessionInv

\* A write makes the next version and the worker that will read it.
LEMMA WriteKeeps ==
  ASSUME SessionInv, NEW w \in Workers, NEW d \in Data, NEW from \in 0 .. MAXLEN - Len(d),
         Write(w, from, d)
  PROVE  SessionInv'
<1> USE DEF Write, Store, SessionInv
<1>1. TypeOK'
  <2>1. d \in Seq(Units)
    <3>1. \A u, v \in Units : <<u>> \in Seq(Units) /\ <<u, v>> \in Seq(Units)
      OBVIOUS
    <3>2. d \in {<<u>> : u \in Units} \/ d \in {<<u, v>> : u, v \in Units}
      BY DEF Data
    <3>3. ASSUME d \in {<<u>> : u \in Units} PROVE d \in Seq(Units)
      BY <3>1, <3>3, Zenon
    <3>4. ASSUME d \in {<<u, v>> : u, v \in Units} PROVE d \in Seq(Units)
      <4>1. PICK u \in Units, v \in Units : d = <<u, v>>
        BY <3>4
      <4> QED
        BY <3>1, <4>1
    <3> QED
      BY <3>2, <3>3, <3>4
  <2>2. input' \in Seq(Units) /\ Len(input') <= MAXLEN
    BY <2>1, GPTfsAssumption, OverwriteFits DEF TypeOK
  <2>3. st_size' \in 0 .. MAXLEN
    BY <2>2
  <2> QED
    BY <2>2, <2>3 DEF TypeOK
<1>2. AskedInv'
  BY DEF TypeOK, AskedInv, Busy
<1>3. OneBetween' /\ HalfDone' /\ PairCoherent'
  BY DEF TypeOK, OneBetween, HalfDone, PairCoherent, Busy
<1> QED
  BY <1>1, <1>2, <1>3

\* A truncation makes the next version and starts nobody.
LEMMA TruncateKeeps ==
  ASSUME SessionInv, NEW length \in 0 .. MAXLEN, Truncate(length)
  PROVE  SessionInv'
<1> USE DEF Truncate, SessionInv
<1>1. TypeOK'
  <2>1. MAXLEN \in Nat /\ length \in Nat /\ input \in Seq(Units)
    BY GPTfsAssumption DEF TypeOK
  <2>2. input' \in Seq(Units) /\ Len(input') <= length
    BY <2>1, UptoFits
  <2>3. Len(input') <= MAXLEN /\ st_size' \in 0 .. MAXLEN
    BY <2>1, <2>2
  <2>4. {crossed', overtaken', written'} \subseteq BOOLEAN
    BY DEF TypeOK
  <2> QED
    BY <2>2, <2>3, <2>4 DEF TypeOK
<1>2. AskedInv' /\ OneBetween' /\ HalfDone' /\ PairCoherent'
  BY DEF TypeOK, AskedInv, OneBetween, HalfDone, PairCoherent, Busy
<1> QED
  BY <1>1, <1>2

\* A worker that reads input reads its own write or a later change.
LEMMA ReadInputKeeps ==
  ASSUME SessionInv, NEW w \in Workers, ReadInput(w)
  PROVE  SessionInv'
<1> USE DEF ReadInput, SessionInv
<1>1. TypeOK'
  <2>1. {crossed', overtaken', written'} \subseteq BOOLEAN
    BY DEF TypeOK
  <2>2. Empty \in Seq(Units) /\ input \in Seq(Units)
    BY DEF TypeOK, Empty
  <2> QED
    BY <2>1, <2>2 DEF TypeOK, End
<1>2. AskedInv'
  BY DEF TypeOK, AskedInv, Busy, End
<1>3. OneBetween'
  BY DEF TypeOK, OneBetween, Busy, End
<1>4. HalfDone'
  BY DEF TypeOK, HalfDone, Busy, End
<1>5. PairCoherent'
  BY DEF TypeOK, PairCoherent, End
<1> QED
  BY <1>1, <1>2, <1>3, <1>4, <1>5

\* The call of the interface only decides whether it failed.
LEMMA CallGptApiKeeps ==
  ASSUME SessionInv, NEW w \in Workers, CallGptApi(w)
  PROVE  SessionInv'
<1> USE DEF CallGptApi, SessionInv, history
<1>1. TypeOK'
  BY DEF TypeOK
<1>2. AskedInv' /\ OneBetween' /\ HalfDone' /\ PairCoherent'
  BY DEF TypeOK, AskedInv, OneBetween, HalfDone, PairCoherent, Busy
<1> QED
  BY <1>1, <1>2

\* output becomes that of the worker, the only one between the two files unless
\* this is the step at which two cross.
LEMMA SetOutputKeeps ==
  ASSUME SessionInv, NEW w \in Workers, SetOutput(w)
  PROVE  SessionInv'
<1> USE DEF SetOutput, SessionInv, history
<1>1. TypeOK'
  BY DEF TypeOK, Empty
<1>2. AskedInv' /\ OneBetween'
  BY DEF TypeOK, AskedInv, OneBetween, Busy
<1>3. HalfDone'
  BY DEF TypeOK, OneBetween, HalfDone, Busy
<1>4. PairCoherent'
  BY DEF TypeOK, PairCoherent
<1> QED
  BY <1>1, <1>2, <1>3, <1>4

\* error is empty exactly when output, which is the same worker's, may not be.
LEMMA SetErrorKeeps ==
  ASSUME SessionInv, NEW w \in Workers, SetError(w)
  PROVE  SessionInv'
<1> USE DEF SetError, End, SessionInv, history
<1>1. TypeOK'
  BY DEF TypeOK, Empty
<1>2. AskedInv' /\ OneBetween'
  BY DEF TypeOK, AskedInv, OneBetween, Busy
<1>3. HalfDone'
  BY DEF TypeOK, OneBetween, HalfDone, Busy
<1>4. PairCoherent'
  BY DEF TypeOK, HalfDone, PairCoherent
<1> QED
  BY <1>1, <1>2, <1>3, <1>4

\* SessionInv holds in every state of every session.
THEOREM SessionInvariance == Spec => []SessionInv
<1>1. SessionInv /\ [Next]_vars => SessionInv'
  <2> SUFFICES ASSUME SessionInv, [Next]_vars PROVE SessionInv'
    OBVIOUS
  <2>1. ASSUME NEW w \in Workers, Work(w) PROVE SessionInv'
    BY <2>1, ReadInputKeeps, CallGptApiKeeps, SetOutputKeeps, SetErrorKeeps DEF Work
  <2>2. CASE Change
    BY <2>2, WriteKeeps, TruncateKeeps DEF Change
  <2>3. CASE UNCHANGED vars
    BY <2>3 DEF vars, SessionInv, TypeOK, AskedInv, OneBetween, HalfDone, PairCoherent, Busy
  <2> QED
    BY <2>1, <2>2, <2>3 DEF Next
<1> QED
  BY SessionInit, <1>1, PTL DEF Spec

\* PromptFresh: a worker never asks about what was there before its own write,
\* whatever writes and truncations come between the write and its reading.
THEOREM PromptsAreFresh == Spec => []PromptFresh
<1>1. SessionInv => PromptFresh
  BY DEF SessionInv, AskedInv, PromptFresh
<1> QED
  BY SessionInvariance, <1>1, PTL

\* PairCoherent: with two locks, one per file, output and error are still the
\* answer to one request, overlapping or not, as long as no worker set output
\* between the two stores of another.
THEOREM PairsAreCoherent == Spec => []PairCoherent
<1>1. SessionInv => PairCoherent
  BY DEF SessionInv
<1> QED
  BY SessionInvariance, <1>1, PTL

\* The files and workers keep their types; a write never takes input past
\* MAXLEN, nor leaves st_size there.
THEOREM TypesAreKept == Spec => []TypeOK
<1>1. SessionInv => TypeOK
  BY DEF SessionInv
<1> QED
  BY SessionInvariance, <1>1, PTL

-----------------------------------------------------------------------------
(***************************************************************************)
(* The packet capture, for every size of the buffer, of a header and of    *)
(* the packets.  What is kept is defined by a recursive function; that two *)
(* functions which satisfy its equation agree is shown by a least packet   *)
(* at which they would differ.  The invariant has a sequence of offsets    *)
(* that leads from header to header through the buffer.                    *)
(***************************************************************************)
\* What the n-th packet makes of those kept before it.
Kept1(before, n, caplen) ==
  LET need == HeaderSize + caplen
  IN  IF need <= before.room
      THEN [kept |-> Append(before.kept, n), room |-> before.room - need]
      ELSE before

\* f is the function that Greedy is defined to be.
IsGreedy(f, packets) ==
  f = [n \in 0 .. Len(packets) |->
         IF n = 0 THEN [kept |-> <<>>, room |-> BufferSize] ELSE Kept1(f[n - 1], n, packets[n])]

\* The k-th header of n: it is that of the k-th packet kept, and where its
\* packet ends there is the next header, or the end of what is used.
HeaderAt(ptrs, k, mem, packets, kept, n, end) ==
  /\ ptrs[k] \in DOMAIN mem
  /\ mem[ptrs[k]] = [caplen |-> packets[kept[k]], nr |-> kept[k]]
  /\ ptrs[k] + HeaderSize + packets[kept[k]] = IF k = n THEN end ELSE ptrs[k + 1]
  /\ ptrs[k] + HeaderSize + packets[kept[k]] <= end

\* The walk of print_captured_packets: where the headers are.
Walk(ptrs) ==
  /\ ptrs \in Seq(Nat) /\ Len(ptrs) = count
  /\ count = 0 => offset = 0
  /\ count > 0 => ptrs[1] = 0
  /\ \A k \in 1 .. count : HeaderAt(ptrs, k, memory, arrived, Kept, count, offset)
  /\ \A k \in 1 .. Len(shown) : shown[k].ptr = ptrs[k] /\ shown[k].nr = Kept[k]

\* The buffer: what is kept is what the greedy choice keeps.
BufferInv ==
  /\ arrived \in Seq(Nat) /\ Len(arrived) <= ArrivalBound
  /\ offset \in Nat /\ count \in Nat /\ offset <= BufferSize /\ count <= Len(arrived)
  /\ \A o \in DOMAIN memory : o \in Nat /\ o < offset
  /\ IsGreedy(Greedy, arrived)
  /\ Greedy[Len(arrived)].room = BufferSize - offset
  /\ Kept \in Seq(1 .. Len(arrived)) /\ Len(Kept) = count
  /\ \E ptrs : Walk(ptrs)

\* The calls: their results, the handle and the filter.
CallInv ==
  /\ captureAt \in {"lookup", "open", "compile", "setfilter", "loop", "returned", "exit"}
  /\ handle \in BOOLEAN /\ program \in BOOLEAN /\ filtered \in BOOLEAN /\ limit \in Limits
  /\ error_buffer \in {"none", "warning", "interrupted"} \cup DOMAIN Code
  /\ shown \in Seq([ptr : Nat, nr : Nat])
  /\ captureAt \notin {"returned", "exit"} =>
       /\ error_buffer \in {"none", "warning"} /\ result = 0 /\ shown = <<>>
       /\ program => captureAt = "setfilter"
       /\ handle => captureAt \notin {"lookup", "open"}
  /\ captureAt \in {"returned", "exit"} =>
       /\ ~handle /\ ~program
       /\ \/ result \in -5 .. -1 /\ Code[error_buffer] = result /\ shown = <<>>
          \/ /\ result = count /\ Len(shown) <= count
             /\ error_buffer \in {"none", "warning", "interrupted"}
  /\ captureAt = "exit" => Len(shown) >= result

\* The inductive invariant.
CaptureInv == BufferInv /\ CallInv

\* Greedy is such a function if there is one, before and after a step.
LEMMA GreedyIs ==
  ASSUME NEW f
  PROVE  /\ IsGreedy(f, arrived) => IsGreedy(Greedy, arrived)
         /\ IsGreedy(f, arrived') => IsGreedy(Greedy', arrived')
<1>1. Greedy = CHOOSE g : IsGreedy(g, arrived)
  BY DEF Greedy, IsGreedy, Kept1
<1>2. Greedy' = CHOOSE g : IsGreedy(g, arrived')
  BY DEF Greedy, IsGreedy, Kept1
<1> QED
  BY <1>1, <1>2

\* Two such functions agree where the packets do: there is no least packet at
\* which they differ.
LEMMA GreedyUnique ==
  ASSUME NEW a \in Seq(Nat), NEW b \in Seq(Nat), NEW f, NEW g,
         IsGreedy(f, a), IsGreedy(g, b), Len(a) <= Len(b),
         \A n \in 1 .. Len(a) : b[n] = a[n]
  PROVE  \A n \in 0 .. Len(a) : g[n] = f[n]
<1> DEFINE D == {n \in 0 .. Len(a) : g[n] # f[n]}
           R == {x \in Nat \X Nat : x[1] < x[2]}
<1>1. IsWellFoundedOn(R, Nat) /\ D \subseteq Nat
  BY NatLessThanWellFounded DEF OpToRel
<1>2. SUFFICES ASSUME D # {} PROVE FALSE
  OBVIOUS
<1> HIDE DEF R
<1>3. PICK n \in D : \A j \in D : ~(<<j, n>> \in R)
  BY <1>1, <1>2, WFMin, Zenon
<1>4. n \in 0 .. Len(a) /\ g[n] # f[n] /\ Len(a) \in Nat /\ Len(b) \in Nat /\ n \in 0 .. Len(b)
  OBVIOUS
<1>5. f[0] = [kept |-> <<>>, room |-> BufferSize] /\ g[0] = [kept |-> <<>>, room |-> BufferSize]
  <2>1. 0 \in 0 .. Len(a) /\ 0 \in 0 .. Len(b)
    BY <1>4
  <2> QED
    BY <2>1 DEF IsGreedy
<1>6. n \in 1 .. Len(a) /\ n \in 1 .. Len(b) /\ n - 1 \in 0 .. Len(a)
  BY <1>4, <1>5
<1>7. n - 1 \notin D
  <2>1. n \in Nat /\ n - 1 \in Nat /\ n - 1 < n
    BY <1>6
  <2>2. <<n - 1, n>> \in R
    BY <2>1 DEF R
  <2> HIDE DEF D
  <2> QED
    BY <1>3, <2>2
<1>8. g[n - 1] = f[n - 1]
  BY <1>6, <1>7
<1>9. f[n] = Kept1(f[n - 1], n, a[n]) /\ g[n] = Kept1(g[n - 1], n, b[n])
  <2> HIDE DEF D
  <2>1. n \in 0 .. Len(a) /\ n \in 0 .. Len(b) /\ n # 0
    BY <1>4, <1>6
  <2>2. f[n] = Kept1(f[n - 1], n, a[n])
    BY <2>1 DEF IsGreedy
  <2>3. g[n] = Kept1(g[n - 1], n, b[n])
    BY <2>1 DEF IsGreedy
  <2> QED
    BY <2>2, <2>3
<1> QED
  BY <1>4, <1>6, <1>8, <1>9

\* One more packet.
LEMMA GreedyGrows ==
  ASSUME arrived \in Seq(Nat), IsGreedy(Greedy, arrived), NEW c \in Nat,
         arrived' = Append(arrived, c)
  PROVE  /\ IsGreedy(Greedy', arrived') /\ Len(arrived') = Len(arrived) + 1
         /\ Greedy'[Len(arrived')] = Kept1(Greedy[Len(arrived)], Len(arrived'), c)
<1> DEFINE m == Len(arrived)
           one == Kept1(Greedy[m], m + 1, c)
<1>1. PICK h : h = [n \in 0 .. m + 1 |-> IF n = m + 1 THEN one ELSE Greedy[n]]
  OBVIOUS
<1>2. /\ m \in Nat /\ arrived' \in Seq(Nat) /\ Len(arrived') = m + 1 /\ arrived'[m + 1] = c
      /\ \A n \in 1 .. m : arrived'[n] = arrived[n]
  OBVIOUS
<1>3. /\ h[m + 1] = one /\ \A n \in 0 .. m : h[n] = Greedy[n]
  BY <1>1, <1>2
<1>4. ASSUME NEW n \in 0 .. m + 1
      PROVE  h[n] = IF n = 0 THEN [kept |-> <<>>, room |-> BufferSize]
                    ELSE Kept1(h[n - 1], n, arrived'[n])
  <2>1. CASE n = m + 1
    <3>1. h[n - 1] = Greedy[m] /\ n # 0
      BY <1>2, <1>3, <2>1
    <3> QED
      BY <1>2, <1>3, <2>1, <3>1
  <2>2. CASE n # m + 1
    <3>1. n \in 0 .. m /\ h[n] = Greedy[n]
      BY <1>2, <1>3, <2>2
    <3>2. Greedy[n] = IF n = 0 THEN [kept |-> <<>>, room |-> BufferSize]
                      ELSE Kept1(Greedy[n - 1], n, arrived[n])
      BY <3>1 DEF IsGreedy
    <3>3. n # 0 => h[n - 1] = Greedy[n - 1] /\ arrived'[n] = arrived[n]
      BY <1>2, <1>3, <3>1
    <3> QED
      BY <3>1, <3>2, <3>3
  <2> QED
    BY <2>1, <2>2
<1>5. IsGreedy(h, arrived')
  <2>1. h = [n \in 0 .. m + 1 |-> h[n]]
    BY <1>1
  <2>2. h = [n \in 0 .. Len(arrived') |->
               IF n = 0 THEN [kept |-> <<>>, room |-> BufferSize]
               ELSE Kept1(h[n - 1], n, arrived'[n])]
    BY <1>2, <1>4, <2>1, Zenon
  <2> QED
    BY <2>2 DEF IsGreedy
<1>6. IsGreedy(Greedy', arrived')
  BY <1>5, GreedyIs
<1>7. \A n \in 0 .. Len(arrived') : Greedy'[n] = h[n]
  <2>1. PICK a, g : a = arrived' /\ g = Greedy'
    OBVIOUS
  <2>2. a \in Seq(Nat) /\ IsGreedy(h, a) /\ IsGreedy(g, a) /\ Len(a) <= Len(a)
    BY <1>2, <1>5, <1>6, <2>1
  <2>3. \A n \in 0 .. Len(a) : g[n] = h[n]
    BY <2>2, GreedyUnique
  <2> QED
    BY <2>1, <2>3
<1> QED
  BY <1>2, <1>3, <1>6, <1>7

\* Without a packet nothing more is kept.
LEMMA GreedySame ==
  ASSUME arrived' = arrived
  PROVE  Greedy' = Greedy /\ Kept' = Kept
<1>1. Greedy = CHOOSE g : IsGreedy(g, arrived)
  BY DEF Greedy, IsGreedy, Kept1
<1>2. Greedy' = CHOOSE g : IsGreedy(g, arrived')
  BY DEF Greedy, IsGreedy, Kept1
<1>3. Greedy' = Greedy
  BY <1>1, <1>2
<1> QED
  BY <1>3 DEF Kept

\* The buffer is empty at first.
LEMMA BufferInit ==
  CaptureSizes /\ CaptureInit => BufferInv
<1> SUFFICES ASSUME CaptureSizes, CaptureInit PROVE BufferInv
  OBVIOUS
<1>1. /\ arrived = <<>> /\ memory = <<>> /\ offset = 0 /\ count = 0 /\ shown = <<>>
      /\ BufferSize \in Nat /\ ArrivalBound \in Nat
  BY DEF CaptureInit, CaptureSizes
<1>2. Len(arrived) = 0 /\ 0 .. Len(arrived) = {0} /\ arrived \in Seq(Nat)
  BY <1>1
<1>3. PICK f : f = [n \in {0} |-> [kept |-> <<>>, room |-> BufferSize]]
  OBVIOUS
<1>4. IsGreedy(f, arrived)
  <2>1. f = [n \in {0} |-> IF n = 0 THEN [kept |-> <<>>, room |-> BufferSize]
                           ELSE Kept1(f[n - 1], n, arrived[n])]
    BY <1>3
  <2> QED
    BY <1>2, <2>1 DEF IsGreedy
<1>5. IsGreedy(Greedy, arrived)
  BY <1>4, GreedyIs
<1>6. Greedy[0] = [kept |-> <<>>, room |-> BufferSize]
  <2>1. 0 \in 0 .. Len(arrived)
    BY <1>2
  <2> QED
    BY <1>5, <2>1 DEF IsGreedy
<1>7. Kept = <<>> /\ Greedy[Len(arrived)].room = BufferSize - offset
  BY <1>1, <1>2, <1>6 DEF Kept
<1>8. Walk(<<>>)
  BY <1>1 DEF Walk, HeaderAt
<1>9. \A o \in DOMAIN memory : o \in Nat /\ o < offset
  BY <1>1
<1>10. Kept \in Seq(1 .. Len(arrived)) /\ Len(Kept) = count
  BY <1>1, <1>7
<1> QED
  BY <1>1, <1>2, <1>5, <1>7, <1>8, <1>9, <1>10 DEF BufferInv

\* Calls that take no packet and show none leave the buffer alone.
LEMMA BufferSame ==
  ASSUME BufferInv, UNCHANGED <<ctxVars, shown>>
  PROVE  BufferInv'
<1>1. arrived' = arrived /\ memory' = memory /\ offset' = offset /\ count' = count /\ shown' = shown
  BY DEF ctxVars
<1>2. Greedy' = Greedy /\ Kept' = Kept
  BY <1>1, GreedySame
<1>3. PICK ptrs : Walk(ptrs)
  BY DEF BufferInv
<1>4. Walk(ptrs)'
  BY <1>1, <1>2, <1>3 DEF Walk, HeaderAt
<1>5. IsGreedy(Greedy', arrived')
  BY <1>1, <1>2 DEF BufferInv
<1> QED
  BY <1>1, <1>2, <1>4, <1>5 DEF BufferInv

\* print_captured_packets goes from header to header: what it finds next is
\* the next packet kept.
LEMMA ShowKeeps ==
  ASSUME BufferInv, CallInv, Show
  PROVE  BufferInv' /\ CallInv'
<1>1. /\ arrived' = arrived /\ memory' = memory /\ offset' = offset /\ count' = count
      /\ captureAt' = captureAt /\ result' = result /\ captureAt = "returned"
      /\ handle' = handle /\ program' = program /\ error_buffer' = error_buffer
      /\ filtered' = filtered /\ limit' = limit /\ Len(shown) < result
  BY DEF Show, ctxVars, pcapVars
<1>2. Greedy' = Greedy /\ Kept' = Kept
  BY <1>1, GreedySame
<1>3. PICK ptrs : Walk(ptrs)
  BY DEF BufferInv
<1>4. shown \in Seq([ptr : Nat, nr : Nat]) /\ Len(shown) \in Nat /\ count \in Nat
  BY DEF BufferInv, CallInv
<1>5. result = count /\ Len(shown) < count
  BY <1>1, <1>4 DEF CallInv
<1> DEFINE m == Len(shown)
<1>6. NextPtr = ptrs[m + 1]
  <2>1. CASE m = 0
    <3>1. shown = <<>>
      BY <1>4, <2>1
    <3> QED
      BY <1>4, <1>5, <1>3, <2>1, <3>1 DEF NextPtr, Walk, HeaderAt
  <2>2. CASE m # 0
    <3>1. shown # <<>> /\ m \in 1 .. count /\ m # count /\ m \in 1 .. Len(shown)
      BY <1>4, <1>5, <2>2
    <3>2. Last(shown).ptr = ptrs[m]
      BY <1>3, <3>1 DEF Walk, HeaderAt, Last
    <3>3. /\ memory[ptrs[m]].caplen = arrived[Kept[m]]
          /\ ptrs[m] + HeaderSize + arrived[Kept[m]] = ptrs[m + 1]
      <4>1. memory[ptrs[m]] = [caplen |-> arrived[Kept[m]], nr |-> Kept[m]]
        BY <1>3, <3>1 DEF Walk, HeaderAt
      <4>2. ptrs[m] + HeaderSize + arrived[Kept[m]] = IF m = count THEN offset ELSE ptrs[m + 1]
        BY <1>3, <3>1 DEF Walk, HeaderAt
      <4> QED
        BY <3>1, <4>1, <4>2
    <3> QED
      BY <3>1, <3>2, <3>3 DEF NextPtr
  <2> QED
    BY <2>1, <2>2
<1>7. m + 1 \in 1 .. count
  BY <1>4, <1>5
<1>8. NextPtr \in DOMAIN memory /\ memory[NextPtr].nr = Kept[m + 1] /\ NextPtr \in Nat
  <2>1. /\ ptrs[m + 1] \in DOMAIN memory
        /\ memory[ptrs[m + 1]] = [caplen |-> arrived[Kept[m + 1]], nr |-> Kept[m + 1]]
    BY <1>3, <1>7 DEF Walk, HeaderAt
  <2>2. ptrs[m + 1] \in Nat
    BY <1>3, <1>7 DEF Walk, HeaderAt
  <2> QED
    BY <1>6, <2>1, <2>2
<1>9. Kept[m + 1] \in Nat
  BY <1>7 DEF BufferInv
<1>10. PICK p, k : p = NextPtr /\ k = Kept[m + 1]
  OBVIOUS
<1>11. shown' = Append(shown, [ptr |-> p, nr |-> k])
  BY <1>8, <1>10 DEF Show
<1>12. /\ shown' \in Seq([ptr : Nat, nr : Nat]) /\ Len(shown') = m + 1
       /\ shown'[m + 1] = [ptr |-> p, nr |-> k]
       /\ \A i \in 1 .. m : shown'[i] = shown[i]
  BY <1>4, <1>8, <1>9, <1>10, <1>11
<1>13. \A i \in 1 .. Len(shown') : shown'[i].ptr = ptrs[i] /\ shown'[i].nr = Kept[i]
  <2> TAKE i \in 1 .. Len(shown')
  <2>1. CASE i = m + 1
    BY <1>6, <1>10, <1>12, <2>1
  <2>2. CASE i # m + 1
    <3>1. i \in 1 .. m
      BY <1>4, <1>12, <2>2
    <3> QED
      BY <1>3, <1>12, <3>1 DEF Walk, HeaderAt
  <2> QED
    BY <2>1, <2>2
<1>14. Walk(ptrs)'
  <2>1. PICK s : s = shown'
    OBVIOUS
  <2>2. \A i \in 1 .. Len(s) : s[i].ptr = ptrs[i] /\ s[i].nr = Kept[i]
    BY <1>13, <2>1
  <2> QED
    BY <1>1, <1>2, <1>3, <2>1, <2>2 DEF Walk, HeaderAt
<1>15. IsGreedy(Greedy', arrived')
  BY <1>1, <1>2 DEF BufferInv
<1>16. BufferInv'
  BY <1>1, <1>2, <1>14, <1>15 DEF BufferInv
<1>17. CallInv'
  <2>1. result' = count' /\ Len(shown') <= count'
    BY <1>1, <1>4, <1>5, <1>12
  <2>2. error_buffer \in {"none", "warning", "interrupted"} /\ ~handle /\ ~program
    BY <1>1, <1>4, <1>5 DEF CallInv
  <2>3. captureAt' # "exit" /\ captureAt' \in {"returned", "exit"}
    BY <1>1
  <2> QED
    BY <1>1, <1>12, <2>1, <2>2, <2>3 DEF CallInv
<1> QED
  BY <1>16, <1>17

\* A packet for which there is no room: nothing is stored, and the greedy
\* choice leaves it out as well.
LEMMA DroppedKeeps ==
  ASSUME CaptureSizes, BufferInv, NEW c \in Nat, arrived' = Append(arrived, c),
         Len(arrived) < ArrivalBound, ~Fits(c), UNCHANGED <<memory, offset, count, shown>>
  PROVE  BufferInv'
<1> DEFINE m == Len(arrived)
<1>1. /\ arrived \in Seq(Nat) /\ m \in Nat /\ offset \in Nat /\ count \in Nat
      /\ BufferSize \in Nat /\ HeaderSize \in Nat /\ ArrivalBound \in Nat
      /\ Greedy[m].room = BufferSize - offset /\ IsGreedy(Greedy, arrived)
      /\ offset <= BufferSize /\ count <= m
      /\ Kept \in Seq(1 .. m) /\ Len(Kept) = count
  BY DEF BufferInv, CaptureSizes
<1>2. /\ IsGreedy(Greedy', arrived') /\ Len(arrived') = m + 1
      /\ Greedy'[Len(arrived')] = Kept1(Greedy[m], Len(arrived'), c)
  BY <1>1, GreedyGrows
<1>3. ~(HeaderSize + c <= Greedy[m].room)
  BY <1>1 DEF Fits
<1>4. Greedy'[Len(arrived')] = Greedy[m]
  BY <1>2, <1>3 DEF Kept1
<1>5. Kept' = Kept
  BY <1>4 DEF Kept
<1>6. /\ memory' = memory /\ offset' = offset /\ count' = count /\ shown' = shown
      /\ arrived' \in Seq(Nat) /\ \A i \in 1 .. m : arrived'[i] = arrived[i]
  BY <1>1
<1>7. PICK ptrs : Walk(ptrs)
  BY DEF BufferInv
<1>8. \A k \in 1 .. count : arrived'[Kept[k]] = arrived[Kept[k]]
  BY <1>1, <1>6
<1>9. Walk(ptrs)'
  <2>1. PICK a : a = arrived'
    OBVIOUS
  <2>2. \A k \in 1 .. count : a[Kept[k]] = arrived[Kept[k]]
    BY <1>8, <2>1
  <2> QED
    <3>1. /\ ptrs \in Seq(Nat) /\ Len(ptrs) = count'
          /\ count' = 0 => offset' = 0
          /\ count' > 0 => ptrs[1] = 0
      BY <1>6, <1>7 DEF Walk, HeaderAt
    <3>2. \A k \in 1 .. count' :
            HeaderAt(ptrs, k, memory', a, Kept, count', offset')
      <4> TAKE k \in 1 .. count'
      <4>1. k \in 1 .. count /\ a[Kept[k]] = arrived[Kept[k]]
        BY <1>6, <2>2
      <4>2. HeaderAt(ptrs, k, memory, arrived, Kept, count, offset)
        BY <1>7, <4>1 DEF Walk
      <4> QED
        BY <1>6, <4>1, <4>2 DEF HeaderAt
    <3>3. \A k \in 1 .. Len(shown') : shown'[k].ptr = ptrs[k] /\ shown'[k].nr = Kept[k]
      BY <1>6, <1>7 DEF Walk, HeaderAt
    <3> QED
      BY <1>5, <2>1, <3>1, <3>2, <3>3 DEF Walk
<1>10. Kept' \in Seq(1 .. Len(arrived'))
  <2>1. 1 .. m \subseteq 1 .. Len(arrived')
    BY <1>1, <1>2
  <2> QED
    BY <1>1, <1>5, <2>1
<1>11. Len(arrived') <= ArrivalBound /\ count' <= Len(arrived')
  BY <1>1, <1>2, <1>6
<1>12. \A o \in DOMAIN memory' : o \in Nat /\ o < offset'
  BY <1>6 DEF BufferInv
<1> QED
  BY <1>1, <1>2, <1>4, <1>5, <1>6, <1>9, <1>10, <1>11, <1>12 DEF BufferInv

\* A packet that fits is stored where the last one ends, and the greedy choice
\* keeps it.
LEMMA StoredKeeps ==
  ASSUME CaptureSizes, BufferInv, NEW c \in Nat, arrived' = Append(arrived, c),
         Len(arrived) < ArrivalBound, Fits(c), shown = <<>>, shown' = shown,
         memory' = [o \in DOMAIN memory \cup {offset} |->
                      IF o = offset THEN [caplen |-> c, nr |-> Len(arrived) + 1]
                      ELSE memory[o]],
         offset' = offset + HeaderSize + c, count' = count + 1
  PROVE  BufferInv'
<1> DEFINE m == Len(arrived)
<1>1. /\ arrived \in Seq(Nat) /\ m \in Nat /\ offset \in Nat /\ count \in Nat
      /\ BufferSize \in Nat /\ HeaderSize \in Nat /\ HeaderSize # 0 /\ ArrivalBound \in Nat
      /\ Greedy[m].room = BufferSize - offset /\ IsGreedy(Greedy, arrived)
      /\ offset <= BufferSize /\ count <= m
      /\ Kept \in Seq(1 .. m) /\ Len(Kept) = count
  BY DEF BufferInv, CaptureSizes
<1>2. /\ IsGreedy(Greedy', arrived') /\ Len(arrived') = m + 1
      /\ Greedy'[Len(arrived')] = Kept1(Greedy[m], m + 1, c)
  BY <1>1, GreedyGrows
<1>3. HeaderSize + c <= Greedy[m].room
  BY <1>1 DEF Fits
<1>4. Greedy'[Len(arrived')] = [kept |-> Append(Greedy[m].kept, m + 1),
                                room |-> Greedy[m].room - (HeaderSize + c)]
  BY <1>2, <1>3 DEF Kept1
<1>5. Kept' = Append(Kept, m + 1)
  BY <1>4 DEF Kept
<1>6. Greedy'[Len(arrived')].room = BufferSize - offset'
  BY <1>1, <1>4
<1>7. /\ arrived' \in Seq(Nat) /\ arrived'[m + 1] = c
      /\ \A i \in 1 .. m : arrived'[i] = arrived[i]
  BY <1>1
<1>8. /\ Kept' \in Seq(1 .. Len(arrived')) /\ Len(Kept') = count' /\ Kept'[count + 1] = m + 1
      /\ \A k \in 1 .. count : Kept'[k] = Kept[k] /\ Kept[k] \in 1 .. m
  <2>1. Kept \in Seq(1 .. m + 1) /\ m + 1 \in 1 .. m + 1
    <3>1. 1 .. m \subseteq 1 .. m + 1 /\ m + 1 \in 1 .. m + 1
      BY <1>1
    <3> QED
      BY <1>1, <3>1
  <2>2. Kept' \in Seq(1 .. m + 1) /\ Len(Kept') = count + 1 /\ Kept'[count + 1] = m + 1
    BY <1>1, <1>5, <2>1
  <2>3. \A k \in 1 .. count : Kept'[k] = Kept[k] /\ Kept[k] \in 1 .. m
    BY <1>1, <1>5
  <2> QED
    BY <1>2, <2>2, <2>3
<1>9. PICK ptrs : Walk(ptrs)
  BY DEF BufferInv
<1>10. /\ ptrs \in Seq(Nat) /\ Len(ptrs) = count
       /\ \A k \in 1 .. count : ptrs[k] \in Nat
  BY <1>9 DEF Walk, HeaderAt
<1>11. PICK qtrs : qtrs = Append(ptrs, offset)
  OBVIOUS
<1>12. /\ qtrs \in Seq(Nat) /\ Len(qtrs) = count + 1 /\ qtrs[count + 1] = offset
       /\ \A k \in 1 .. count : qtrs[k] = ptrs[k]
  BY <1>1, <1>10, <1>11
<1>13. /\ offset \in DOMAIN memory' /\ memory'[offset] = [caplen |-> c, nr |-> m + 1]
       /\ \A o \in DOMAIN memory : o \in DOMAIN memory' /\ o # offset /\ memory'[o] = memory[o]
  BY <1>1 DEF BufferInv
<1>14. PICK a, mem, k1, e : a = arrived' /\ mem = memory' /\ k1 = Kept' /\ e = offset'
  OBVIOUS
<1>15. ASSUME NEW k \in 1 .. count + 1
       PROVE  HeaderAt(qtrs, k, mem, a, k1, count + 1, e)
  <2>1. CASE k = count + 1
    <3>1. k1[k] = m + 1 /\ a[m + 1] = c /\ qtrs[k] = offset /\ e = offset + HeaderSize + c
      BY <1>7, <1>8, <1>12, <1>14, <2>1
    <3>2. offset \in DOMAIN mem /\ mem[offset] = [caplen |-> c, nr |-> m + 1]
      BY <1>13, <1>14
    <3>3. offset + HeaderSize + c <= offset + HeaderSize + c
      BY <1>1
    <3> QED
      BY <2>1, <3>1, <3>2, <3>3 DEF HeaderAt
  <2>2. CASE k # count + 1
    <3>1. k \in 1 .. count
      BY <1>1, <2>2
    <3>2. k1[k] = Kept[k] /\ a[k1[k]] = arrived[Kept[k]] /\ qtrs[k] = ptrs[k]
      BY <1>7, <1>8, <1>12, <1>14, <3>1
    <3>3. /\ ptrs[k] \in DOMAIN memory
          /\ memory[ptrs[k]] = [caplen |-> arrived[Kept[k]], nr |-> Kept[k]]
          /\ ptrs[k] + HeaderSize + arrived[Kept[k]] = IF k = count THEN offset ELSE ptrs[k + 1]
          /\ ptrs[k] + HeaderSize + arrived[Kept[k]] <= offset
      BY <1>9, <3>1 DEF Walk, HeaderAt
    <3>4. ptrs[k] \in DOMAIN mem /\ mem[ptrs[k]] = memory[ptrs[k]]
      BY <1>13, <1>14, <3>3
    <3>5. (IF k = count THEN offset ELSE ptrs[k + 1]) = qtrs[k + 1]
      <4>1. CASE k = count
        BY <1>12, <4>1
      <4>2. CASE k # count
        <5>1. k + 1 \in 1 .. count
          BY <1>1, <3>1, <4>2
        <5> QED
          BY <1>12, <4>2, <5>1
      <4> QED
        BY <4>1, <4>2
    <3>6. arrived[Kept[k]] \in Nat /\ ptrs[k] \in Nat
      <4>1. Kept[k] \in 1 .. m /\ ptrs[k] \in Nat
        BY <1>8, <1>10, <3>1
      <4>2. \A i \in 1 .. m : arrived[i] \in Nat
        BY <1>1
      <4> QED
        BY <4>1, <4>2
    <3>7. ptrs[k] + HeaderSize + arrived[Kept[k]] <= e
      <4>1. e = offset + HeaderSize + c
        BY <1>14
      <4>2. PICK x : x = ptrs[k] + HeaderSize + arrived[Kept[k]]
        OBVIOUS
      <4>3. x \in Nat /\ x <= offset
        <5>1. x <= offset
          BY <3>3, <4>2
        <5>2. PICK u, v : u = ptrs[k] /\ v = arrived[Kept[k]]
          OBVIOUS
        <5>3. u \in Nat /\ v \in Nat /\ x = u + HeaderSize + v
          BY <3>6, <4>2, <5>2
        <5>4. x \in Nat
          BY <1>1, <5>3
        <5> QED
          BY <5>1, <5>4
      <4>4. x <= e
        BY <1>1, <4>1, <4>3
      <4> QED
        BY <4>2, <4>4
    <3> QED
      BY <2>2, <3>2, <3>3, <3>4, <3>5, <3>7 DEF HeaderAt
  <2> QED
    BY <2>1, <2>2
<1>16. qtrs[1] = 0
  <2>1. CASE count = 0
    BY <1>9, <1>12, <2>1 DEF Walk, HeaderAt
  <2>2. CASE count # 0
    <3>1. 1 \in 1 .. count /\ count > 0
      BY <1>1, <2>2
    <3> QED
      BY <1>9, <1>12, <3>1 DEF Walk, HeaderAt
  <2> QED
    BY <2>1, <2>2
<1>17. Walk(qtrs)'
  <2>1. Len(shown') = 0 /\ count + 1 # 0 /\ \A k \in 1 .. Len(shown') : FALSE
    BY <1>1
  <2> QED
    <3>1. /\ qtrs \in Seq(Nat) /\ Len(qtrs) = count'
          /\ count' = 0 => offset' = 0
          /\ count' > 0 => qtrs[1] = 0
      BY <1>12, <1>16, <2>1
    <3>2. \A k \in 1 .. count' : HeaderAt(qtrs, k, mem, a, k1, count', e)
      BY <1>15
    <3> QED
      BY <1>14, <2>1, <3>1, <3>2 DEF Walk
<1>18. \A o \in DOMAIN memory' : o \in Nat /\ o < offset'
  <2>1. DOMAIN memory' = DOMAIN memory \cup {offset}
    OBVIOUS
  <2>2. \A o \in DOMAIN memory : o \in Nat /\ o < offset
    BY DEF BufferInv
  <2> QED
    BY <1>1, <2>1, <2>2
<1>19. /\ Len(arrived') <= ArrivalBound /\ count' <= Len(arrived') /\ count' \in Nat
       /\ offset' \in Nat /\ offset' <= BufferSize
  BY <1>1, <1>2 DEF Fits
<1> QED
  BY <1>2, <1>6, <1>7, <1>8, <1>17, <1>18, <1>19 DEF BufferInv

\* packet_handler.
LEMMA PacketHandlerKeeps ==
  ASSUME CaptureSizes, CaptureInv, NEW c \in CapLens, PacketHandler(c)
  PROVE  CaptureInv'
<1>1. /\ captureAt = "loop" /\ (limit > 0 => Len(arrived) < limit)
      /\ Len(arrived) < ArrivalBound /\ arrived' = Append(arrived, c)
      /\ captureAt' = captureAt /\ filtered' = filtered /\ limit' = limit
      /\ handle' = handle /\ program' = program /\ error_buffer' = error_buffer
      /\ result' = result /\ shown' = shown
  BY DEF PacketHandler, pcapVars
<1>2. shown = <<>> /\ c \in Nat /\ limit \in Int /\ arrived \in Seq(Nat) /\ count \in Nat
      /\ count <= Len(arrived)
  BY <1>1 DEF CaptureInv, CallInv, BufferInv, CaptureSizes
<1>3. ~(limit > 0 /\ count >= limit)
  BY <1>1, <1>2
<1>4. BufferInv'
  <2>1. CASE Fits(c)
    <3>1. /\ memory' = [o \in DOMAIN memory \cup {offset} |->
                          IF o = offset THEN [caplen |-> c, nr |-> Len(arrived) + 1]
                          ELSE memory[o]]
          /\ offset' = offset + HeaderSize + c /\ count' = count + 1
      BY <1>3, <2>1 DEF PacketHandler
    <3> QED
      BY <1>1, <1>2, <2>1, <3>1, StoredKeeps DEF CaptureInv
  <2>2. CASE ~Fits(c)
    <3>1. UNCHANGED <<memory, offset, count, shown>>
      BY <1>1, <2>2 DEF PacketHandler
    <3> QED
      BY <1>1, <1>2, <2>2, <3>1, DroppedKeeps DEF CaptureInv
  <2> QED
    BY <2>1, <2>2
<1>5. CallInv'
  BY <1>1 DEF CaptureInv, CallInv
<1> QED
  BY <1>4, <1>5 DEF CaptureInv

\* A call that fails before anything is shown.
LEMMA FailKeeps ==
  ASSUME CaptureInv, NEW message \in DOMAIN Code, NEW code, code = Code[message],
         Fail(code, message), captureAt \notin {"returned", "exit"},
         handle' \in BOOLEAN, program' \in BOOLEAN, ~handle', ~program',
         UNCHANGED <<filtered, limit, ctxVars, shown>>
  PROVE  CaptureInv'
<1>1. BufferInv'
  BY BufferSame DEF CaptureInv
<1>2. DOMAIN Code = {"invalid", "device", "parse", "install", "loop"}
  BY DEF Code
<1>3. /\ Code["invalid"] = -1 /\ Code["device"] = -2 /\ Code["parse"] = -3
      /\ Code["install"] = -4 /\ Code["loop"] = -5
  BY DEF Code
<1>4. Code[message] \in -5 .. -1
  <2>1. -1 \in -5 .. -1 /\ -2 \in -5 .. -1 /\ -3 \in -5 .. -1 /\ -4 \in -5 .. -1 /\ -5 \in -5 .. -1
    OBVIOUS
  <2> QED
    BY <1>2, <1>3, <2>1
<1>5. /\ result' = Code[message] /\ error_buffer' = message /\ captureAt' = "returned"
      /\ filtered' = filtered /\ limit' = limit /\ shown' = shown
  BY Zenon DEF Fail, CaptureGoto
<1>6. /\ shown = <<>> /\ filtered \in BOOLEAN /\ limit \in Limits
      /\ shown \in Seq([ptr : Nat, nr : Nat])
  BY DEF CaptureInv, CallInv
<1>7. Code[error_buffer'] = result' /\ result' \in -5 .. -1
  BY <1>4, <1>5
<1>8. CallInv'
  <2>1. Code = Code'
    BY DEF Code
  <2> QED
    BY <1>5, <1>6, <1>7, <2>1 DEF CallInv
<1> QED
  BY <1>1, <1>8 DEF CaptureInv

\* A call that goes on to the next.
LEMMA GoesOnKeeps ==
  ASSUME CaptureInv, captureAt \notin {"returned", "exit"},
         captureAt' \in {"lookup", "open", "compile", "setfilter", "loop"},
         error_buffer' \in {"none", "warning"},
         handle' \in BOOLEAN, program' \in BOOLEAN, program' => captureAt' = "setfilter",
         handle' => captureAt' \notin {"lookup", "open"},
         UNCHANGED <<filtered, limit, result, ctxVars, shown>>
  PROVE  CaptureInv'
<1>1. BufferInv'
  BY BufferSame DEF CaptureInv
<1>2. filtered' = filtered /\ limit' = limit /\ result' = result /\ shown' = shown
  OBVIOUS
<1>3. /\ result = 0 /\ shown = <<>> /\ filtered \in BOOLEAN /\ limit \in Limits
      /\ shown \in Seq([ptr : Nat, nr : Nat])
  BY DEF CaptureInv, CallInv
<1>4. CallInv'
  BY <1>2, <1>3 DEF CallInv
<1> QED
  BY <1>1, <1>4 DEF CaptureInv

\* Each action keeps the invariant.
LEMMA CaptureStepKeeps ==
  CaptureSizes /\ CaptureInv /\ [CaptureNext]_captureVars => CaptureInv'
<1> SUFFICES ASSUME CaptureSizes, CaptureInv, [CaptureNext]_captureVars PROVE CaptureInv'
  OBVIOUS
<1>0. /\ DOMAIN Code = {"invalid", "device", "parse", "install", "loop"}
      /\ Code["invalid"] = -1 /\ Code["device"] = -2 /\ Code["parse"] = -3
      /\ Code["install"] = -4 /\ Code["loop"] = -5
  BY DEF Code
<1>1. CASE BadParameters
  <2>1. "invalid" \in DOMAIN Code
    BY <1>0
  <2>2. /\ Fail(-1, "invalid") /\ captureAt = "lookup" /\ handle' = handle /\ program' = program
        /\ UNCHANGED <<filtered, limit, ctxVars, shown>>
    BY <1>1 DEF BadParameters
  <2>3. handle' \in BOOLEAN /\ program' \in BOOLEAN /\ ~handle' /\ ~program'
    BY <2>2 DEF CaptureInv, CallInv
  <2> QED
    BY <1>0, <2>1, <2>2, <2>3, FailKeeps
<1>2. CASE LoopError
  <2>1. "loop" \in DOMAIN Code
    BY <1>0
  <2>2. /\ Fail(-5, "loop") /\ captureAt = "loop" /\ program' = program
        /\ UNCHANGED <<filtered, limit, ctxVars, shown>>
    BY <1>2 DEF LoopError
  <2>3. handle' \in BOOLEAN /\ ~handle'
    BY <1>2, Zenon DEF LoopError
  <2>4. program' \in BOOLEAN /\ ~program'
    BY <2>2 DEF CaptureInv, CallInv
  <2> QED
    BY <1>0, <2>1, <2>2, <2>3, <2>4, FailKeeps
<1>3. CASE Show
  BY <1>3, ShowKeeps DEF CaptureInv
<1>4. CASE EndProgram
  <2>1. BufferInv'
    BY <1>4, BufferSame DEF EndProgram, CaptureInv
  <2>2. /\ captureAt = "returned" /\ captureAt' = "exit" /\ Len(shown) >= result
        /\ filtered' = filtered /\ limit' = limit /\ result' = result /\ shown' = shown
        /\ handle' = handle /\ program' = program /\ error_buffer' = error_buffer
        /\ count' = count
    BY <1>4 DEF EndProgram, CaptureGoto, pcapVars, ctxVars
  <2>3. CallInv'
    BY <2>2 DEF CallInv, CaptureInv, Code
  <2> QED
    BY <2>1, <2>3 DEF CaptureInv
<1>5. ASSUME NEW ok \in BOOLEAN, LookupNet(ok) PROVE CaptureInv'
  <2>1. /\ captureAt = "lookup" /\ captureAt' = "open" /\ handle' = handle /\ program' = program
        /\ UNCHANGED <<filtered, limit, result, ctxVars, shown>>
        /\ error_buffer' \in {error_buffer, "warning"}
    BY <1>5 DEF LookupNet, CaptureGoto
  <2>2. /\ handle \in BOOLEAN /\ program \in BOOLEAN /\ ~handle /\ ~program
        /\ error_buffer \in {"none", "warning"}
    BY <2>1 DEF CaptureInv, CallInv
  <2> QED
    BY <2>1, <2>2, GoesOnKeeps
<1>6. ASSUME NEW ok \in BOOLEAN, OpenLive(ok) PROVE CaptureInv'
  <2>1. captureAt = "open" /\ UNCHANGED <<filtered, limit, ctxVars, shown>>
    BY <1>6 DEF OpenLive
  <2>2. /\ handle \in BOOLEAN /\ program \in BOOLEAN /\ ~handle /\ ~program
        /\ error_buffer \in {"none", "warning"}
    BY <2>1 DEF CaptureInv, CallInv
  <2>3. CASE ok
    <3>1. handle' \in BOOLEAN
      BY <1>6, <2>3, Zenon DEF OpenLive
    <3>2. /\ captureAt' \in {"compile", "loop"} /\ program' = program
          /\ error_buffer' = error_buffer /\ result' = result
      BY <1>6, <2>3 DEF OpenLive, CaptureGoto
    <3> QED
      BY <2>1, <2>2, <3>1, <3>2, GoesOnKeeps
  <2>4. CASE ~ok
    <3>1. Fail(-2, "device") /\ handle' = handle /\ program' = program
      BY <1>6, <2>4 DEF OpenLive
    <3>2. "device" \in DOMAIN Code
      BY <1>0
    <3> QED
      BY <1>0, <2>1, <2>2, <3>1, <3>2, FailKeeps
  <2> QED
    BY <2>3, <2>4
<1>7. ASSUME NEW ok \in BOOLEAN, Compile(ok) PROVE CaptureInv'
  <2>1. captureAt = "compile" /\ UNCHANGED <<filtered, limit, ctxVars, shown>>
    BY <1>7 DEF Compile
  <2>2. /\ handle \in BOOLEAN /\ program \in BOOLEAN /\ error_buffer \in {"none", "warning"}
        /\ captureAt = "compile" => ~program
    BY <2>1 DEF CaptureInv, CallInv
  <2>3. CASE ok
    <3>1. program' \in BOOLEAN
      BY <1>7, <2>3, Zenon DEF Compile
    <3>2. /\ captureAt' = "setfilter" /\ handle' = handle
          /\ error_buffer' = error_buffer /\ result' = result
      BY <1>7, <2>3 DEF Compile, CaptureGoto
    <3> QED
      BY <2>1, <2>2, <3>1, <3>2, GoesOnKeeps
  <2>4. CASE ~ok
    <3>1. Fail(-3, "parse") /\ program' = program
      BY <1>7, <2>4 DEF Compile
    <3>2. handle' \in BOOLEAN /\ ~handle'
      BY <1>7, <2>4, Zenon DEF Compile
    <3>3. "parse" \in DOMAIN Code
      BY <1>0
    <3> QED
      BY <1>0, <2>1, <2>2, <3>1, <3>2, <3>3, FailKeeps
  <2> QED
    BY <2>3, <2>4
<1>8. ASSUME NEW ok \in BOOLEAN, SetFilter(ok) PROVE CaptureInv'
  <2>1. captureAt = "setfilter" /\ UNCHANGED <<filtered, limit, ctxVars, shown>>
    BY <1>8 DEF SetFilter
  <2>2. /\ handle \in BOOLEAN /\ program \in BOOLEAN /\ error_buffer \in {"none", "warning"}
        /\ captureAt = "compile" => ~program
    BY <2>1 DEF CaptureInv, CallInv
  <2>3. CASE ok
    <3>1. program' \in BOOLEAN /\ ~program'
      BY <1>8, <2>3, Zenon DEF SetFilter
    <3>2. /\ captureAt' = "loop" /\ handle' = handle
          /\ error_buffer' = error_buffer /\ result' = result
      BY <1>8, <2>3 DEF SetFilter, CaptureGoto
    <3> QED
      BY <2>1, <2>2, <3>1, <3>2, GoesOnKeeps
  <2>4. CASE ~ok
    <3>1. Fail(-4, "install")
      BY <1>8, <2>4 DEF SetFilter
    <3>2. handle' \in BOOLEAN /\ ~handle' /\ program' \in BOOLEAN /\ ~program'
      BY <1>8, <2>4, Zenon DEF SetFilter
    <3>3. "install" \in DOMAIN Code
      BY <1>0
    <3> QED
      BY <1>0, <2>1, <3>1, <3>2, <3>3, FailKeeps
  <2> QED
    BY <2>3, <2>4
<1>9. ASSUME NEW ok \in BOOLEAN, LoopEnds(ok) PROVE CaptureInv'
  <2>1. BufferInv'
    BY <1>9, BufferSame DEF LoopEnds, CaptureInv
  <2>2. handle' \in BOOLEAN /\ ~handle'
    BY <1>9, Zenon DEF LoopEnds
  <2>3. /\ captureAt = "loop" /\ captureAt' = "returned" /\ result' = count
        /\ filtered' = filtered /\ limit' = limit /\ program' = program /\ count' = count
        /\ shown' = shown /\ error_buffer' \in {error_buffer, "interrupted"}
    BY <1>9 DEF LoopEnds, CaptureGoto, ctxVars
  <2>4. /\ program \in BOOLEAN /\ ~program /\ error_buffer \in {"none", "warning"}
        /\ shown = <<>> /\ filtered \in BOOLEAN /\ limit \in Limits
        /\ shown \in Seq([ptr : Nat, nr : Nat])
    BY <2>3 DEF CaptureInv, CallInv
  <2>5. Len(shown') <= count' /\ result' = count'
    BY <2>3, <2>4 DEF CaptureInv, BufferInv
  <2>6. CallInv'
    BY <2>2, <2>3, <2>4, <2>5 DEF CallInv
  <2> QED
    BY <2>1, <2>6 DEF CaptureInv
<1>10. ASSUME NEW c \in CapLens, PacketHandler(c) PROVE CaptureInv'
  BY <1>10, PacketHandlerKeeps
<1>11. CASE UNCHANGED captureVars
  <2>1. BufferInv'
    BY <1>11, BufferSame DEF captureVars, CaptureInv
  <2>2. CallInv'
    BY <1>11 DEF captureVars, pcapVars, ctxVars, CallInv, CaptureInv, Code
  <2> QED
    BY <2>1, <2>2 DEF CaptureInv
<1> QED
  BY <1>1, <1>2, <1>3, <1>4, <1>5, <1>6, <1>7, <1>8, <1>9, <1>10, <1>11 DEF CaptureNext

\* The invariant holds throughout, for every buffer, header and packet size
\* (custom_tcpdump_capture, packet_handler, print_captured_packets).
THEOREM CaptureInvariance == CaptureSpec => []CaptureInv
<1>1. CaptureInit => CaptureInv
  <2>1. CaptureInit => CallInv
    <3> SUFFICES ASSUME CaptureInit PROVE CallInv
      OBVIOUS
    <3>1. handle \in BOOLEAN /\ program \in BOOLEAN /\ ~program /\ ~handle
      BY Zenon DEF CaptureInit
    <3>2. shown = <<>> /\ shown \in Seq([ptr : Nat, nr : Nat])
      BY DEF CaptureInit
    <3> QED
      BY <3>1, <3>2 DEF CaptureInit, CallInv
  <2> QED
    BY <2>1, BufferInit, CaptureSizesHold DEF CaptureInv
<1>2. CaptureInv /\ [CaptureNext]_captureVars => CaptureInv'
  BY CaptureStepKeeps, CaptureSizesHold
<1> QED
  BY <1>1, <1>2, PTL DEF CaptureSpec

\* The variables of custom_tcpdump_capture and of its caller keep their types.
THEOREM CaptureTypesAreKept == CaptureSpec => []CaptureTypeOK
<1>1. CaptureInv => CaptureTypeOK
  <2> SUFFICES ASSUME CaptureInv PROVE CaptureTypeOK
    OBVIOUS
  <2>1. /\ ArrivalBound \in Nat /\ count \in Nat /\ offset \in Nat
        /\ Len(arrived) \in Nat /\ count <= Len(arrived) /\ Len(arrived) <= ArrivalBound
    BY CaptureSizesHold DEF CaptureInv, BufferInv, CaptureSizes
  <2>2. result = 0 \/ result \in -5 .. -1 \/ result = count
    BY DEF CaptureInv, CallInv
  <2>3. result \in -5 .. ArrivalBound
    BY <2>1, <2>2
  <2> QED
    BY <2>1, <2>3 DEF CaptureInv, CallInv, CaptureTypeOK
<1> QED
  BY <1>1, CaptureInvariance, PTL

\* print_captured_packets shows what packet_handler stored, which is what a
\* greedy choice keeps, inside the buffer; a call of custom_tcpdump_capture
\* that fails leaves its own message and nothing open.
THEOREM CaptureIsFaithful == CaptureSpec => []CaptureFaithful
<1>1. CaptureInv => CaptureFaithful
  <2> SUFFICES ASSUME CaptureInv PROVE CaptureFaithful
    OBVIOUS
  <2>1. PICK ptrs : Walk(ptrs)
    BY DEF CaptureInv, BufferInv
  <2>2. /\ count \in Nat /\ offset \in Nat /\ offset <= BufferSize /\ BufferSize \in Nat
        /\ Len(Kept) = count /\ Len(shown) \in Nat /\ shown \in Seq([ptr : Nat, nr : Nat])
        /\ HeaderSize \in Nat /\ arrived \in Seq(Nat) /\ Kept \in Seq(1 .. Len(arrived))
    BY CaptureSizesHold DEF CaptureInv, BufferInv, CallInv, CaptureSizes
  <2>3. Len(shown) <= count
    <3>1. shown = <<>> \/ Len(shown) <= count
      BY DEF CaptureInv, CallInv
    <3> QED
      BY <2>2, <3>1
  <2>4. ASSUME NEW i \in DOMAIN shown
        PROVE  shown[i].ptr + HeaderSize + arrived[Kept[i]] <= BufferSize /\ shown[i].nr = Kept[i]
    <3>1. i \in 1 .. Len(shown) /\ i \in 1 .. count
      <4>1. DOMAIN shown = 1 .. Len(shown)
        BY <2>2
      <4> QED
        BY <2>2, <2>3, <4>1
    <3>2. shown[i].ptr = ptrs[i] /\ shown[i].nr = Kept[i]
      BY <2>1, <3>1 DEF Walk
    <3>3. ptrs[i] + HeaderSize + arrived[Kept[i]] <= offset
      BY <2>1, <3>1 DEF Walk, HeaderAt
    <3>4. ptrs[i] \in Nat /\ arrived[Kept[i]] \in Nat
      <4>1. ptrs[i] \in Nat
        BY <2>1, <3>1 DEF Walk
      <4>3. Kept[i] \in 1 .. Len(arrived)
        BY <2>2, <3>1
      <4>2. \A j \in 1 .. Len(arrived) : arrived[j] \in Nat
        BY <2>2
      <4> QED
        BY <4>1, <4>2, <4>3
    <3>5. PICK x : x = ptrs[i] + HeaderSize + arrived[Kept[i]]
      OBVIOUS
    <3>6. x \in Int
      BY <2>2, <3>4, <3>5
    <3>7. x <= BufferSize
      BY <2>2, <3>3, <3>5, <3>6
    <3> QED
      BY <3>2, <3>5, <3>7
  <2>5. captureAt \in {"returned", "exit"} =>
          /\ ~handle /\ ~program
          /\ IF result < 0 THEN Code[error_buffer] = result
             ELSE error_buffer \in {"none", "warning", "interrupted"}
    BY <2>2 DEF CaptureInv, CallInv
  <2>6. captureAt = "exit" /\ result >= 0 => Len(shown) = Len(Kept)
    BY <2>2, <2>3 DEF CaptureInv, CallInv
  <2> QED
    BY <2>2, <2>4, <2>5, <2>6 DEF CaptureFaithful
<1> QED
  BY <1>1, CaptureInvariance, PTL

-----------------------------------------------------------------------------
(***************************************************************************)
(* The ACPI table, for any table of the firmware and any text: what holds  *)
(* of a table in the XSDT stays true of it, and a reader that finds the    *)
(* application's identification has found the application's table.         *)
(***************************************************************************)
\* The table that the application installs.
Installed == Filled(CalculateChecksum(Filled(0)))

\* All that is said of one table in the XSDT: its bytes sum to 0, and if it
\* carries the application's identification it is the application's.
TableInv(t) == ByteSum(t) = 0 /\ (t.oem = oem => t = Installed)

\* The inductive invariant.
AcpiInv ==
  /\ boot \in {"uefi", "linux"} /\ app \in {"idle", "install", "free"}
  /\ module \in {"out", "found", "kobj", "live"}
  /\ acpi \in Seq(Tables) /\ oem \in Oems /\ rsdp = RootPointer
  /\ view \in 0 .. 2 /\ viewSaid \in {"nothing", "valid", "invalid"}
  /\ kobj \in BOOLEAN /\ attrs \in BOOLEAN /\ mytb \in 0 .. Len(acpi)
  /\ gets \in Nat /\ loads \in Nat /\ gets <= loads /\ loads <= LoadBound
  /\ \A i \in DOMAIN acpi : TableInv(acpi[i])
  /\ app = "install" => pool = Installed
  /\ boot = "linux" => app = "idle"
  /\ module = "out" => mytb = 0
  /\ module # "out" => /\ boot = "linux" /\ mytb \in DOMAIN acpi
                       /\ acpi[mytb].signature = 60 /\ acpi[mytb].length >= TableSize
  /\ attrs <=> module = "live"
  /\ kobj <=> module \in {"kobj", "live"}
  /\ shownField # <<>> =>
       /\ module = "live"
       /\ shownField \in {<<"signature", acpi[mytb].signature>>, <<"data1", acpi[mytb].data1>>,
                          <<"data2", acpi[mytb].data2>>, <<"message", acpi[mytb].message>>}

\* The least element of a set of naturals.
LEMMA MinIn ==
  ASSUME NEW T, T \subseteq Nat, T # {}
  PROVE  Min(T) \in T
<1> DEFINE R == {x \in Nat \X Nat : x[1] < x[2]}
<1>1. IsWellFoundedOn(R, Nat)
  BY NatLessThanWellFounded DEF OpToRel
<1> HIDE DEF R
<1>2. PICK i \in T : \A j \in T : ~(<<j, i>> \in R)
  BY <1>1, WFMin, Zenon
<1>3. \A j \in T : i \in Nat /\ j \in Nat /\ ~(j < i)
  BY <1>2 DEF R
<1>4. \A j \in T : i <= j
  BY <1>3
<1> QED
  BY <1>4, Zenon DEF Min

\* CalculateChecksum: the byte makes the sum 0.
LEMMA SumIsZero ==
  ASSUME NEW n \in Nat
  PROVE  (n + ((256 - (n % 256)) % 256)) % 256 = 0
OBVIOUS

\* The application's table is one, and its bytes sum to 0.
LEMMA InstalledSums ==
  ASSUME FirmwareSound, oem \in Oems
  PROVE  /\ Installed \in Tables /\ ByteSum(Installed) = 0
         /\ Installed.signature = 60 /\ Installed.oem = oem /\ Installed.data1 = Data1
         /\ Installed.data2 = Data2 /\ Installed.message = Text /\ Installed.ended
<1> DEFINE n == 60 + TableSize + 1 + oem + 0 + 21 + Data1 + Data2 + Text
           c == CalculateChecksum(Filled(0))
<1>1. TableSize \in Nat /\ Data1 \in Nat /\ Data2 \in Nat /\ Text \in Nat /\ oem \in Nat
  BY DEF FirmwareSound
<1>2. n \in Nat
  BY <1>1
<1>3. c = (256 - (n % 256)) % 256
  BY <1>1 DEF CalculateChecksum, ByteSum, Filled, AsciiStrCpyS
<1>4. c \in Nat
  BY <1>2, <1>3
<1>5. Installed = Filled(c)
  BY DEF Installed
<1> HIDE DEF c
<1>6. ByteSum(Installed) = (n + c) % 256
  BY <1>1, <1>4, <1>5 DEF ByteSum, Filled, AsciiStrCpyS
<1>7. ByteSum(Installed) = 0
  BY <1>2, <1>3, <1>6, SumIsZero
<1>8. (28 < 32) = TRUE /\ AsciiStrCpyS(8, 8, 1) = 0
  BY DEF AsciiStrCpyS
<1>9. Installed = [signature |-> 60, length |-> TableSize, revision |-> 1, checksum |-> c,
                   oem |-> oem, oemRevision |-> 0, creator |-> 21, data1 |-> Data1,
                   data2 |-> Data2, message |-> Text, ended |-> TRUE]
  BY <1>5, <1>8, Zenon DEF Filled
<1>10. Installed \in Tables
  BY <1>1, <1>4, <1>9 DEF Tables
<1> QED
  BY <1>7, <1>9, <1>10

\* A table in the XSDT, or the one that is installed, is a table.
LEMMA TableType ==
  ASSUME AcpiInv
  PROVE  /\ \A i \in DOMAIN acpi : acpi[i] \in Tables
         /\ DOMAIN acpi = 1 .. Len(acpi) /\ Len(acpi) \in Nat
BY DEF AcpiInv

\* MyAddAcpi.
LEMMA AddAcpiKeeps ==
  ASSUME FirmwareSound, AcpiInv,
         FreePool \/ \E ok \in BOOLEAN : Create(ok) \/ Install(ok)
  PROVE  AcpiInv'
<1>1. /\ boot' = boot /\ oem' = oem /\ rsdp' = rsdp /\ module' = module /\ mytb' = mytb
      /\ kobj' = kobj /\ attrs' = attrs /\ gets' = gets /\ loads' = loads
      /\ shownField' = shownField /\ view' = view /\ viewSaid' = viewSaid
  BY DEF Create, FreePool, Install, modVars, viewVars
<1>2. Installed' = Installed
  BY <1>1 DEF Installed, Filled, CalculateChecksum, ByteSum
<1>3. \A t : TableInv(t)' <=> TableInv(t)
  BY <1>1, <1>2 DEF TableInv, ByteSum
<1>4. ASSUME NEW ok \in BOOLEAN, Create(ok) PROVE AcpiInv'
  <2>1. /\ boot = "uefi" /\ acpi' = acpi
        /\ (app' = "install" /\ pool' = Installed) \/ (app' = app /\ pool' = pool)
    BY <1>4 DEF Create, Installed
  <2> QED
    BY <1>1, <1>2, <1>3, <2>1 DEF AcpiInv
<1>5. CASE FreePool
  <2>1. app' = "idle" /\ acpi' = acpi
    BY <1>5 DEF FreePool
  <2> QED
    BY <1>1, <1>3, <2>1 DEF AcpiInv
<1>6. ASSUME NEW ok \in BOOLEAN, Install(ok) PROVE AcpiInv'
  <2>1. app = "install" /\ app' = "free" /\ acpi' = IF ok THEN Append(acpi, pool) ELSE acpi
    BY <1>6 DEF Install
  <2>2. boot # "linux" /\ module = "out" /\ pool = Installed /\ mytb = 0 /\ shownField = <<>>
    BY <2>1 DEF AcpiInv
  <2>3. Installed \in Tables /\ TableInv(Installed)
    BY InstalledSums DEF TableInv, AcpiInv
  <2>4. acpi' \in Seq(Tables) /\ \A i \in DOMAIN acpi' : TableInv(acpi'[i])
    <3>1. CASE ok
      BY <2>1, <2>2, <2>3, <3>1 DEF AcpiInv
    <3>2. CASE ~ok
      BY <2>1, <3>2 DEF AcpiInv
    <3> QED
      BY <3>1, <3>2
  <2>5. \A i \in DOMAIN acpi' : TableInv(acpi[i])'
    BY <1>3, <2>4
  <2> QED
    BY <1>1, <2>1, <2>2, <2>4, <2>5 DEF AcpiInv
<1> QED
  BY <1>4, <1>5, <1>6

\* MyAcpiView, and the boot.
LEMMA ViewKeeps ==
  ASSUME FirmwareSound, AcpiInv, View \/ ChangeACPITable \/ Boot
  PROVE  AcpiInv'
<1>0. rsdp = RootPointer /\ RootPointer \in Seq(Nat)
  BY DEF AcpiInv, FirmwareSound
<1>4. CopyMem(EmptyLength) = rsdp
  <2>1. \A i \in DOMAIN rsdp : ~(4 * i <= 0)
    BY <1>0
  <2>2. CopyMem(EmptyLength) = [i \in DOMAIN rsdp |-> rsdp[i]]
    BY <2>1 DEF CopyMem, EmptyLength, WordSize
  <2> QED
    BY <1>0, <2>2
<1>5. rsdp' = RootPointer
  BY <1>0, <1>4 DEF View, ChangeACPITable, Boot, viewVars
<1>6. view' \in 0 .. 2 /\ viewSaid' \in {"nothing", "valid", "invalid"}
  BY DEF View, ChangeACPITable, Boot, viewVars, Verdicts, AcpiInv
<1>1. /\ oem' = oem /\ app' = app /\ pool' = pool /\ installs' = installs /\ module' = module
      /\ mytb' = mytb /\ kobj' = kobj /\ attrs' = attrs /\ gets' = gets /\ loads' = loads
      /\ shownField' = shownField /\ acpi' = acpi
      /\ boot' = boot \/ (boot' = "linux" /\ app = "idle")
  BY <1>0 DEF View, ChangeACPITable, Boot, modVars
<1>2. Installed' = Installed
  BY <1>1 DEF Installed, Filled, CalculateChecksum, ByteSum
<1>3. \A t : TableInv(t)' <=> TableInv(t)
  BY <1>1, <1>2 DEF TableInv, ByteSum
<1> QED
  BY <1>1, <1>2, <1>3, <1>5, <1>6 DEF AcpiInv

\* mytb_reader.
LEMMA ReaderKeeps ==
  ASSUME FirmwareSound, AcpiInv,
         \/ FindTable \/ Unload
         \/ \E ok \in BOOLEAN : CreateKobj(ok) \/ CreateGroup(ok)
         \/ \E f \in {"signature", "data1", "data2", "message"} : ShowField(f)
  PROVE  AcpiInv'
<1>1. /\ boot' = boot /\ oem' = oem /\ app' = app /\ pool' = pool /\ acpi' = acpi
      /\ rsdp' = rsdp /\ installs' = installs /\ view' = view /\ viewSaid' = viewSaid
  BY DEF FindTable, Unload, CreateKobj, CreateGroup, ShowField, uefiVars, viewVars
<1>2. Installed' = Installed
  BY <1>1 DEF Installed, Filled, CalculateChecksum, ByteSum
<1>3. \A t : TableInv(t)' <=> TableInv(t)
  BY <1>1, <1>2 DEF TableInv, ByteSum
<1>4. CASE FindTable
  <2>1. /\ boot = "linux" /\ module = "out" /\ loads < LoadBound /\ loads' = loads + 1
        /\ shownField' = <<>> /\ kobj' = kobj /\ attrs' = attrs
    BY <1>4 DEF FindTable
  <2>2. LoadBound \in Nat /\ mytb = 0
    BY <2>1 DEF FirmwareSound, AcpiInv
  <2>3. CASE Matching = {} \/ acpi[Min(Matching)].length < TableSize
    <3>1. module' = module /\ mytb' = mytb /\ gets' \in {gets, gets + 1}
      BY <1>4, <2>3 DEF FindTable
    <3> QED
      BY <1>1, <1>2, <1>3, <2>1, <2>2, <3>1 DEF AcpiInv
  <2>4. CASE ~(Matching = {} \/ acpi[Min(Matching)].length < TableSize)
    <3>1. module' = "found" /\ mytb' = Min(Matching) /\ gets' = gets + 1
      BY <1>4, <2>4 DEF FindTable
    <3>2. Matching \subseteq Nat /\ Matching # {}
      BY <2>4, TableType DEF Matching
    <3>3. Min(Matching) \in Matching
      BY <3>2, MinIn
    <3>4. /\ mytb' \in DOMAIN acpi /\ mytb' \in 0 .. Len(acpi) /\ acpi[mytb'].signature = 60
          /\ acpi[mytb'].length >= TableSize
      <4>1. mytb' \in DOMAIN acpi /\ acpi[mytb'].signature = 60 /\ ~(acpi[mytb'].length < TableSize)
        BY <2>4, <3>1, <3>3 DEF Matching
      <4>2. acpi[mytb'].length \in Nat /\ TableSize \in Nat /\ mytb' \in 0 .. Len(acpi)
        BY <4>1, TableType DEF Tables, FirmwareSound
      <4> QED
        BY <4>1, <4>2
    <3> QED
      BY <1>1, <1>2, <1>3, <2>1, <2>2, <3>1, <3>4 DEF AcpiInv
  <2> QED
    BY <2>3, <2>4
<1>5. CASE Unload
  <2>1. /\ attrs' = FALSE /\ kobj' = FALSE /\ module' = "out" /\ mytb' = 0 /\ shownField' = <<>>
        /\ gets' = gets /\ loads' = loads
    BY <1>5 DEF Unload
  <2>2. attrs' \in BOOLEAN /\ kobj' \in BOOLEAN /\ ~attrs' /\ ~kobj'
    BY <2>1, Zenon
  <2>3. mytb' \in 0 .. Len(acpi)
    BY <2>1, TableType
  <2> QED
    BY <1>1, <1>2, <1>3, <2>1, <2>2, <2>3 DEF AcpiInv
<1>6. ASSUME NEW ok \in BOOLEAN, CreateKobj(ok) \/ CreateGroup(ok) PROVE AcpiInv'
  <2>1. shownField = <<>> /\ Len(acpi) \in Nat
    BY <1>6, TableType DEF CreateKobj, CreateGroup, AcpiInv
  <2>2. CASE CreateKobj(ok)
    BY <1>1, <1>2, <1>3, <2>1, <2>2 DEF AcpiInv, CreateKobj
  <2>3. CASE CreateGroup(ok)
    BY <1>1, <1>2, <1>3, <2>1, <2>3 DEF AcpiInv, CreateGroup
  <2> QED
    BY <1>6, <2>2, <2>3
<1>7. ASSUME NEW f \in {"signature", "data1", "data2", "message"}, ShowField(f) PROVE AcpiInv'
  <2>1. /\ attrs /\ module' = module /\ mytb' = mytb /\ kobj' = kobj /\ attrs' = attrs
        /\ gets' = gets /\ loads' = loads
        /\ shownField' = IF mytb = 0 THEN <<f, -22>> ELSE <<f, acpi[mytb][f]>>
    BY <1>7 DEF ShowField
  <2>2. module = "live" /\ mytb # 0
    BY <2>1, TableType DEF AcpiInv
  <2>3. shownField' \in {<<"signature", acpi[mytb].signature>>, <<"data1", acpi[mytb].data1>>,
                         <<"data2", acpi[mytb].data2>>, <<"message", acpi[mytb].message>>}
    BY <2>1, <2>2
  <2> QED
    BY <1>1, <1>2, <1>3, <2>1, <2>2, <2>3 DEF AcpiInv
<1> QED
  BY <1>4, <1>5, <1>6, <1>7

\* Whatever the applications, the boot and the module do, the tables sum to 0
\* and the module uses a table that is there.
THEOREM AcpiInvariance == AcpiSpec => []AcpiInv
<1>1. AcpiInit => AcpiInv
  <2> SUFFICES ASSUME AcpiInit PROVE AcpiInv
    OBVIOUS
  <2>1. /\ acpi \in Firmware /\ oem \in Oems /\ LoadBound \in Nat
        /\ acpi \in Seq(Tables) /\ \A i \in DOMAIN acpi : TableInv(acpi[i])
    BY FirmwareSoundHolds DEF AcpiInit, FirmwareSound, TableInv
  <2>2. attrs \in BOOLEAN /\ kobj \in BOOLEAN /\ ~attrs /\ ~kobj
    BY Zenon DEF AcpiInit
  <2>3. mytb = 0 /\ mytb \in 0 .. Len(acpi)
    BY <2>1 DEF AcpiInit
  <2> QED
    BY <2>1, <2>2, <2>3 DEF AcpiInit, AcpiInv
<1>2. AcpiInv /\ [AcpiNext]_acpiVars => AcpiInv'
  <2> SUFFICES ASSUME AcpiInv, [AcpiNext]_acpiVars PROVE AcpiInv'
    OBVIOUS
  <2>1. CASE UNCHANGED acpiVars
    <3>1. /\ boot' = boot /\ oem' = oem /\ app' = app /\ pool' = pool /\ acpi' = acpi
          /\ rsdp' = rsdp /\ module' = module /\ mytb' = mytb /\ kobj' = kobj /\ attrs' = attrs
          /\ gets' = gets /\ loads' = loads /\ shownField' = shownField
          /\ view' = view /\ viewSaid' = viewSaid
      BY <2>1 DEF acpiVars, uefiVars, modVars, viewVars
    <3>2. Installed' = Installed
      BY <3>1 DEF Installed, Filled, CalculateChecksum, ByteSum
    <3>3. \A t : TableInv(t)' <=> TableInv(t)
      BY <3>1, <3>2 DEF TableInv, ByteSum
    <3> QED
      BY <3>1, <3>2, <3>3 DEF AcpiInv
  <2>2. CASE AcpiNext
    BY <2>2, FirmwareSoundHolds, AddAcpiKeeps, ViewKeeps, ReaderKeeps DEF AcpiNext
  <2> QED
    BY <2>1, <2>2
<1> QED
  BY <1>1, <1>2, PTL DEF AcpiSpec

\* Every variable of the ACPI part has its type.
THEOREM AcpiTypesAreKept == AcpiSpec => []AcpiTypeOK
<1>1. AcpiInv => AcpiTypeOK
  <2> SUFFICES ASSUME AcpiInv PROVE AcpiTypeOK
    OBVIOUS
  <2>0. LoadBound \in Nat /\ gets \in Nat /\ gets <= loads /\ loads <= LoadBound /\ loads \in Nat
    <3>1. LoadBound \in Nat
      BY FirmwareSoundHolds DEF FirmwareSound
    <3> QED
      BY <3>1 DEF AcpiInv
  <2>1. gets \in 0 .. LoadBound
    BY <2>0
  <2>2. /\ boot \in {"uefi", "linux"} /\ app \in {"idle", "install", "free"}
        /\ module \in {"out", "found", "kobj", "live"} /\ rsdp = RootPointer
        /\ view \in 0 .. 2 /\ viewSaid \in {"nothing", "valid", "invalid"}
        /\ kobj \in BOOLEAN /\ attrs \in BOOLEAN /\ mytb \in 0 .. Len(acpi)
    BY DEF AcpiInv
  <2> QED
    BY <2>1, <2>2, Zenon DEF AcpiTypeOK
<1> QED
  BY <1>1, AcpiInvariance, PTL

\* For any tables of the firmware with valid checksums and any contents: every
\* table sums to 0 with the byte of CalculateChecksum, MyAcpiView leaves the
\* root pointer alone, and what mytb_reader shows is what CreateCustomAcpiTable
\* wrote.
THEOREM TableDoesArrive == AcpiSpec => []TableArrives
<1>1. AcpiInv => TableArrives
  <2> SUFFICES ASSUME AcpiInv PROVE TableArrives
    OBVIOUS
  <2>1. (\A i \in DOMAIN acpi : ByteSum(acpi[i]) = 0) /\ rsdp = RootPointer
    BY DEF AcpiInv, TableInv
  <2>2. attrs => kobj /\ mytb # 0 /\ acpi[mytb].length >= TableSize
    BY TableType DEF AcpiInv
  <2>3. ASSUME shownField # <<>>, mytb # 0, acpi[mytb].oem = oem
        PROVE  /\ acpi[mytb].ended
               /\ shownField \in {<<"signature", 60>>, <<"data1", Data1>>, <<"data2", Data2>>,
                                  <<"message", Text>>}
    <3>1. mytb \in DOMAIN acpi
      BY <2>3 DEF AcpiInv
    <3>2. acpi[mytb] = Installed
      BY <2>3, <3>1 DEF AcpiInv, TableInv
    <3>3. /\ Installed.signature = 60 /\ Installed.data1 = Data1 /\ Installed.data2 = Data2
          /\ Installed.message = Text /\ Installed.ended
      BY FirmwareSoundHolds, InstalledSums DEF AcpiInv
    <3> QED
      BY <2>3, <3>2, <3>3 DEF AcpiInv
  <2> QED
    BY <2>1, <2>2, <2>3 DEF TableArrives
<1> QED
  BY <1>1, AcpiInvariance, PTL

-----------------------------------------------------------------------------
(***************************************************************************)
(* The tree of ramfs, for any number of inodes, dentries and names.  All   *)
(* counters are related to three counts of dentries: those that have an    *)
(* inode, those of them that a lookup finds, and those that are found in a *)
(* directory and are directories.  A directory has one dentry, or is the   *)
(* root, which has none; so no name has to be compared with another one.   *)
(***************************************************************************)
\* A condition that holds counts one.
One(b) == IF b THEN 1 ELSE 0

\* How many of S the function f maps to x.
Count(S, f, x) == Cardinality({s \in S : f[s] = x})

\* For each dentry its inode, its inode if a lookup finds it, and the
\* directory it is found in if it is a directory itself.
NoInode == -1
HeldOf == [e \in Dentries |-> IF e \in Alive THEN dentry[e].inode ELSE NoInode]
LinkOf == [e \in Dentries |-> IF e \in Hashed THEN dentry[e].inode ELSE NoInode]
SubOf ==
  [e \in Dentries |-> IF e \in Hashed /\ kind[dentry[e].inode] = "dir" THEN dentry[e].dir
                      ELSE NoInode]

\* The three counts of an inode.
Held(i) == Count(Dentries, HeldOf, i)
Links(i) == Count(Dentries, LinkOf, i)
Subs(i) == Count(Dentries, SubOf, i)

\* A directory that is not removed.
Reached(i) == kind[i] = "dir" /\ (i = Root \/ Links(i) > 0)

\* All that is said of one inode.
InodeInv(i) ==
  /\ icount[i] = Held(i) + One(i = Root /\ phase = "mounted")
  /\ kind[i] = "free" <=> icount[i] = 0
  /\ kind[i] = "dir" => icount[i] = 1
  /\ nlink[i] = IF kind[i] # "dir" THEN Links(i) ELSE IF Reached(i) THEN 2 + Subs(i) ELSE 0

\* All that is said of one dentry: it is there for its name or for an open
\* file, and its name is in a directory.
DentryInv(e) ==
  e \in Alive =>
    /\ e \in Hashed \/ e \in open
    /\ dentry[e].count = One(e \in Hashed) + One(e \in open)
    /\ e \in Hashed => Reached(dentry[e].dir) /\ dentry[e].name \in Names

\* A directory has a name once.
NamesInv ==
  \A e, f \in Hashed :
    dentry[e].dir = dentry[f].dir /\ dentry[e].name = dentry[f].name => e = f

\* The mount and who owns the fs info.
MountInv ==
  /\ phase = "none" => owner \in {"none", "freed"}
  /\ phase = "context" => owner \in {"fc", "freed"}
  /\ phase = "mounted" => owner = "sb" /\ kind[Root] = "dir" /\ perm = mode.perm
  /\ owner \in {"fc", "sb"} => mode = [type |-> {}, perm |-> mode.perm] /\ mode.perm # None
  /\ frees = One(owner = "freed")
  /\ phase # "mounted" => Alive = {}

\* The types, with counters that might be negative.
TreeTyped ==
  /\ phase \in {"none", "context", "mounted"} /\ owner \in {"none", "fc", "sb", "freed"}
  /\ kind \in [Inodes -> {"free", "dir", "reg", "lnk", "special"}]
  /\ nlink \in [Inodes -> Int] /\ icount \in [Inodes -> Int]
  /\ dentry \in [Dentries -> Records \cup {None}] /\ open \subseteq Alive

\* The inductive invariant.
TreeInv ==
  /\ TreeTyped
  /\ \A i \in Inodes : InodeInv(i)
  /\ \A e \in Dentries : DentryInv(e)
  /\ NamesInv
  /\ MountInv
  /\ tree = {NameOf(e) : e \in Hashed}

-----------------------------------------------------------------------------
(***************************************************************************)
(* Counting.                                                               *)
(***************************************************************************)
\* A count is a number; it is positive when there is one to count, and there
\* is none to count when it is zero.
LEMMA CountNat ==
  ASSUME NEW S, IsFiniteSet(S), NEW f, NEW x
  PROVE  /\ Count(S, f, x) \in Nat
         /\ \A s \in S : f[s] = x => Count(S, f, x) > 0
         /\ Count(S, f, x) > 0 => \E s \in S : f[s] = x
<1> DEFINE T == {s \in S : f[s] = x}
<1>1. IsFiniteSet(T) /\ Cardinality(T) \in Nat
  BY FS_Subset, FS_CardinalityType
<1>2. Cardinality(T) = 0 <=> T = {}
  BY <1>1, FS_EmptySet
<1> QED
  BY <1>1, <1>2 DEF Count

\* What is counted on the left is counted on the right as well.
LEMMA CountLess ==
  ASSUME NEW S, IsFiniteSet(S), NEW f, NEW g, NEW x, \A s \in S : f[s] = x => g[s] = x
  PROVE  Count(S, f, x) <= Count(S, g, x)
<1> DEFINE F == {s \in S : f[s] = x}
           G == {s \in S : g[s] = x}
<1>1. F \subseteq G /\ IsFiniteSet(G)
  BY FS_Subset
<1> HIDE DEF F, G
<1>2. Cardinality(F) <= Cardinality(G)
  BY <1>1, FS_Subset
<1> QED
  BY <1>2 DEF Count, F, G

\* Nothing to count has changed.
LEMMA CountSame ==
  ASSUME NEW S, NEW f, NEW g, NEW x, \A s \in S : g[s] = x <=> f[s] = x
  PROVE  Count(S, g, x) = Count(S, f, x)
<1>1. {s \in S : g[s] = x} = {s \in S : f[s] = x}
  OBVIOUS
<1> QED
  BY <1>1 DEF Count

\* One of those that are counted has changed.
LEMMA Recount ==
  ASSUME NEW S, IsFiniteSet(S), NEW p \in S, NEW f, NEW g, NEW x,
         \A s \in S : s # p => g[s] = f[s]
  PROVE  Count(S, g, x) = Count(S, f, x) + One(g[p] = x) - One(f[p] = x)
<1> DEFINE F == {s \in S : f[s] = x}
           G == {s \in S : g[s] = x}
<1>1. IsFiniteSet(F) /\ IsFiniteSet(G) /\ Cardinality(F) \in Nat /\ Cardinality(G) \in Nat
  BY FS_Subset, FS_CardinalityType
<1>2. CASE g[p] = x /\ f[p] # x
  <2>1. G = F \cup {p} /\ p \notin F
    BY <1>2
  <2>2. Cardinality(G) = Cardinality(F) + 1
    BY <1>1, <2>1, FS_AddElement
  <2> QED
    BY <1>1, <1>2, <2>2 DEF Count, One
<1>3. CASE g[p] # x /\ f[p] = x
  <2>1. G = F \ {p} /\ p \in F
    BY <1>3
  <2>2. Cardinality(G) = Cardinality(F) - 1
    BY <1>1, <2>1, FS_RemoveElement
  <2> QED
    BY <1>1, <1>3, <2>2 DEF Count, One
<1>4. CASE g[p] = x <=> f[p] = x
  <2>1. G = F
    BY <1>4
  <2> QED
    BY <1>1, <1>4, <2>1 DEF Count, One
<1> QED
  BY <1>2, <1>3, <1>4

\* Two of those that are counted have changed.
LEMMA RecountTwo ==
  ASSUME NEW S, IsFiniteSet(S), NEW p \in S, NEW q \in S, p # q,
         NEW f, f = [s \in S |-> f[s]], NEW g, NEW x,
         \A s \in S : s \notin {p, q} => g[s] = f[s]
  PROVE  Count(S, g, x) = Count(S, f, x) + One(g[p] = x) - One(f[p] = x)
                          + One(g[q] = x) - One(f[q] = x)
<1> DEFINE h == [f EXCEPT ![p] = g[p]]
<1>1. /\ \A s \in S : s # p => h[s] = f[s]
      /\ \A s \in S : s # q => g[s] = h[s]
      /\ h[p] = g[p] /\ h[q] = f[q]
  OBVIOUS
<1> HIDE DEF h
<1>2. Count(S, h, x) = Count(S, f, x) + One(h[p] = x) - One(f[p] = x)
  BY <1>1, Recount
<1>3. Count(S, g, x) = Count(S, h, x) + One(g[q] = x) - One(h[q] = x)
  BY <1>1, Recount
<1>4. Count(S, f, x) \in Nat /\ Count(S, g, x) \in Nat /\ Count(S, h, x) \in Nat
  BY CountNat
<1> QED
  BY <1>1, <1>2, <1>3, <1>4 DEF One

-----------------------------------------------------------------------------
(***************************************************************************)
(* Inodes and dentries.                                                    *)
(***************************************************************************)
\* The least element of a set of naturals.
LEMMA LowestIn ==
  ASSUME NEW T, T \subseteq Nat, T # {}
  PROVE  Lowest(T) \in T
<1> DEFINE R == {x \in Nat \X Nat : x[1] < x[2]}
<1>1. IsWellFoundedOn(R, Nat)
  BY NatLessThanWellFounded DEF OpToRel
<1> HIDE DEF R
<1>2. PICK i \in T : \A j \in T : ~(<<j, i>> \in R)
  BY <1>1, WFMin, Zenon
<1>3. \A j \in T : i \in Nat /\ j \in Nat /\ ~(j < i)
  BY <1>2 DEF R
<1>4. \A j \in T : i <= j
  BY <1>3
<1> QED
  BY <1>4, Zenon DEF Lowest

\* The root is an inode.
LEMMA RootIn ==
  ASSUME TreeSound
  PROVE  Root \in Inodes
BY LowestIn DEF TreeSound, Root

\* The three counts of an inode, before and after a step.
LEMMA CountsNat ==
  ASSUME TreeSound, NEW i
  PROVE  /\ Held(i) \in Nat /\ Links(i) \in Nat /\ Subs(i) \in Nat
         /\ Held(i)' \in Nat /\ Links(i)' \in Nat /\ Subs(i)' \in Nat
         /\ i # NoInode => Links(i) <= Held(i) /\ Links(i)' <= Held(i)'
<1>1. IsFiniteSet(Dentries)
  BY DEF TreeSound
<1>2. \A s \in Dentries : i # NoInode /\ LinkOf[s] = i => HeldOf[s] = i
  BY DEF LinkOf, HeldOf, Hashed
<1>3. i # NoInode => Count(Dentries, LinkOf, i) <= Count(Dentries, HeldOf, i)
  BY <1>1, <1>2, CountLess
<1>4. Held(i) \in Nat /\ Links(i) \in Nat /\ Subs(i) \in Nat
  BY <1>1, CountNat DEF Held, Links, Subs
<1>5. Count(Dentries, HeldOf', i) \in Nat /\ Count(Dentries, LinkOf', i) \in Nat
      /\ Count(Dentries, SubOf', i) \in Nat
  BY <1>1, CountNat
<1>6. Held(i)' \in Nat /\ Links(i)' \in Nat /\ Subs(i)' \in Nat
  BY <1>5 DEF Held, Links, Subs, Count
<1>7. \A s \in Dentries : i # NoInode /\ LinkOf'[s] = i => HeldOf'[s] = i
  BY DEF LinkOf, HeldOf, Hashed
<1>8. i # NoInode => Count(Dentries, LinkOf', i) <= Count(Dentries, HeldOf', i)
  BY <1>1, <1>7, CountLess
<1>9. Held(i)' = Count(Dentries, HeldOf', i) /\ Links(i)' = Count(Dentries, LinkOf', i)
  BY DEF Held, Links, Count
<1> QED
  BY <1>3, <1>4, <1>6, <1>8, <1>9 DEF Held, Links

\* A dentry, as it is there or not.
LEMMA DentryType ==
  ASSUME TreeSound, TreeTyped, NEW e \in Dentries
  PROVE  /\ e \in Alive <=> dentry[e] # None
         /\ e \in Alive => /\ dentry[e] \in Records /\ dentry[e].dir \in Inodes
                           /\ dentry[e].inode \in Inodes /\ dentry[e].count \in 1 .. 2
                           /\ dentry[e].hashed \in BOOLEAN
         /\ e \in Hashed <=> e \in Alive /\ dentry[e].hashed
         /\ NoInode \notin Inodes
BY DEF TreeSound, TreeTyped, Alive, Unborn, Hashed, Records, NoInode

\* What a dentry says about the counts of its inode and of its directory.
LEMMA DentryCounts ==
  ASSUME TreeSound, TreeTyped, NEW e \in Alive
  PROVE  /\ Held(dentry[e].inode) > 0
         /\ e \in Hashed => Links(dentry[e].inode) > 0
         /\ e \in Hashed /\ kind[dentry[e].inode] = "dir" => Subs(dentry[e].dir) > 0
<1>1. IsFiniteSet(Dentries) /\ e \in Dentries
  BY DEF TreeSound, Alive
<1>2. /\ HeldOf[e] = dentry[e].inode
      /\ e \in Hashed => LinkOf[e] = dentry[e].inode
      /\ e \in Hashed /\ kind[dentry[e].inode] = "dir" => SubOf[e] = dentry[e].dir
  BY <1>1 DEF HeldOf, LinkOf, SubOf
<1> QED
  BY <1>1, <1>2, CountNat DEF Held, Links, Subs

\* A directory that lookups reach is one that is not removed.
LEMMA LiveReached ==
  ASSUME TreeSound, TreeTyped, NEW i \in Inodes
  PROVE  LiveDir(i) <=> Reached(i)
<1>1. IsFiniteSet(Dentries) /\ NoInode # i
  BY DEF TreeSound, NoInode
<1>2. (\E e \in Hashed : dentry[e].inode = i) <=> \E e \in Dentries : LinkOf[e] = i
  BY <1>1 DEF LinkOf, Hashed, Alive
<1>3. Links(i) > 0 <=> \E e \in Dentries : LinkOf[e] = i
  BY <1>1, CountNat DEF Links
<1> QED
  BY <1>2, <1>3 DEF LiveDir, Reached

\* A free inode has no dentry and no entries, and is not the root.
LEMMA FreeInode ==
  ASSUME TreeSound, TreeInv, NEW i \in Free
  PROVE  /\ i \in Inodes /\ kind[i] = "free" /\ icount[i] = 0 /\ nlink[i] = 0
         /\ Held(i) = 0 /\ Links(i) = 0 /\ Subs(i) = 0
         /\ phase = "mounted" => i # Root
<1>1. i \in Inodes /\ kind[i] = "free" /\ InodeInv(i) /\ NoInode # i
  BY DEF Free, TreeInv, TreeSound, NoInode
<1>2. Held(i) \in Nat /\ Links(i) \in Nat /\ Subs(i) \in Nat /\ Links(i) <= Held(i)
  BY <1>1, CountsNat
<1>3. ASSUME NEW e \in Dentries PROVE SubOf[e] # i
  <2>1. e \in Hashed => e \in Alive /\ kind[dentry[e].dir] = "dir"
    BY DEF TreeInv, DentryInv, Reached, Hashed
  <2> QED
    BY <1>1, <2>1 DEF SubOf
<1>4. Subs(i) = 0
  <2>1. IsFiniteSet(Dentries)
    BY DEF TreeSound
  <2>2. Count(Dentries, SubOf, i) > 0 => \E s \in Dentries : SubOf[s] = i
    BY <2>1, CountNat
  <2> QED
    BY <1>2, <1>3, <2>2 DEF Subs
<1>5. icount[i] = 0 /\ icount[i] = Held(i) + One(i = Root /\ phase = "mounted")
  BY <1>1 DEF InodeInv
<1>6. Held(i) = 0 /\ Links(i) = 0 /\ (phase = "mounted" => i # Root)
  BY <1>2, <1>5 DEF One
<1>7. nlink[i] = 0
  BY <1>1, <1>6 DEF InodeInv
<1> QED
  BY <1>1, <1>4, <1>5, <1>6, <1>7

-----------------------------------------------------------------------------
(***************************************************************************)
(* Steps.                                                                  *)
(***************************************************************************)
\* Nothing changes for a dentry, but for the inode it has.
SameDentry(f) == dentry'[f] = dentry[f] /\ (f \in open' <=> f \in open)

\* A dentry that is not changed counts as before, unless its inode becomes a
\* directory or stops to be one.
LEMMA SameCounts ==
  ASSUME TreeSound, TreeTyped, NEW f \in Dentries, SameDentry(f),
         f \in Hashed => (kind'[dentry[f].inode] = "dir" <=> kind[dentry[f].inode] = "dir")
  PROVE  /\ f \in Alive' <=> f \in Alive
         /\ f \in Hashed' <=> f \in Hashed
         /\ HeldOf'[f] = HeldOf[f] /\ LinkOf'[f] = LinkOf[f] /\ SubOf'[f] = SubOf[f]
<1>1. /\ f \in Alive' <=> f \in Alive
      /\ f \in Hashed' <=> f \in Hashed
  BY DEF Alive, Unborn, Hashed, SameDentry
<1> QED
  BY <1>1 DEF HeldOf, LinkOf, SubOf, SameDentry

\* What one dentry adds to the counts of x.
HeldBy(e, x) == One(e \in Alive /\ dentry[e].inode = x)
LinkBy(e, x) == One(e \in Hashed /\ dentry[e].inode = x)
SubBy(e, x) == One(e \in Hashed /\ kind[dentry[e].inode] = "dir" /\ dentry[e].dir = x)

\* They are what the functions say.
LEMMA ByOne ==
  ASSUME TreeSound, NEW e \in Dentries, NEW x \in Inodes
  PROVE  /\ HeldBy(e, x) = One(HeldOf[e] = x) /\ LinkBy(e, x) = One(LinkOf[e] = x)
         /\ SubBy(e, x) = One(SubOf[e] = x)
         /\ HeldBy(e, x)' = One(HeldOf'[e] = x) /\ LinkBy(e, x)' = One(LinkOf'[e] = x)
         /\ SubBy(e, x)' = One(SubOf'[e] = x)
<1>1. x # NoInode
  BY DEF TreeSound, NoInode
<1> QED
  BY <1>1 DEF HeldBy, LinkBy, SubBy, HeldOf, LinkOf, SubOf

\* The counts when one dentry changes.
LEMMA OneDentry ==
  ASSUME TreeSound, TreeTyped, NEW e \in Dentries,
         \A f \in Dentries \ {e} : SameDentry(f),
         \A f \in Hashed \ {e} :
           kind'[dentry[f].inode] = "dir" <=> kind[dentry[f].inode] = "dir",
         NEW x \in Inodes
  PROVE  /\ Held(x)' = Held(x) + HeldBy(e, x)' - HeldBy(e, x)
         /\ Links(x)' = Links(x) + LinkBy(e, x)' - LinkBy(e, x)
         /\ Subs(x)' = Subs(x) + SubBy(e, x)' - SubBy(e, x)
<1>1. IsFiniteSet(Dentries)
  BY DEF TreeSound
<1>2. ASSUME NEW f \in Dentries, f # e
      PROVE  HeldOf'[f] = HeldOf[f] /\ LinkOf'[f] = LinkOf[f] /\ SubOf'[f] = SubOf[f]
  BY <1>2, SameCounts
<1>3. /\ Count(Dentries, HeldOf', x) = Count(Dentries, HeldOf, x) + One(HeldOf'[e] = x)
                                       - One(HeldOf[e] = x)
      /\ Count(Dentries, LinkOf', x) = Count(Dentries, LinkOf, x) + One(LinkOf'[e] = x)
                                       - One(LinkOf[e] = x)
      /\ Count(Dentries, SubOf', x) = Count(Dentries, SubOf, x) + One(SubOf'[e] = x)
                                      - One(SubOf[e] = x)
  BY <1>1, <1>2, Recount
<1>4. /\ Held(x)' = Count(Dentries, HeldOf', x) /\ Links(x)' = Count(Dentries, LinkOf', x)
      /\ Subs(x)' = Count(Dentries, SubOf', x)
  BY DEF Held, Links, Subs, Count
<1> QED
  BY <1>3, <1>4, ByOne DEF Held, Links, Subs

\* A step that changes the dentry e and no other one.
LEMMA TreeStep ==
  ASSUME TreeSound, TreeInv, TreeTyped', NEW e \in Dentries,
         \A f \in Dentries \ {e} : SameDentry(f),
         \A f \in Hashed \ {e} : Reached(dentry[f].dir)',
         \A x \in Inodes : InodeInv(x)',
         DentryInv(e)', MountInv',
         e \in Hashed' =>
           \A f \in Hashed \ {e} : dentry[f].dir # dentry'[e].dir \/ dentry[f].name # dentry'[e].name,
         tree' = (IF e \in Hashed THEN tree \ {NameOf(e)} ELSE tree)
                 \cup (IF e \in Hashed' THEN {NameOf(e)'} ELSE {})
  PROVE  TreeInv'
<1>1. ASSUME NEW f \in Dentries \ {e}
      PROVE  (f \in Alive' <=> f \in Alive) /\ (f \in Hashed' <=> f \in Hashed)
  BY DEF SameDentry, Alive, Unborn, Hashed
<1>2. ASSUME NEW f \in Dentries \ {e} PROVE DentryInv(f)'
  <2>1. DentryInv(f) /\ SameDentry(f)
    BY DEF TreeInv
  <2> QED
    BY <1>1, <2>1 DEF DentryInv, SameDentry
<1>3. Hashed \subseteq Dentries /\ Hashed' \subseteq Dentries
  BY DEF Hashed, Alive
<1>4. NamesInv'
  <2> SUFFICES ASSUME NEW f \in Hashed', NEW g \in Hashed',
                      dentry'[f].dir = dentry'[g].dir /\ dentry'[f].name = dentry'[g].name
               PROVE  f = g
    BY DEF NamesInv
  <2>1. NamesInv
    BY DEF TreeInv
  <2>2. CASE f # e /\ g # e
    BY <1>1, <1>3, <2>1, <2>2 DEF NamesInv, SameDentry
  <2>3. CASE f = e /\ g # e
    BY <1>1, <1>3, <2>3 DEF SameDentry
  <2>4. CASE f # e /\ g = e
    BY <1>1, <1>3, <2>4 DEF SameDentry
  <2> QED
    BY <2>2, <2>3, <2>4
<1>5. tree' = {NameOf(f)' : f \in Hashed'}
  <2>1. tree = {NameOf(f) : f \in Hashed} /\ NamesInv
    BY DEF TreeInv
  <2>2. \A f \in Hashed \ {e} : e \in Hashed => NameOf(f) # NameOf(e)
    BY <2>1 DEF NamesInv, NameOf, Named
  <2>3. (IF e \in Hashed THEN tree \ {NameOf(e)} ELSE tree) = {NameOf(f) : f \in Hashed \ {e}}
    BY <2>1, <2>2
  <2>4. \A f \in Hashed \ {e} : NameOf(f)' = NameOf(f)
    BY <1>3 DEF SameDentry, NameOf
  <2>5. Hashed' \ {e} = Hashed \ {e}
    BY <1>1, <1>3
  <2>6. {NameOf(f) : f \in Hashed \ {e}} = {NameOf(f)' : f \in Hashed' \ {e}}
    BY <2>4, <2>5
  <2>7. tree' = {NameOf(f)' : f \in Hashed' \ {e}} \cup (IF e \in Hashed' THEN {NameOf(e)'} ELSE {})
    BY <2>3, <2>6
  <2> QED
    BY <2>7
<1> QED
  BY <1>2, <1>4, <1>5 DEF TreeInv

-----------------------------------------------------------------------------
(***************************************************************************)
(* New names.                                                              *)
(***************************************************************************)
\* The dentry that is taken is there and not used.
LEMMA NewDentry ==
  ASSUME TreeSound, Unborn # {}
  PROVE  Lowest(Unborn) \in Dentries /\ Lowest(Unborn) \notin Alive
<1>1. Lowest(Unborn) \in Unborn
  BY LowestIn DEF TreeSound, Unborn
<1> QED
  BY <1>1 DEF Alive, Unborn

\* The inode that is taken is there and not used.
LEMMA NewInode ==
  ASSUME TreeSound, Free # {}
  PROVE  Lowest(Free) \in Free
BY LowestIn DEF TreeSound, Free

\* d_instantiate for the inode i, a new one or one that is linked again.
LEMMA InstantiateKeeps ==
  ASSUME TreeSound, TreeInv, phase = "mounted", NEW d \in Inodes, NEW n \in Names,
         NEW i \in Inodes, Absent(d, n), Instantiate(d, n, i), UNCHANGED <<mountVars, open>>,
         kind' \in [Inodes -> {"free", "dir", "reg", "lnk", "special"}],
         nlink' \in [Inodes -> Int], icount' \in [Inodes -> Int],
         i \in Free \/ (kind'[i] = kind[i] /\ kind[i] # "dir"), kind'[i] # "free",
         \A x \in Inodes \ {i} : kind'[x] = kind[x] /\ icount'[x] = icount[x],
         icount'[i] = icount[i] + 1,
         nlink'[i] = IF kind'[i] = "dir" THEN 2 ELSE nlink[i] + 1,
         \A x \in Inodes \ {i} : nlink'[x] = nlink[x] + One(x = d /\ kind'[i] = "dir")
  PROVE  TreeInv'
<1>0. PICK e : e = Lowest(Unborn)
  OBVIOUS
<1>1. e \in Dentries /\ e \notin Alive
  BY <1>0, NewDentry DEF Absent
<1>2. /\ dentry' = [dentry EXCEPT ![e] = Pinned(d, n, i)] /\ tree' = tree \cup {Named(d, n, i)}
      /\ phase' = phase /\ owner' = owner /\ mode' = mode /\ frees' = frees /\ perm' = perm
      /\ open' = open
  BY <1>0 DEF Instantiate, mountVars, Named
<1>3. TreeTyped /\ Reached(d) /\ Entry(d, n) = {}
  BY LiveReached DEF Absent, TreeInv
<1>4. /\ dentry'[e] = Pinned(d, n, i) /\ \A f \in Dentries \ {e} : SameDentry(f)
      /\ Pinned(d, n, i) \in Records
  BY <1>1, <1>2, <1>3 DEF TreeTyped, SameDentry, Pinned, Records
<1>5. Pinned(d, n, i) # None
  BY <1>4 DEF TreeSound
<1>6. e \in Alive' /\ e \in Hashed' /\ e \notin Hashed /\ e \notin open
  BY <1>1, <1>3, <1>4, <1>5 DEF Alive, Unborn, Hashed, Pinned, TreeTyped
<1>7. TreeTyped'
  <2>1. dentry' \in [Dentries -> Records \cup {None}]
    BY <1>2, <1>3, <1>4 DEF TreeTyped
  <2>2. open' \subseteq Alive'
    BY <1>1, <1>2, <1>3, <1>4, <1>6 DEF TreeTyped, Alive, Unborn, SameDentry
  <2> QED
    BY <1>2, <1>3, <2>1, <2>2 DEF TreeTyped
<1>8. i \in Free => Held(i) = 0 /\ Links(i) = 0 /\ Subs(i) = 0 /\ i # Root /\ i # d /\ nlink[i] = 0
  BY <1>3, FreeInode DEF Reached
<1>9. ASSUME NEW f \in Hashed
      PROVE  /\ f \in Dentries /\ dentry[f].inode \in Inodes /\ dentry[f].dir \in Inodes
             /\ dentry[f].inode = i => i \notin Free
             /\ Reached(dentry[f].dir)
  <2>1. f \in Dentries /\ f \in Alive
    BY DEF Hashed, Alive
  <2>2. Links(dentry[f].inode) > 0 /\ dentry[f].inode \in Inodes /\ dentry[f].dir \in Inodes
    BY <1>3, <2>1, DentryCounts, DentryType
  <2>3. Reached(dentry[f].dir)
    BY <2>1 DEF TreeInv, DentryInv
  <2> QED
    BY <1>8, <2>1, <2>2, <2>3
<1>10. ASSUME NEW f \in Hashed \ {e}
       PROVE  kind'[dentry[f].inode] = "dir" <=> kind[dentry[f].inode] = "dir"
  BY <1>9
<1>11. ASSUME NEW x \in Inodes
       PROVE  /\ Held(x)' = Held(x) + One(x = i) /\ Links(x)' = Links(x) + One(x = i)
              /\ Subs(x)' = Subs(x) + One(x = d /\ kind'[i] = "dir")
              /\ Held(x) \in Nat /\ Links(x) \in Nat /\ Subs(x) \in Nat
  <2>1. /\ Held(x)' = Held(x) + HeldBy(e, x)' - HeldBy(e, x)
        /\ Links(x)' = Links(x) + LinkBy(e, x)' - LinkBy(e, x)
        /\ Subs(x)' = Subs(x) + SubBy(e, x)' - SubBy(e, x)
    BY <1>1, <1>3, <1>4, <1>10, OneDentry
  <2>2. /\ HeldBy(e, x)' = One(x = i) /\ LinkBy(e, x)' = One(x = i)
        /\ SubBy(e, x)' = One(x = d /\ kind'[i] = "dir")
    BY <1>4, <1>6 DEF HeldBy, LinkBy, SubBy, Pinned, One
  <2>3. HeldBy(e, x) = 0 /\ LinkBy(e, x) = 0 /\ SubBy(e, x) = 0
    BY <1>1, <1>6 DEF HeldBy, LinkBy, SubBy, One
  <2>4. Held(x) \in Nat /\ Links(x) \in Nat /\ Subs(x) \in Nat
    BY CountsNat
  <2> QED
    BY <2>1, <2>2, <2>3, <2>4 DEF One
<1>12. ASSUME NEW x \in Inodes
       PROVE  Reached(x) => Reached(x)'
  BY <1>8, <1>11, <1>12 DEF Reached, Free, One
<1>13. ASSUME NEW x \in Inodes, x # i
       PROVE  Reached(x)' => Reached(x)
  BY <1>11, <1>13 DEF Reached, One
<1>14. ASSUME NEW x \in Inodes PROVE InodeInv(x)'
  <2>1. InodeInv(x)
    BY DEF TreeInv
  <2>2. CASE x # i
    <3>1. /\ icount'[x] = icount[x] /\ kind'[x] = kind[x] /\ Held(x)' = Held(x)
          /\ Links(x)' = Links(x)
      BY <1>11, <2>2 DEF One
    <3>2. CASE x = d
      BY <1>2, <1>3, <1>11, <1>12, <2>1, <2>2, <3>1, <3>2 DEF InodeInv, Reached, One
    <3>3. CASE x # d
      <4>1. nlink'[x] = nlink[x] /\ Subs(x)' = Subs(x)
        BY <1>3, <1>11, <2>2, <3>3 DEF One, TreeTyped
      <4> QED
        BY <1>2, <1>12, <1>13, <2>1, <2>2, <3>1, <4>1 DEF InodeInv
    <3> QED
      BY <3>2, <3>3
  <2>3. CASE x = i
    <3>1. icount[i] \in Nat /\ (i \in Free => icount[i] = 0)
      BY <1>11, <2>1, <2>3, FreeInode DEF InodeInv, One
    <3>2. Held(i)' = Held(i) + 1 /\ Links(i)' = Links(i) + 1
      BY <1>11 DEF One
    <3>3. icount'[i] = Held(i)' + One(i = Root /\ phase' = "mounted")
      BY <1>2, <1>11, <2>1, <2>3, <3>2 DEF InodeInv, One
    <3>4. CASE kind'[i] = "dir"
      <4>1. i \in Free /\ Subs(i)' = 0
        BY <1>8, <1>11, <3>4 DEF One
      <4>2. Reached(i)'
        BY <1>11, <3>2, <3>4 DEF Reached
      <4> QED
        BY <2>3, <3>1, <3>3, <3>4, <4>1, <4>2 DEF InodeInv
    <3>5. CASE kind'[i] # "dir"
      <4>1. nlink[i] = Links(i)
        BY <1>8, <2>1, <2>3, <3>5 DEF InodeInv
      <4> QED
        BY <2>3, <3>1, <3>2, <3>3, <3>5, <4>1 DEF InodeInv
    <3> QED
      BY <3>4, <3>5
  <2> QED
    BY <2>2, <2>3
<1>15. DentryInv(e)'
  BY <1>2, <1>3, <1>4, <1>6, <1>12 DEF DentryInv, Pinned, One
<1>16. MountInv'
  <2>1. kind'[Root] = "dir"
    BY <1>8, RootIn DEF TreeInv, MountInv
  <2> QED
    BY <1>2, <2>1 DEF TreeInv, MountInv
<1>17. \A f \in Hashed \ {e} : dentry[f].dir # d \/ dentry[f].name # n
  BY <1>3 DEF Entry
<1>18. NameOf(e)' = Named(d, n, i)
  BY <1>4 DEF NameOf, Pinned
<1>19. \A f \in Hashed \ {e} : Reached(dentry[f].dir)'
  <2> TAKE f \in Hashed \ {e}
  <2>1. dentry'[f].dir = dentry[f].dir /\ dentry[f].dir \in Inodes /\ Reached(dentry[f].dir)
    BY <1>4, <1>9 DEF SameDentry
  <2> QED
    BY <1>12, <2>1
<1> QED
  BY <1>1, <1>2, <1>4, <1>6, <1>7, <1>14, <1>15, <1>16, <1>17, <1>18, <1>19, TreeStep DEF Pinned

\* ramfs_mknod.
LEMMA MknodKeeps ==
  ASSUME TreeSound, TreeInv, NEW d \in Inodes, NEW n \in Names, NEW type \in Types,
         Mknod(d, n, type)
  PROVE  TreeInv'
<1>1. PICK i : i = Lowest(Free)
  OBVIOUS
<1>2. /\ i \in Free /\ i \in Inodes /\ icount[i] = 0 /\ nlink[i] = 0
  BY <1>1, NewInode, FreeInode DEF Mknod
<1>3. GetInode(i, type) /\ Instantiate(d, n, i) /\ type # {"DIR"}
  BY <1>1 DEF Mknod, TreeSound
<1>4. TreeTyped
  BY DEF TreeInv
<1>5. /\ kind' \in [Inodes -> {"free", "dir", "reg", "lnk", "special"}]
      /\ kind'[i] \in {"reg", "lnk", "special"}
      /\ nlink'[i] = 1 /\ icount'[i] = 1
      /\ \A x \in Inodes \ {i} : kind'[x] = kind[x] /\ icount'[x] = icount[x] /\ nlink'[x] = nlink[x]
      /\ nlink' \in [Inodes -> Int] /\ icount' \in [Inodes -> Int]
  BY <1>2, <1>3, <1>4 DEF GetInode, TreeTyped
<1>6. \A x \in Inodes \ {i} : nlink'[x] = nlink[x] + One(x = d /\ kind'[i] = "dir")
  BY <1>4, <1>5 DEF TreeTyped, One
<1>7. UNCHANGED <<mountVars, open>> /\ phase = "mounted" /\ Absent(d, n)
  BY DEF Mknod
<1>8. /\ i \in Free \/ (kind'[i] = kind[i] /\ kind[i] # "dir")
      /\ kind'[i] # "free" /\ icount'[i] = icount[i] + 1
      /\ nlink'[i] = IF kind'[i] = "dir" THEN 2 ELSE nlink[i] + 1
  BY <1>2, <1>5
<1> QED
  BY <1>2, <1>3, <1>5, <1>6, <1>7, <1>8, InstantiateKeeps

\* ramfs_mkdir.
LEMMA MkdirKeeps ==
  ASSUME TreeSound, TreeInv, NEW d \in Inodes, NEW n \in Names, Mkdir(d, n)
  PROVE  TreeInv'
<1>1. PICK i : i = Lowest(Free)
  OBVIOUS
<1>2. /\ i \in Free /\ i \in Inodes /\ icount[i] = 0 /\ nlink[i] = 0 /\ kind[i] = "free"
  BY <1>1, NewInode, FreeInode DEF Mkdir
<1>3. /\ kind' = [kind EXCEPT ![i] = "dir"] /\ nlink' = [nlink EXCEPT ![i] = 2, ![d] = @ + 1]
      /\ icount' = [icount EXCEPT ![i] = 1] /\ Instantiate(d, n, i)
  BY <1>1 DEF Mkdir
<1>4. TreeTyped /\ kind[d] = "dir"
  BY DEF TreeInv, Mkdir, Absent, LiveDir
<1>5. /\ kind' \in [Inodes -> {"free", "dir", "reg", "lnk", "special"}]
      /\ kind'[i] = "dir" /\ nlink'[i] = 2 /\ icount'[i] = 1
      /\ \A x \in Inodes \ {i} : kind'[x] = kind[x] /\ icount'[x] = icount[x]
      /\ nlink' \in [Inodes -> Int] /\ icount' \in [Inodes -> Int]
  BY <1>2, <1>3, <1>4 DEF TreeTyped
<1>6. \A x \in Inodes \ {i} : nlink'[x] = nlink[x] + One(x = d /\ kind'[i] = "dir")
  BY <1>2, <1>3, <1>4, <1>5 DEF TreeTyped, One
<1>7. UNCHANGED <<mountVars, open>> /\ phase = "mounted" /\ Absent(d, n)
  BY DEF Mkdir
<1>8. /\ i \in Free \/ (kind'[i] = kind[i] /\ kind[i] # "dir")
      /\ kind'[i] # "free" /\ icount'[i] = icount[i] + 1
      /\ nlink'[i] = IF kind'[i] = "dir" THEN 2 ELSE nlink[i] + 1
  BY <1>2, <1>5
<1> QED
  BY <1>2, <1>3, <1>5, <1>6, <1>7, <1>8, InstantiateKeeps

\* simple_link: a file that has a dentry gets another one.
LEMMA LinkKeeps ==
  ASSUME TreeSound, TreeInv, NEW e \in Dentries, NEW d \in Inodes, NEW n \in Names,
         Link(e, d, n)
  PROVE  TreeInv'
<1>1. PICK i : i = dentry[e].inode
  OBVIOUS
<1>2. TreeTyped /\ e \in Alive
  BY DEF TreeInv, TreeTyped, Link, Hashed
<1>3. i \in Inodes /\ Held(i) > 0
  BY <1>1, <1>2, DentryType, DentryCounts
<1>4. /\ nlink' = [nlink EXCEPT ![i] = @ + 1] /\ icount' = [icount EXCEPT ![i] = @ + 1]
      /\ Instantiate(d, n, i) /\ kind[i] # "dir" /\ kind' = kind
  BY <1>1 DEF Link
<1>5. kind[i] # "free"
  BY <1>3, CountsNat DEF TreeInv, InodeInv, One
<1>6. /\ nlink'[i] = nlink[i] + 1 /\ icount'[i] = icount[i] + 1
      /\ \A x \in Inodes \ {i} : icount'[x] = icount[x] /\ nlink'[x] = nlink[x]
      /\ nlink' \in [Inodes -> Int] /\ icount' \in [Inodes -> Int]
  BY <1>2, <1>3, <1>4 DEF TreeTyped
<1>7. \A x \in Inodes \ {i} : nlink'[x] = nlink[x] + One(x = d /\ kind'[i] = "dir")
  BY <1>2, <1>4, <1>6 DEF TreeTyped, One
<1>8. UNCHANGED <<mountVars, open>> /\ phase = "mounted" /\ Absent(d, n)
  BY DEF Link
<1>9. /\ i \in Free \/ (kind'[i] = kind[i] /\ kind[i] # "dir")
      /\ nlink'[i] = IF kind'[i] = "dir" THEN 2 ELSE nlink[i] + 1
      /\ kind' \in [Inodes -> {"free", "dir", "reg", "lnk", "special"}]
      /\ kind'[i] # "free" /\ \A x \in Inodes \ {i} : kind'[x] = kind[x]
  BY <1>2, <1>4, <1>5, <1>6 DEF TreeTyped
<1> QED
  BY <1>3, <1>4, <1>6, <1>7, <1>8, <1>9, InstantiateKeeps

\* The invariant is a matter of the variables.
LEMMA TreeStutters ==
  ASSUME TreeInv, UNCHANGED <<mountVars, kind, nlink, icount, dentry, open, tree>>
  PROVE  TreeInv'
<1>1. /\ phase' = phase /\ owner' = owner /\ mode' = mode /\ frees' = frees /\ perm' = perm
      /\ kind' = kind /\ nlink' = nlink /\ icount' = icount /\ dentry' = dentry
      /\ open' = open /\ tree' = tree
  BY DEF mountVars
<1>2. /\ TreeTyped' = TreeTyped /\ NamesInv' = NamesInv /\ MountInv' = MountInv
      /\ \A e \in Dentries : DentryInv(e)' = DentryInv(e)
      /\ \A i \in Inodes : InodeInv(i)' = InodeInv(i)
      /\ Hashed' = Hashed /\ \A e \in Hashed : NameOf(e)' = NameOf(e)
  BY <1>1, Zenon DEF TreeTyped, NamesInv, MountInv, DentryInv, InodeInv, Hashed, NameOf, Alive,
     Unborn, Reached, Held, Links, Subs, HeldOf, LinkOf, SubOf, Count
<1> QED
  BY <1>1, <1>2 DEF TreeInv

\* ramfs_symlink, and when there is no page for it.
LEMMA SymlinkKeeps ==
  ASSUME TreeSound, TreeInv, NEW d \in Inodes, NEW n \in Names, NEW ok \in BOOLEAN,
         Symlink(d, n, ok)
  PROVE  TreeInv'
<1>1. CASE ~ok
  BY <1>1, TreeStutters DEF Symlink, inodeVars
<1>2. CASE ok
  <2>1. PICK i : i = Lowest(Free)
    OBVIOUS
  <2>2. /\ i \in Free /\ i \in Inodes /\ icount[i] = 0 /\ nlink[i] = 0
    BY <2>1, NewInode, FreeInode DEF Symlink
  <2>3. GetInode(i, {"LNK"}) /\ Instantiate(d, n, i) /\ {"LNK"} # {"DIR"} /\ {"LNK"} # {"REG"}
    BY <1>2, <2>1 DEF Symlink
  <2>4. TreeTyped
    BY DEF TreeInv
  <2>5. /\ kind' \in [Inodes -> {"free", "dir", "reg", "lnk", "special"}]
        /\ kind'[i] = "lnk" /\ nlink'[i] = 1 /\ icount'[i] = 1
        /\ \A x \in Inodes \ {i} :
             kind'[x] = kind[x] /\ icount'[x] = icount[x] /\ nlink'[x] = nlink[x]
        /\ nlink' \in [Inodes -> Int] /\ icount' \in [Inodes -> Int]
    BY <2>2, <2>3, <2>4 DEF GetInode, TreeTyped
  <2>6. \A x \in Inodes \ {i} : nlink'[x] = nlink[x] + One(x = d /\ kind'[i] = "dir")
    BY <2>4, <2>5 DEF TreeTyped, One
  <2>7. UNCHANGED <<mountVars, open>> /\ phase = "mounted" /\ Absent(d, n)
    BY DEF Symlink
  <2>8. /\ i \in Free \/ (kind'[i] = kind[i] /\ kind[i] # "dir")
        /\ kind'[i] # "free" /\ icount'[i] = icount[i] + 1
        /\ nlink'[i] = IF kind'[i] = "dir" THEN 2 ELSE nlink[i] + 1
    BY <2>2, <2>5
  <2> QED
    BY <2>2, <2>3, <2>5, <2>6, <2>7, <2>8, InstantiateKeeps
<1> QED
  BY <1>1, <1>2

\* ramfs_tmpfile: a dentry without a name, kept by its open file.
LEMMA TmpfileKeeps ==
  ASSUME TreeSound, TreeInv, NEW d \in Inodes, Tmpfile(d)
  PROVE  TreeInv'
<1>1. PICK i : i = Lowest(Free)
  OBVIOUS
<1>2. PICK e : e = Lowest(Unborn)
  OBVIOUS
<1>3. /\ i \in Free /\ i \in Inodes /\ icount[i] = 0 /\ nlink[i] = 0 /\ kind[i] = "free"
      /\ Held(i) = 0 /\ Links(i) = 0 /\ i # Root
  BY <1>1, NewInode, FreeInode DEF Tmpfile
<1>4. e \in Dentries /\ e \notin Alive
  BY <1>2, NewDentry DEF Tmpfile
<1> DEFINE new == [Pinned(d, None, i) EXCEPT !.hashed = FALSE]
<1>5. /\ kind' = [kind EXCEPT ![i] = "reg"] /\ nlink' = [nlink EXCEPT ![i] = 0]
      /\ icount' = [icount EXCEPT ![i] = 1] /\ dentry' = [dentry EXCEPT ![e] = new]
      /\ open' = open \cup {e} /\ tree' = tree /\ phase = "mounted"
      /\ phase' = phase /\ owner' = owner /\ mode' = mode /\ frees' = frees /\ perm' = perm
  BY <1>1, <1>2 DEF Tmpfile, mountVars
<1>6. /\ TreeTyped /\ new \in Records /\ new # None
      /\ new.dir = d /\ new.inode = i /\ new.count = 1 /\ ~new.hashed
  <2>1. TreeTyped
    BY DEF TreeInv
  <2>2. new \in Records /\ new.dir = d /\ new.inode = i /\ new.count = 1 /\ ~new.hashed
    <3>1. PICK r : r = Pinned(d, None, i)
      OBVIOUS
    <3>2. r \in Records /\ r.dir = d /\ r.inode = i /\ r.count = 1
      BY <1>3, <3>1 DEF Records, Pinned
    <3>3. new = [r EXCEPT !.hashed = FALSE]
      BY <3>1
    <3> HIDE DEF new
    <3> QED
      BY <3>2, <3>3 DEF Records
  <2> QED
    BY <2>1, <2>2 DEF TreeSound
<1> HIDE DEF new
<1>7. /\ dentry'[e] = new /\ \A f \in Dentries \ {e} : SameDentry(f)
  BY <1>4, <1>5, <1>6 DEF TreeTyped, SameDentry
<1>8. e \in Alive' /\ e \notin Hashed' /\ e \notin Hashed /\ e \in open'
  BY <1>4, <1>5, <1>6, <1>7 DEF Alive, Unborn, Hashed
<1>9. TreeTyped'
  <2>1. dentry' \in [Dentries -> Records \cup {None}]
    BY <1>5, <1>6 DEF TreeTyped
  <2>2. open' \subseteq Alive'
    BY <1>5, <1>6, <1>7, <1>8 DEF TreeTyped, Alive, Unborn, SameDentry
  <2>3. /\ kind' \in [Inodes -> {"free", "dir", "reg", "lnk", "special"}]
        /\ nlink' \in [Inodes -> Int] /\ icount' \in [Inodes -> Int]
    BY <1>3, <1>5, <1>6 DEF TreeTyped
  <2> QED
    BY <1>5, <1>6, <2>1, <2>2, <2>3 DEF TreeTyped
<1>10. /\ \A x \in Inodes : kind'[x] = "dir" <=> kind[x] = "dir"
       /\ \A x \in Inodes \ {i} : kind'[x] = kind[x] /\ nlink'[x] = nlink[x] /\ icount'[x] = icount[x]
       /\ kind'[i] = "reg" /\ nlink'[i] = 0 /\ icount'[i] = 1
  BY <1>3, <1>5, <1>6 DEF TreeTyped
<1>11. ASSUME NEW f \in Hashed
       PROVE  f \in Dentries /\ dentry[f].inode \in Inodes /\ dentry[f].dir \in Inodes
              /\ Reached(dentry[f].dir)
  <2>1. f \in Dentries /\ f \in Alive
    BY DEF Hashed, Alive
  <2> QED
    BY <1>6, <2>1, DentryType DEF TreeInv, DentryInv
<1>12. \A f \in Hashed \ {e} : kind'[dentry[f].inode] = "dir" <=> kind[dentry[f].inode] = "dir"
  BY <1>10, <1>11
<1>13. ASSUME NEW x \in Inodes
       PROVE  Held(x)' = Held(x) + One(x = i) /\ Links(x)' = Links(x) /\ Subs(x)' = Subs(x)
  <2>1. /\ Held(x)' = Held(x) + HeldBy(e, x)' - HeldBy(e, x)
        /\ Links(x)' = Links(x) + LinkBy(e, x)' - LinkBy(e, x)
        /\ Subs(x)' = Subs(x) + SubBy(e, x)' - SubBy(e, x)
    BY <1>4, <1>6, <1>7, <1>12, OneDentry
  <2>2. /\ HeldBy(e, x)' = One(x = i) /\ LinkBy(e, x)' = 0 /\ SubBy(e, x)' = 0
    BY <1>6, <1>7, <1>8 DEF HeldBy, LinkBy, SubBy, One
  <2>3. HeldBy(e, x) = 0 /\ LinkBy(e, x) = 0 /\ SubBy(e, x) = 0
    BY <1>4, <1>8 DEF HeldBy, LinkBy, SubBy, One
  <2>4. Held(x) \in Nat /\ Links(x) \in Nat /\ Subs(x) \in Nat
    BY CountsNat
  <2> QED
    BY <2>1, <2>2, <2>3, <2>4 DEF One
<1>14. ASSUME NEW x \in Inodes PROVE Reached(x)' <=> Reached(x)
  BY <1>10, <1>13 DEF Reached
<1>15. ASSUME NEW x \in Inodes PROVE InodeInv(x)'
  <2>1. InodeInv(x) /\ Held(x) \in Nat
    BY CountsNat DEF TreeInv
  <2>2. CASE x # i
    BY <1>5, <1>10, <1>13, <1>14, <2>1, <2>2 DEF InodeInv, One
  <2>3. CASE x = i
    BY <1>3, <1>5, <1>10, <1>13, <2>3 DEF InodeInv, One
  <2> QED
    BY <2>2, <2>3
<1>16. DentryInv(e)'
  BY <1>6, <1>7, <1>8 DEF DentryInv, One
<1>17. MountInv'
  <2>1. kind'[Root] = "dir"
    BY <1>5, <1>10, RootIn DEF TreeInv, MountInv
  <2> QED
    BY <1>5, <2>1 DEF TreeInv, MountInv
<1>18. \A f \in Hashed \ {e} : Reached(dentry[f].dir)'
  <2> TAKE f \in Hashed \ {e}
  <2>1. dentry'[f].dir = dentry[f].dir /\ dentry[f].dir \in Inodes /\ Reached(dentry[f].dir)
    BY <1>7, <1>11 DEF SameDentry
  <2> QED
    BY <1>14, <2>1
<1> QED
  BY <1>4, <1>5, <1>7, <1>8, <1>9, <1>15, <1>16, <1>17, <1>18, TreeStep

-----------------------------------------------------------------------------
(***************************************************************************)
(* Open files and removed names.                                           *)
(***************************************************************************)
\* A file is opened by its name.
LEMMA OpenKeeps ==
  ASSUME TreeSound, TreeInv, NEW e \in Dentries, Open(e)
  PROVE  TreeInv'
<1>1. /\ e \in Hashed /\ e \notin open /\ open' = open \cup {e} /\ tree' = tree
      /\ dentry' = [dentry EXCEPT ![e].count = @ + 1]
      /\ kind' = kind /\ nlink' = nlink /\ icount' = icount
      /\ phase' = phase /\ owner' = owner /\ mode' = mode /\ frees' = frees /\ perm' = perm
  BY DEF Open, mountVars, inodeVars
<1>2. TreeTyped /\ e \in Alive /\ DentryInv(e)
  BY <1>1 DEF TreeInv, Hashed
<1>3. dentry[e] \in Records /\ dentry[e] # None /\ dentry[e].count = 1 /\ dentry[e].hashed
  BY <1>1, <1>2, DentryType DEF DentryInv, One
<1>4. /\ dentry'[e] = [dentry[e] EXCEPT !.count = 2] /\ dentry'[e] \in Records
      /\ \A f \in Dentries \ {e} : SameDentry(f)
  BY <1>1, <1>2, <1>3 DEF TreeTyped, SameDentry, Records
<1>5. /\ dentry'[e].dir = dentry[e].dir /\ dentry'[e].name = dentry[e].name
      /\ dentry'[e].inode = dentry[e].inode /\ dentry'[e].hashed /\ dentry'[e].count = 2
  BY <1>3, <1>4 DEF Records
<1>6. e \in Alive' /\ e \in Hashed' /\ e \in open'
  BY <1>1, <1>4, <1>5 DEF Alive, Unborn, Hashed, TreeSound
<1>7. TreeTyped'
  <2>1. dentry' \in [Dentries -> Records \cup {None}]
    BY <1>1, <1>2, <1>4 DEF TreeTyped
  <2>2. open' \subseteq Alive'
    BY <1>1, <1>2, <1>4, <1>6 DEF TreeTyped, Alive, Unborn, SameDentry
  <2> QED
    BY <1>1, <1>2, <2>1, <2>2 DEF TreeTyped
<1>8. ASSUME NEW x \in Inodes
      PROVE  Held(x)' = Held(x) /\ Links(x)' = Links(x) /\ Subs(x)' = Subs(x)
  <2>1. /\ Held(x)' = Held(x) + HeldBy(e, x)' - HeldBy(e, x)
        /\ Links(x)' = Links(x) + LinkBy(e, x)' - LinkBy(e, x)
        /\ Subs(x)' = Subs(x) + SubBy(e, x)' - SubBy(e, x)
    BY <1>1, <1>2, <1>4, OneDentry
  <2>2. HeldBy(e, x)' = HeldBy(e, x) /\ LinkBy(e, x)' = LinkBy(e, x) /\ SubBy(e, x)' = SubBy(e, x)
    BY <1>1, <1>2, <1>5, <1>6 DEF HeldBy, LinkBy, SubBy
  <2>3. /\ Held(x) \in Nat /\ Links(x) \in Nat /\ Subs(x) \in Nat
        /\ HeldBy(e, x) \in Int /\ LinkBy(e, x) \in Int /\ SubBy(e, x) \in Int
    BY CountsNat DEF HeldBy, LinkBy, SubBy, One
  <2> QED
    BY <2>1, <2>2, <2>3
<1>9. ASSUME NEW x \in Inodes PROVE (Reached(x)' <=> Reached(x)) /\ InodeInv(x)'
  <2>1. InodeInv(x) /\ (Reached(x)' <=> Reached(x))
    BY <1>1, <1>8 DEF TreeInv, Reached
  <2> QED
    BY <1>1, <1>8, <2>1 DEF InodeInv
<1>10. \A f \in Hashed : Reached(dentry[f].dir)'
  <2> TAKE f \in Hashed
  <2>1. f \in Dentries /\ f \in Alive
    BY DEF Hashed, Alive
  <2>2. dentry'[f].dir = dentry[f].dir /\ dentry[f].dir \in Inodes /\ Reached(dentry[f].dir)
    BY <1>2, <1>4, <1>5, <2>1, DentryType DEF TreeInv, DentryInv, SameDentry
  <2> QED
    BY <1>9, <2>2
<1>11. DentryInv(e)'
  BY <1>1, <1>2, <1>5, <1>6, <1>10 DEF DentryInv, One
<1>12. MountInv'
  BY <1>1, <1>6, <1>2 DEF TreeInv, MountInv
<1>13. \A f \in Hashed \ {e} : dentry[f].dir # dentry'[e].dir \/ dentry[f].name # dentry'[e].name
  BY <1>1, <1>5 DEF TreeInv, NamesInv
<1>14. NameOf(e)' = NameOf(e) /\ NameOf(e) \in tree
  BY <1>1, <1>5 DEF NameOf, TreeInv
<1>15. tree' = (IF e \in Hashed THEN tree \ {NameOf(e)} ELSE tree)
               \cup (IF e \in Hashed' THEN {NameOf(e)'} ELSE {})
  BY <1>1, <1>6, <1>14
<1> QED
  BY <1>4, <1>7, <1>9, <1>10, <1>11, <1>12, <1>13, <1>15, TreeStep

\* An inode that is counted once has one dentry.
LEMMA OnlyDentry ==
  ASSUME TreeSound, TreeTyped, NEW e \in Alive, NEW f \in Alive,
         dentry[f].inode = dentry[e].inode, Held(dentry[e].inode) = 1
  PROVE  f = e
<1>1. PICK i : i = dentry[e].inode
  OBVIOUS
<1>2. /\ IsFiniteSet(Dentries) /\ e \in Dentries /\ f \in Dentries
      /\ HeldOf[e] = i /\ HeldOf[f] = i
  BY <1>1 DEF TreeSound, Alive, HeldOf
<1>3. i # NoInode
  BY <1>1, <1>2, DentryType
<1> DEFINE g == [HeldOf EXCEPT ![e] = NoInode]
<1>4. g[e] = NoInode /\ \A s \in Dentries : s # e => g[s] = HeldOf[s]
  BY <1>2 DEF HeldOf
<1> HIDE DEF g
<1>5. Count(Dentries, g, i) = Count(Dentries, HeldOf, i) + One(g[e] = i) - One(HeldOf[e] = i)
  BY <1>2, <1>4, Recount
<1>6. Count(Dentries, g, i) = 0
  BY <1>1, <1>2, <1>3, <1>4, <1>5 DEF One, Held
<1>7. \A s \in Dentries : g[s] # i
  BY <1>2, <1>6, CountNat
<1> QED
  BY <1>2, <1>4, <1>7

\* A reference to e is dropped: that of an open file that is closed, or the
\* pin of a name that is removed.
Dropped(e, h) ==
  \/ e \in open /\ open' = open \ {e} /\ h = dentry[e].hashed
  \/ e \in Hashed /\ open' = open /\ h = FALSE

\* A record that loses a reference.
LEMMA OneLess ==
  ASSUME NEW r \in Records, r.count = 2, NEW h \in BOOLEAN, NEW q, q = Unref(r, h)
  PROVE  /\ q \in Records /\ q.dir = r.dir /\ q.name = r.name /\ q.inode = r.inode
         /\ q.count = 1 /\ q.hashed = h
<1>1. q = [dir |-> r.dir, name |-> r.name, inode |-> r.inode, count |-> r.count - 1, hashed |-> h]
  BY DEF Records, Unref
<1> QED
  BY <1>1 DEF Records

\* dput, before anything is counted.
LEMMA DputFacts ==
  ASSUME TreeSound, TreeInv, NEW e \in Dentries, NEW i, i = dentry[e].inode,
         NEW links \in [Inodes -> Int], NEW h, Dput(e, links, h), Dropped(e, h),
         UNCHANGED mountVars
  PROVE  /\ TreeTyped' /\ TreeTyped
         /\ e \in Alive /\ i \in Inodes /\ dentry[e] \in Records /\ phase = "mounted"
         /\ \A f \in Dentries \ {e} : SameDentry(f)
         /\ \A x \in Inodes \ {i} : kind'[x] = kind[x] /\ icount'[x] = icount[x] /\ nlink'[x] = links[x]
         /\ icount'[i] = icount[i] - One(e \notin Alive') /\ icount[i] >= 1 /\ icount[i] \in Nat
         /\ kind'[i] = IF icount'[i] = 0 THEN "free" ELSE kind[i]
         /\ nlink'[i] = IF icount'[i] = 0 THEN 0 ELSE links[i]
         /\ e \in Alive' => /\ dentry'[e].dir = dentry[e].dir /\ dentry'[e].name = dentry[e].name
                            /\ dentry'[e].inode = i /\ dentry'[e].count = 1
                            /\ kind'[i] = kind[i]
                            /\ (e \in Hashed' /\ e \notin open') \/ (e \notin Hashed' /\ e \in open')
         /\ e \in Hashed' => e \in Hashed
         /\ open' = open => e \notin Hashed' /\ e \in Hashed
         /\ open' # open => (e \in Hashed' <=> e \in Hashed)
<1>1. TreeTyped /\ DentryInv(e) /\ e \in Alive
  BY DEF TreeInv, TreeTyped, Dropped, Hashed
<1>2. /\ dentry[e] \in Records /\ dentry[e] # None /\ i \in Inodes
      /\ dentry[e].hashed \in BOOLEAN /\ (e \in Hashed <=> dentry[e].hashed)
  BY <1>1, DentryType
<1>3. dentry[e].count = One(e \in Hashed) + One(e \in open) /\ (e \in Hashed \/ e \in open)
  BY <1>1 DEF DentryInv
<1>4. phase = "mounted" /\ InodeInv(i) /\ Held(i) > 0 /\ Held(i) \in Nat
  BY <1>1, <1>2, DentryCounts, CountsNat DEF TreeInv, MountInv
<1>5. icount[i] \in Nat /\ icount[i] >= 1
  BY <1>4 DEF InodeInv, One
<1>6. /\ icount' = [icount EXCEPT ![i] = IF dentry[e].count = 1 THEN @ - 1 ELSE @]
      /\ kind' = [kind EXCEPT ![i] = IF dentry[e].count = 1 /\ icount[i] = 1 THEN "free" ELSE @]
      /\ nlink' = [links EXCEPT ![i] = IF dentry[e].count = 1 /\ icount[i] = 1 THEN 0 ELSE @]
  BY DEF Dput
<1>9. PICK q : q = Unref(dentry[e], h)
  OBVIOUS
<1>10. dentry' = [dentry EXCEPT ![e] = IF dentry[e].count = 1 THEN None ELSE q]
  <2>1. dentry' = [dentry EXCEPT ![e] = IF dentry[e].count = 1 THEN None ELSE Unref(dentry[e], h)]
    BY DEF Dput
  <2> QED
    BY <1>9, <2>1
<1>7. CASE dentry[e].count = 1
  <2>1. dentry'[e] = None /\ dentry' \in [Dentries -> Records \cup {None}]
    BY <1>1, <1>10, <1>7 DEF TreeTyped
  <2>2. e \notin Alive' /\ e \notin Hashed' /\ \A f \in Dentries \ {e} : SameDentry(f)
    BY <1>1, <1>10, <2>1 DEF Alive, Unborn, Hashed, TreeTyped, SameDentry, Dropped
  <2>3. e \notin open' /\ (open' = open => e \in Hashed) /\ (open' # open => e \notin Hashed)
    BY <1>2, <1>3, <1>7 DEF Dropped, One
  <2>4. open' \subseteq Alive'
    BY <1>1, <2>2, <2>3 DEF TreeTyped, Alive, Unborn, SameDentry, Dropped
  <2>5. /\ kind' \in [Inodes -> {"free", "dir", "reg", "lnk", "special"}]
        /\ nlink' \in [Inodes -> Int] /\ icount' \in [Inodes -> Int]
        /\ \A x \in Inodes \ {i} : kind'[x] = kind[x] /\ icount'[x] = icount[x] /\ nlink'[x] = links[x]
        /\ icount'[i] = icount[i] - 1
        /\ kind'[i] = IF icount'[i] = 0 THEN "free" ELSE kind[i]
        /\ nlink'[i] = IF icount'[i] = 0 THEN 0 ELSE links[i]
    BY <1>1, <1>2, <1>5, <1>6, <1>7 DEF TreeTyped
  <2>6. TreeTyped'
    BY <1>1, <2>1, <2>4, <2>5 DEF TreeTyped, mountVars
  <2> QED
    BY <1>1, <1>2, <1>4, <1>5, <2>2, <2>3, <2>5, <2>6 DEF One
<1>8. CASE dentry[e].count # 1
  <2>1. dentry[e].count = 2 /\ e \in Hashed /\ e \in open
    BY <1>3, <1>8 DEF One
  <2>2. PICK r : r = dentry[e]
    OBVIOUS
  <2>3. h \in BOOLEAN /\ r \in Records /\ r.count = 2
    BY <1>2, <2>1, <2>2 DEF Dropped
  <2>4. dentry'[e] = q
    BY <1>1, <1>10, <1>8 DEF TreeTyped
  <2>5. /\ dentry'[e] \in Records /\ dentry'[e].dir = r.dir /\ dentry'[e].name = r.name
        /\ dentry'[e].inode = r.inode /\ dentry'[e].count = 1 /\ dentry'[e].hashed = h
    <3>1. q = Unref(r, h)
      BY <1>9, <2>2
    <3>2. /\ q \in Records /\ q.dir = r.dir /\ q.name = r.name /\ q.inode = r.inode
          /\ q.count = 1 /\ q.hashed = h
      BY <2>3, <3>1, OneLess
    <3> QED
      BY <2>4, <3>2
  <2>6. dentry'[e] # None
    BY <2>5 DEF TreeSound
  <2>7. /\ dentry' \in [Dentries -> Records \cup {None}]
        /\ \A f \in Dentries \ {e} : SameDentry(f)
    BY <1>1, <1>10, <1>8, <2>4, <2>5 DEF TreeTyped, SameDentry, Dropped
  <2>8. e \in Alive' /\ (e \in Hashed' <=> h)
    BY <2>5, <2>6 DEF Alive, Unborn, Hashed
  <2>9. /\ (e \in Hashed' /\ e \notin open') \/ (e \notin Hashed' /\ e \in open')
        /\ open' = open => e \notin Hashed'
        /\ open' # open => e \in Hashed'
    BY <1>2, <2>1, <2>8 DEF Dropped
  <2>10. open' \subseteq Alive'
    BY <1>1, <2>7, <2>8 DEF TreeTyped, Alive, Unborn, SameDentry, Dropped
  <2>11. /\ kind' = kind /\ icount' = icount /\ nlink' = links
    BY <1>1, <1>6, <1>8 DEF TreeTyped
  <2>12. TreeTyped'
    BY <1>1, <2>7, <2>10, <2>11 DEF TreeTyped, mountVars
  <2> QED
    BY <1>1, <1>2, <1>4, <1>5, <2>1, <2>2, <2>5, <2>7, <2>8, <2>9, <2>11, <2>12 DEF One
<1> QED
  BY <1>7, <1>8

\* dput, and what is counted.
LEMMA DputCounts ==
  ASSUME TreeSound, TreeInv, NEW e \in Dentries, NEW i, i = dentry[e].inode,
         NEW links \in [Inodes -> Int], NEW h, Dput(e, links, h), Dropped(e, h),
         UNCHANGED mountVars
  PROVE  /\ \A x \in Inodes :
              /\ Held(x)' = Held(x) - One(e \notin Alive' /\ x = i)
              /\ Links(x)' = Links(x) - One(e \in Hashed /\ e \notin Hashed' /\ x = i)
              /\ Subs(x)' = Subs(x) - One(e \in Hashed /\ e \notin Hashed' /\ kind[i] = "dir"
                                          /\ x = dentry[e].dir)
              /\ Held(x) \in Nat /\ Links(x) \in Nat /\ Subs(x) \in Nat
         /\ i # Root /\ Links(i) <= Held(i) /\ Links(i)' <= Held(i)'
         /\ kind[i] = "dir" => Held(i) = 1 /\ icount[i] = 1
         /\ icount'[i] = Held(i)' + One(i = Root /\ phase' = "mounted")
         /\ kind'[i] = "free" <=> icount'[i] = 0
         /\ kind'[i] = "dir" => icount'[i] = 1
<1>1. /\ TreeTyped' /\ TreeTyped
      /\ e \in Alive /\ i \in Inodes /\ dentry[e] \in Records /\ phase = "mounted"
      /\ \A f \in Dentries \ {e} : SameDentry(f)
      /\ \A x \in Inodes \ {i} : kind'[x] = kind[x]
      /\ icount'[i] = icount[i] - One(e \notin Alive') /\ icount[i] >= 1 /\ icount[i] \in Nat
      /\ kind'[i] = IF icount'[i] = 0 THEN "free" ELSE kind[i]
      /\ e \in Alive' => dentry'[e].dir = dentry[e].dir /\ dentry'[e].inode = i /\ kind'[i] = kind[i]
      /\ e \in Hashed' => e \in Hashed
  BY DputFacts
<1>2. InodeInv(i) /\ Held(i) \in Nat /\ Held(i) > 0
  BY <1>1, CountsNat, DentryCounts DEF TreeInv
<1>3. kind[Root] = "dir" /\ InodeInv(Root) /\ phase' = "mounted"
  BY <1>1, RootIn DEF TreeInv, MountInv, mountVars
<1>4. i # Root
  BY <1>1, <1>2, <1>3 DEF InodeInv, One
<1>5. icount[i] = Held(i) /\ kind[i] # "free" /\ (kind[i] = "dir" => icount[i] = 1)
  BY <1>1, <1>2, <1>4 DEF InodeInv, One
<1>6. ASSUME NEW f \in Hashed \ {e}
      PROVE  kind'[dentry[f].inode] = "dir" <=> kind[dentry[f].inode] = "dir"
  <2>1. f \in Alive /\ dentry[f].inode \in Inodes
    BY <1>1, DentryType DEF Hashed, Alive
  <2>2. CASE dentry[f].inode # i
    BY <1>1, <2>1, <2>2
  <2>3. CASE dentry[f].inode = i
    <3>1. kind[i] # "dir"
      BY <1>1, <1>5, <2>1, <2>3, OnlyDentry
    <3> QED
      BY <1>1, <2>3, <3>1
  <2> QED
    BY <2>2, <2>3
<1>7. ASSUME NEW x \in Inodes
      PROVE  /\ Held(x)' = Held(x) - One(e \notin Alive' /\ x = i)
             /\ Links(x)' = Links(x) - One(e \in Hashed /\ e \notin Hashed' /\ x = i)
             /\ Subs(x)' = Subs(x) - One(e \in Hashed /\ e \notin Hashed' /\ kind[i] = "dir"
                                         /\ x = dentry[e].dir)
             /\ Held(x) \in Nat /\ Links(x) \in Nat /\ Subs(x) \in Nat
  <2>1. /\ Held(x)' = Held(x) + HeldBy(e, x)' - HeldBy(e, x)
        /\ Links(x)' = Links(x) + LinkBy(e, x)' - LinkBy(e, x)
        /\ Subs(x)' = Subs(x) + SubBy(e, x)' - SubBy(e, x)
    BY <1>1, <1>6, OneDentry
  <2>2. Held(x) \in Nat /\ Links(x) \in Nat /\ Subs(x) \in Nat
    BY CountsNat
  <2>3. HeldBy(e, x)' = One(e \in Alive' /\ x = i) /\ HeldBy(e, x) = One(x = i)
    BY <1>1 DEF HeldBy, One
  <2>4. e \in Hashed' => e \in Alive'
    BY DEF Hashed
  <2>5. LinkBy(e, x)' = One(e \in Hashed' /\ x = i) /\ LinkBy(e, x) = One(e \in Hashed /\ x = i)
    BY <1>1, <2>4 DEF LinkBy, One
  <2>6. /\ SubBy(e, x)' = One(e \in Hashed' /\ kind[i] = "dir" /\ x = dentry[e].dir)
        /\ SubBy(e, x) = One(e \in Hashed /\ kind[i] = "dir" /\ x = dentry[e].dir)
    BY <1>1, <2>4 DEF SubBy, One
  <2>7. Held(x)' = Held(x) - One(e \notin Alive' /\ x = i)
    BY <2>1, <2>2, <2>3 DEF One
  <2>8. Links(x)' = Links(x) - One(e \in Hashed /\ e \notin Hashed' /\ x = i)
    BY <1>1, <2>1, <2>2, <2>5 DEF One
  <2>9. Subs(x)' = Subs(x) - One(e \in Hashed /\ e \notin Hashed' /\ kind[i] = "dir"
                                 /\ x = dentry[e].dir)
    BY <1>1, <2>1, <2>2, <2>6 DEF One
  <2> QED
    BY <2>2, <2>7, <2>8, <2>9
<1>8. i # NoInode /\ Links(i) <= Held(i) /\ Links(i)' <= Held(i)'
  BY <1>1, CountsNat, DentryType
<1>9. icount'[i] = Held(i)'
  BY <1>1, <1>2, <1>5, <1>7 DEF One
<1>10. /\ icount'[i] = Held(i)' + One(i = Root /\ phase' = "mounted")
       /\ kind'[i] = "free" <=> icount'[i] = 0
       /\ kind'[i] = "dir" => icount'[i] = 1
  BY <1>1, <1>2, <1>4, <1>5, <1>7, <1>9 DEF One
<1> QED
  BY <1>4, <1>5, <1>7, <1>8, <1>10

\* dput, when the inodes and the directories are as they should be.
LEMMA DputKeeps ==
  ASSUME TreeSound, TreeInv, NEW e \in Dentries, NEW i, i = dentry[e].inode,
         NEW links \in [Inodes -> Int], NEW h, Dput(e, links, h), Dropped(e, h),
         UNCHANGED mountVars,
         tree' = IF open' = open THEN tree \ {NameOf(e)} ELSE tree,
         \A x \in Inodes : InodeInv(x)',
         \A f \in Hashed \ {e} : \A x \in Inodes : x = dentry[f].dir => Reached(x)',
         \A x \in Inodes : x = dentry[e].dir /\ e \in Hashed' => Reached(x)'
  PROVE  TreeInv'
<1>1. /\ TreeTyped' /\ TreeTyped
      /\ e \in Alive /\ i \in Inodes /\ dentry[e] \in Records /\ phase = "mounted"
      /\ \A f \in Dentries \ {e} : SameDentry(f)
      /\ \A x \in Inodes \ {i} : kind'[x] = kind[x]
      /\ e \in Alive' => /\ dentry'[e].dir = dentry[e].dir /\ dentry'[e].name = dentry[e].name
                         /\ dentry'[e].inode = i /\ dentry'[e].count = 1
                         /\ (e \in Hashed' /\ e \notin open') \/ (e \notin Hashed' /\ e \in open')
      /\ e \in Hashed' => e \in Hashed
      /\ open' = open => e \notin Hashed' /\ e \in Hashed
      /\ open' # open => (e \in Hashed' <=> e \in Hashed)
  BY DputFacts
<1>2. i # Root
  BY DputCounts
<1>3. e \in Hashed' => e \in Alive'
  BY DEF Hashed
<1>4. dentry[e].dir \in Inodes
  BY <1>1 DEF Records
<1>5. \A f \in Hashed \ {e} : Reached(dentry[f].dir)'
  <2> TAKE f \in Hashed \ {e}
  <2>1. f \in Dentries /\ f \in Alive
    BY DEF Hashed, Alive
  <2>2. dentry'[f].dir = dentry[f].dir /\ dentry[f].dir \in Inodes
    BY <1>1, <2>1, DentryType DEF SameDentry
  <2> QED
    BY <2>2
<1>6. DentryInv(e)'
  <2>1. e \in Hashed' => Reached(dentry[e].dir)' /\ dentry'[e].name \in Names
    BY <1>1, <1>3, <1>4 DEF TreeInv, DentryInv
  <2> QED
    BY <1>1, <2>1 DEF DentryInv, One
<1>7. MountInv'
  <2>1. kind'[Root] = "dir"
    BY <1>1, <1>2, RootIn DEF TreeInv, MountInv
  <2>2. /\ phase' = phase /\ owner' = owner /\ mode' = mode /\ frees' = frees /\ perm' = perm
    BY DEF mountVars
  <2> QED
    BY <1>1, <2>1, <2>2 DEF TreeInv, MountInv
<1>8. e \in Hashed' =>
        \A f \in Hashed \ {e} : dentry[f].dir # dentry'[e].dir \/ dentry[f].name # dentry'[e].name
  BY <1>1, <1>3 DEF TreeInv, NamesInv
<1>9. tree' = (IF e \in Hashed THEN tree \ {NameOf(e)} ELSE tree)
              \cup (IF e \in Hashed' THEN {NameOf(e)'} ELSE {})
  <2>1. CASE open' = open
    BY <1>1, <2>1
  <2>2. CASE open' # open
    <3>1. e \in Hashed => NameOf(e) \in tree /\ NameOf(e)' = NameOf(e)
      BY <1>1, <1>3, <2>2 DEF NameOf, TreeInv
    <3> QED
      BY <1>1, <2>2, <3>1
  <2> QED
    BY <2>1, <2>2
<1> QED
  BY <1>1, <1>5, <1>6, <1>7, <1>8, <1>9, TreeStep

\* The directory of a name that a lookup finds.
LEMMA DirReached ==
  ASSUME TreeSound, TreeInv, NEW f \in Hashed
  PROVE  /\ f \in Dentries /\ f \in Alive /\ dentry[f].dir \in Inodes
         /\ dentry[f].inode \in Inodes /\ Reached(dentry[f].dir)
<1>1. f \in Dentries /\ f \in Alive
  BY DEF Hashed, Alive
<1> QED
  BY <1>1, DentryType DEF TreeInv, DentryInv

\* A file is closed; without a name this was all that was left of it.
LEMMA CloseKeeps ==
  ASSUME TreeSound, TreeInv, NEW e \in Dentries, Close(e)
  PROVE  TreeInv'
<1>1. PICK i : i = dentry[e].inode
  OBVIOUS
<1>2. PICK h : h = dentry[e].hashed
  OBVIOUS
<1>3. PICK links : links = nlink
  OBVIOUS
<1>4. /\ Dput(e, links, h) /\ Dropped(e, h) /\ UNCHANGED mountVars
      /\ tree' = tree /\ open' # open
  BY <1>2, <1>3 DEF Close, Dropped
<1>5. links \in [Inodes -> Int]
  BY <1>3 DEF TreeInv, TreeTyped
<1>6. /\ TreeTyped /\ i \in Inodes /\ e \in Alive
      /\ \A x \in Inodes \ {i} : kind'[x] = kind[x] /\ icount'[x] = icount[x] /\ nlink'[x] = links[x]
      /\ icount'[i] = icount[i] - One(e \notin Alive') /\ icount[i] >= 1 /\ icount[i] \in Nat
      /\ kind'[i] = IF icount'[i] = 0 THEN "free" ELSE kind[i]
      /\ nlink'[i] = IF icount'[i] = 0 THEN 0 ELSE links[i]
      /\ phase' = phase
      /\ e \in Hashed' <=> e \in Hashed
  BY <1>1, <1>4, <1>5, DputFacts DEF mountVars
<1>7. /\ \A x \in Inodes :
           /\ Held(x)' = Held(x) - One(e \notin Alive' /\ x = i)
           /\ Links(x)' = Links(x) - One(e \in Hashed /\ e \notin Hashed' /\ x = i)
           /\ Subs(x)' = Subs(x) - One(e \in Hashed /\ e \notin Hashed' /\ kind[i] = "dir"
                                       /\ x = dentry[e].dir)
           /\ Held(x) \in Nat /\ Links(x) \in Nat /\ Subs(x) \in Nat
      /\ i # Root /\ Links(i) <= Held(i) /\ Links(i)' <= Held(i)'
      /\ icount'[i] = Held(i)' + One(i = Root /\ phase' = "mounted")
      /\ kind'[i] = "free" <=> icount'[i] = 0
      /\ kind'[i] = "dir" => icount'[i] = 1
  BY <1>1, <1>4, <1>5, DputCounts
<1>8. \A x \in Inodes : Links(x)' = Links(x) /\ Subs(x)' = Subs(x)
                        /\ (x # i => Held(x)' = Held(x))
  BY <1>6, <1>7 DEF One
<1>9. icount'[i] = 0 => Links(i)' = 0
  BY <1>6, <1>7 DEF One
<1>10. ASSUME NEW x \in Inodes PROVE Reached(x)' <=> Reached(x)
  <2>1. CASE x # i
    BY <1>6, <1>8, <2>1 DEF Reached
  <2>2. CASE x = i
    BY <1>6, <1>7, <1>8, <1>9, <2>2 DEF Reached
  <2> QED
    BY <2>1, <2>2
<1>11. ASSUME NEW x \in Inodes PROVE InodeInv(x)'
  <2>1. InodeInv(x)
    BY DEF TreeInv
  <2>2. CASE x # i
    BY <1>3, <1>6, <1>8, <1>10, <2>1, <2>2 DEF InodeInv
  <2>3. CASE x = i
    <3>1. nlink'[i] = IF kind'[i] # "dir" THEN Links(i)' ELSE IF Reached(i)' THEN 2 + Subs(i)' ELSE 0
      <4>1. CASE icount'[i] = 0
        BY <1>6, <1>9, <4>1
      <4>2. CASE icount'[i] # 0
        BY <1>3, <1>6, <1>8, <1>10, <2>1, <2>3, <4>2 DEF InodeInv
      <4> QED
        BY <4>1, <4>2
    <3> QED
      BY <1>7, <2>3, <3>1 DEF InodeInv
  <2> QED
    BY <2>2, <2>3
<1>12. \A f \in Hashed : \A x \in Inodes : x = dentry[f].dir => Reached(x)'
  BY <1>10, DirReached
<1> QED
  BY <1>1, <1>4, <1>5, <1>6, <1>11, <1>12, DputKeeps

\* simple_unlink.
LEMMA UnlinkKeeps ==
  ASSUME TreeSound, TreeInv, NEW e \in Dentries, Unlink(e)
  PROVE  TreeInv'
<1>1. PICK i : i = dentry[e].inode
  OBVIOUS
<1>2. PICK links : links = [nlink EXCEPT ![i] = @ - 1]
  OBVIOUS
<1>13. PICK h : h = FALSE
  OBVIOUS
<1>3. /\ Dput(e, links, h) /\ Dropped(e, h) /\ UNCHANGED mountVars
      /\ tree' = tree \ {NameOf(e)} /\ open' = open /\ kind[i] # "dir" /\ e \in Hashed
  BY <1>1, <1>2, <1>13 DEF Unlink, Dropped, Forget
<1>4. TreeTyped /\ links \in [Inodes -> Int] /\ Links(i) > 0
  <2>1. i \in Inodes /\ TreeTyped /\ e \in Alive
    BY <1>1, <1>3, DirReached DEF TreeInv
  <2> QED
    BY <1>1, <1>2, <1>3, <2>1, DentryCounts DEF TreeTyped
<1>5. /\ i \in Inodes
      /\ \A x \in Inodes \ {i} : kind'[x] = kind[x] /\ icount'[x] = icount[x] /\ nlink'[x] = links[x]
      /\ icount'[i] = icount[i] - One(e \notin Alive') /\ icount[i] >= 1 /\ icount[i] \in Nat
      /\ kind'[i] = IF icount'[i] = 0 THEN "free" ELSE kind[i]
      /\ nlink'[i] = IF icount'[i] = 0 THEN 0 ELSE links[i]
      /\ phase' = phase
      /\ e \notin Hashed'
  BY <1>1, <1>3, <1>4, DputFacts DEF mountVars
<1>6. /\ \A x \in Inodes :
           /\ Held(x)' = Held(x) - One(e \notin Alive' /\ x = i)
           /\ Links(x)' = Links(x) - One(e \in Hashed /\ e \notin Hashed' /\ x = i)
           /\ Subs(x)' = Subs(x) - One(e \in Hashed /\ e \notin Hashed' /\ kind[i] = "dir"
                                       /\ x = dentry[e].dir)
           /\ Held(x) \in Nat /\ Links(x) \in Nat /\ Subs(x) \in Nat
      /\ i # Root /\ Links(i) <= Held(i) /\ Links(i)' <= Held(i)'
      /\ icount'[i] = Held(i)' + One(i = Root /\ phase' = "mounted")
      /\ kind'[i] = "free" <=> icount'[i] = 0
      /\ kind'[i] = "dir" => icount'[i] = 1
  BY <1>1, <1>3, <1>4, DputCounts
<1>7. /\ links[i] = nlink[i] - 1 /\ \A x \in Inodes \ {i} : links[x] = nlink[x]
  BY <1>2, <1>4, <1>5 DEF TreeTyped
<1>8. /\ Links(i)' = Links(i) - 1
      /\ \A x \in Inodes : Subs(x)' = Subs(x)
                           /\ (x # i => Held(x)' = Held(x) /\ Links(x)' = Links(x))
  BY <1>3, <1>5, <1>6 DEF One
<1>9. icount'[i] = 0 => Links(i)' = 0
  BY <1>4, <1>5, <1>6, <1>8 DEF One
<1>10. ASSUME NEW x \in Inodes PROVE Reached(x)' <=> Reached(x)
  BY <1>3, <1>5, <1>8 DEF Reached
<1>11. ASSUME NEW x \in Inodes PROVE InodeInv(x)'
  <2>1. InodeInv(x)
    BY DEF TreeInv
  <2>2. CASE x # i
    BY <1>5, <1>7, <1>8, <1>10, <2>1, <2>2 DEF InodeInv
  <2>3. CASE x = i
    <3>1. nlink'[i] = Links(i)' /\ kind'[i] # "dir"
      BY <1>3, <1>5, <1>7, <1>8, <1>9, <2>1, <2>3 DEF InodeInv
    <3> QED
      BY <1>6, <2>3, <3>1 DEF InodeInv
  <2> QED
    BY <2>2, <2>3
<1>12. \A f \in Hashed : \A x \in Inodes : x = dentry[f].dir => Reached(x)'
  BY <1>10, DirReached
<1> QED
  BY <1>1, <1>3, <1>4, <1>5, <1>11, <1>12, DputKeeps

\* An empty directory counts no directories.
LEMMA EmptyCounts ==
  ASSUME TreeSound, TreeInv, NEW i \in Inodes, EmptyDir(i)
  PROVE  Subs(i) = 0 /\ \A f \in Hashed : dentry[f].dir # i
<1>1. IsFiniteSet(Dentries) /\ i # NoInode
  BY DEF TreeSound, NoInode
<1>2. \A f \in Hashed : dentry[f].dir # i
  BY DEF EmptyDir
<1>3. \A s \in Dentries : SubOf[s] # i
  BY <1>1, <1>2 DEF SubOf
<1>4. Count(Dentries, SubOf, i) = 0
  BY <1>1, <1>3, CountNat
<1> QED
  BY <1>2, <1>4 DEF Subs

\* simple_rmdir.
LEMMA RmdirKeeps ==
  ASSUME TreeSound, TreeInv, NEW e \in Dentries, Rmdir(e)
  PROVE  TreeInv'
<1>1. PICK i : i = dentry[e].inode
  OBVIOUS
<1>2. PICK d : d = dentry[e].dir
  OBVIOUS
<1>3. PICK links : links = [nlink EXCEPT ![i] = @ - 2, ![d] = @ - 1]
  OBVIOUS
<1>16. PICK h : h = FALSE
  OBVIOUS
<1>4. /\ Dput(e, links, h) /\ Dropped(e, h) /\ UNCHANGED mountVars
      /\ tree' = tree \ {NameOf(e)} /\ open' = open /\ e \in Hashed /\ EmptyDir(i) /\ kind[i] = "dir"
  BY <1>1, <1>2, <1>3, <1>16 DEF Rmdir, Dropped, Forget, EmptyDir
<1>5. TreeTyped /\ i \in Inodes /\ d \in Inodes /\ Reached(d)
  BY <1>1, <1>2, <1>4, DirReached DEF TreeInv
<1>6. Subs(i) = 0 /\ d # i /\ \A f \in Hashed : dentry[f].dir # i
  BY <1>2, <1>4, <1>5, EmptyCounts
<1>7. /\ links \in [Inodes -> Int] /\ links[i] = nlink[i] - 2 /\ links[d] = nlink[d] - 1
      /\ \A x \in Inodes \ {i, d} : links[x] = nlink[x]
  BY <1>3, <1>5, <1>6 DEF TreeTyped
<1>8. /\ \A x \in Inodes \ {i} : kind'[x] = kind[x] /\ icount'[x] = icount[x] /\ nlink'[x] = links[x]
      /\ icount'[i] = icount[i] - One(e \notin Alive') /\ icount[i] >= 1 /\ icount[i] \in Nat
      /\ kind'[i] = IF icount'[i] = 0 THEN "free" ELSE kind[i]
      /\ nlink'[i] = IF icount'[i] = 0 THEN 0 ELSE links[i]
      /\ phase' = phase
      /\ e \notin Hashed'
  BY <1>1, <1>4, <1>7, DputFacts DEF mountVars
<1>9. /\ \A x \in Inodes :
           /\ Held(x)' = Held(x) - One(e \notin Alive' /\ x = i)
           /\ Links(x)' = Links(x) - One(e \in Hashed /\ e \notin Hashed' /\ x = i)
           /\ Subs(x)' = Subs(x) - One(e \in Hashed /\ e \notin Hashed' /\ kind[i] = "dir"
                                       /\ x = dentry[e].dir)
           /\ Held(x) \in Nat /\ Links(x) \in Nat /\ Subs(x) \in Nat
      /\ i # Root /\ Links(i) <= Held(i) /\ Links(i)' <= Held(i)'
      /\ kind[i] = "dir" => Held(i) = 1 /\ icount[i] = 1
      /\ icount'[i] = Held(i)' + One(i = Root /\ phase' = "mounted")
      /\ kind'[i] = "free" <=> icount'[i] = 0
      /\ kind'[i] = "dir" => icount'[i] = 1
  BY <1>1, <1>4, <1>7, DputCounts
<1>10. /\ Links(i)' = Links(i) - 1 /\ Subs(d)' = Subs(d) - 1
       /\ \A x \in Inodes : (x # d => Subs(x)' = Subs(x))
                            /\ (x # i => Held(x)' = Held(x) /\ Links(x)' = Links(x))
  BY <1>2, <1>4, <1>5, <1>8, <1>9 DEF One
<1>11. Links(i) > 0
  BY <1>1, <1>4, <1>5, DentryCounts DEF Hashed
<1>12. Links(i)' = 0 /\ Links(i) = 1 /\ ~Reached(i)' /\ Reached(i)
  BY <1>4, <1>5, <1>9, <1>10, <1>11 DEF Reached
<1>13. ASSUME NEW x \in Inodes, x # i PROVE Reached(x)' <=> Reached(x)
  BY <1>8, <1>10, <1>13 DEF Reached
<1>14. ASSUME NEW x \in Inodes PROVE InodeInv(x)'
  <2>1. InodeInv(x)
    BY DEF TreeInv
  <2>2. CASE x \notin {i, d}
    BY <1>7, <1>8, <1>10, <1>13, <2>1, <2>2 DEF InodeInv
  <2>3. CASE x = i
    <3>1. nlink[i] = 2
      BY <1>4, <1>6, <1>12, <2>1, <2>3 DEF InodeInv
    <3>2. nlink'[i] = 0
      BY <1>7, <1>8, <3>1
    <3> QED
      BY <1>9, <1>12, <2>3, <3>2 DEF InodeInv
  <2>4. CASE x = d
    <3>1. nlink[d] = 2 + Subs(d) /\ kind[d] = "dir"
      BY <1>5, <2>1, <2>4 DEF InodeInv, Reached
    <3>2. nlink'[d] = 2 + Subs(d)' /\ Reached(d)' /\ kind'[d] = "dir"
      BY <1>5, <1>6, <1>7, <1>8, <1>9, <1>10, <1>13, <3>1
    <3> QED
      BY <1>5, <1>6, <1>8, <1>10, <2>1, <2>4, <3>1, <3>2 DEF InodeInv
  <2> QED
    BY <2>2, <2>3, <2>4
<1>15. \A f \in Hashed : \A x \in Inodes : x = dentry[f].dir => Reached(x)'
  BY <1>6, <1>13, DirReached
<1> QED
  BY <1>1, <1>4, <1>7, <1>8, <1>14, <1>15, DputKeeps

-----------------------------------------------------------------------------
(***************************************************************************)
(* Renaming.                                                               *)
(***************************************************************************)
\* A record under another name.
LEMMA MovedFacts ==
  ASSUME NEW r \in Records, NEW d \in Inodes, NEW n \in Names, NEW q, q = Moved(r, d, n)
  PROVE  /\ q \in Records /\ q.dir = d /\ q.name = n /\ q.inode = r.inode
         /\ q.count = r.count /\ q.hashed = r.hashed
<1>1. q = [dir |-> d, name |-> n, inode |-> r.inode, count |-> r.count, hashed |-> r.hashed]
  BY DEF Records, Moved
<1> QED
  BY <1>1 DEF Records

\* simple_rename to a name that does not exist.
LEMMA RenameNewKeeps ==
  ASSUME TreeSound, TreeInv, NEW e \in Dentries, NEW d \in Inodes, NEW n \in Names,
         RenameNew(e, d, n)
  PROVE  TreeInv'
<1>1. PICK i : i = dentry[e].inode
  OBVIOUS
<1>2. PICK o : o = dentry[e].dir
  OBVIOUS
<1>3. PICK q : q = Moved(dentry[e], d, n)
  OBVIOUS
<1>4. /\ e \in Hashed /\ LiveDir(d) /\ Entry(d, n) = {} /\ dentry' = [dentry EXCEPT ![e] = q]
      /\ nlink' = IF kind[i] = "dir" /\ o # d THEN [nlink EXCEPT ![o] = @ - 1, ![d] = @ + 1]
                  ELSE nlink
      /\ tree' = (tree \ {NameOf(e)}) \cup {Named(d, n, i)}
      /\ kind' = kind /\ icount' = icount /\ open' = open
      /\ phase' = phase /\ owner' = owner /\ mode' = mode /\ frees' = frees /\ perm' = perm
  BY <1>1, <1>2, <1>3 DEF RenameNew, mountVars
<1>5. /\ TreeTyped /\ e \in Alive /\ i \in Inodes /\ o \in Inodes /\ Reached(o) /\ Reached(d)
      /\ DentryInv(e)
  BY <1>1, <1>2, <1>4, DirReached, LiveReached DEF TreeInv
<1>6. dentry[e] \in Records /\ dentry[e] # None /\ dentry[e].hashed
  BY <1>4, <1>5, DentryType
<1>7. /\ q \in Records /\ q.dir = d /\ q.name = n /\ q.inode = i
      /\ q.count = dentry[e].count /\ q.hashed
  BY <1>1, <1>3, <1>6, MovedFacts
<1>8. /\ dentry'[e] = q /\ q # None /\ \A f \in Dentries \ {e} : SameDentry(f)
  BY <1>4, <1>5, <1>7 DEF TreeTyped, SameDentry, TreeSound
<1>9. e \in Alive' /\ e \in Hashed'
  BY <1>7, <1>8 DEF Alive, Unborn, Hashed
<1>10. TreeTyped'
  <2>1. dentry' \in [Dentries -> Records \cup {None}]
    BY <1>4, <1>5, <1>7 DEF TreeTyped
  <2>2. open' \subseteq Alive'
    BY <1>4, <1>5, <1>8, <1>9 DEF TreeTyped, Alive, Unborn, SameDentry
  <2>3. nlink \in [Inodes -> Int] /\ [nlink EXCEPT ![o] = @ - 1, ![d] = @ + 1] \in [Inodes -> Int]
    BY <1>5 DEF TreeTyped
  <2>4. nlink' \in [Inodes -> Int]
    <3>1. CASE kind[i] = "dir" /\ o # d
      BY <1>4, <2>3, <3>1, Zenon
    <3>2. CASE ~(kind[i] = "dir" /\ o # d)
      BY <1>4, <2>3, <3>2, Zenon
    <3> QED
      BY <3>1, <3>2
  <2> QED
    BY <1>4, <1>5, <2>1, <2>2, <2>4 DEF TreeTyped
<1>11. ASSUME NEW x \in Inodes
       PROVE  /\ Held(x)' = Held(x) /\ Links(x)' = Links(x)
              /\ Subs(x)' = Subs(x) + One(kind[i] = "dir" /\ x = d) - One(kind[i] = "dir" /\ x = o)
              /\ Held(x) \in Nat /\ Links(x) \in Nat /\ Subs(x) \in Nat
  <2>1. /\ Held(x)' = Held(x) + HeldBy(e, x)' - HeldBy(e, x)
        /\ Links(x)' = Links(x) + LinkBy(e, x)' - LinkBy(e, x)
        /\ Subs(x)' = Subs(x) + SubBy(e, x)' - SubBy(e, x)
    BY <1>4, <1>5, <1>8, OneDentry
  <2>2. /\ HeldBy(e, x)' = One(x = i) /\ HeldBy(e, x) = One(x = i)
        /\ LinkBy(e, x)' = One(x = i) /\ LinkBy(e, x) = One(x = i)
        /\ SubBy(e, x)' = One(kind[i] = "dir" /\ x = d)
        /\ SubBy(e, x) = One(kind[i] = "dir" /\ x = o)
    BY <1>1, <1>2, <1>4, <1>5, <1>7, <1>8, <1>9 DEF HeldBy, LinkBy, SubBy, One
  <2>3. Held(x) \in Nat /\ Links(x) \in Nat /\ Subs(x) \in Nat
    BY CountsNat
  <2> QED
    BY <2>1, <2>2, <2>3 DEF One
<1>12. ASSUME NEW x \in Inodes PROVE Reached(x)' <=> Reached(x)
  BY <1>4, <1>11 DEF Reached
<1>13. ASSUME NEW x \in Inodes
       PROVE  nlink'[x] = nlink[x] + One(kind[i] = "dir" /\ x = d) - One(kind[i] = "dir" /\ x = o)
  <2>1. nlink \in [Inodes -> Int]
    BY <1>5 DEF TreeTyped
  <2>2. CASE kind[i] = "dir" /\ o # d
    <3>1. nlink' = [nlink EXCEPT ![o] = @ - 1, ![d] = @ + 1]
      BY <1>4, <2>2
    <3> QED
      BY <1>5, <2>1, <2>2, <3>1 DEF One
  <2>3. CASE ~(kind[i] = "dir" /\ o # d)
    BY <1>4, <2>1, <2>3 DEF One
  <2> QED
    BY <2>2, <2>3
<1>14. ASSUME NEW x \in Inodes PROVE InodeInv(x)'
  <2>1. InodeInv(x)
    BY DEF TreeInv
  <2>2. CASE kind[x] = "dir" /\ Reached(x)
    <3>1. nlink[x] = 2 + Subs(x)
      BY <2>1, <2>2 DEF InodeInv
    <3>2. nlink'[x] = 2 + Subs(x)'
      BY <1>11, <1>13, <3>1 DEF One
    <3> QED
      BY <1>4, <1>11, <1>12, <2>1, <2>2, <3>2 DEF InodeInv
  <2>3. CASE ~(kind[x] = "dir" /\ Reached(x))
    <3>1. x # d /\ x # o
      BY <1>5, <2>3 DEF Reached
    <3>2. Subs(x)' = Subs(x) /\ nlink'[x] = nlink[x]
      BY <1>5, <1>11, <1>13, <3>1 DEF One, TreeTyped
    <3> QED
      BY <1>4, <1>11, <1>12, <2>1, <3>2 DEF InodeInv
  <2> QED
    BY <2>2, <2>3
<1>15. \A f \in Hashed \ {e} : Reached(dentry[f].dir)'
  <2> TAKE f \in Hashed \ {e}
  <2>1. dentry'[f].dir = dentry[f].dir /\ dentry[f].dir \in Inodes /\ Reached(dentry[f].dir)
    BY <1>8, DirReached DEF SameDentry
  <2> QED
    BY <1>12, <2>1
<1>16. DentryInv(e)'
  BY <1>4, <1>5, <1>7, <1>8, <1>9, <1>12 DEF DentryInv
<1>17. MountInv'
  BY <1>4, <1>5 DEF TreeInv, MountInv
<1>18. \A f \in Hashed \ {e} : dentry[f].dir # dentry'[e].dir \/ dentry[f].name # dentry'[e].name
  BY <1>4, <1>7, <1>8 DEF Entry
<1>19. NameOf(e)' = Named(d, n, i)
  BY <1>7, <1>8 DEF NameOf
<1>20. tree' = (IF e \in Hashed THEN tree \ {NameOf(e)} ELSE tree)
               \cup (IF e \in Hashed' THEN {NameOf(e)'} ELSE {})
  BY <1>4, <1>9, <1>19
<1> QED
  BY <1>8, <1>10, <1>14, <1>15, <1>16, <1>17, <1>18, <1>20, TreeStep

\* The counts when two dentries change.
LEMMA TwoDentries ==
  ASSUME TreeSound, TreeTyped, NEW e \in Dentries, NEW t \in Dentries, e # t,
         \A f \in Dentries \ {e, t} : SameDentry(f),
         \A f \in Hashed \ {e, t} :
           kind'[dentry[f].inode] = "dir" <=> kind[dentry[f].inode] = "dir",
         NEW x \in Inodes
  PROVE  /\ Held(x)' = Held(x) + HeldBy(e, x)' - HeldBy(e, x) + HeldBy(t, x)' - HeldBy(t, x)
         /\ Links(x)' = Links(x) + LinkBy(e, x)' - LinkBy(e, x) + LinkBy(t, x)' - LinkBy(t, x)
         /\ Subs(x)' = Subs(x) + SubBy(e, x)' - SubBy(e, x) + SubBy(t, x)' - SubBy(t, x)
<1>1. IsFiniteSet(Dentries)
  BY DEF TreeSound
<1>2. ASSUME NEW f \in Dentries, f \notin {e, t}
      PROVE  HeldOf'[f] = HeldOf[f] /\ LinkOf'[f] = LinkOf[f] /\ SubOf'[f] = SubOf[f]
  BY <1>2, SameCounts
<1>3. /\ HeldOf = [s \in Dentries |-> HeldOf[s]] /\ LinkOf = [s \in Dentries |-> LinkOf[s]]
      /\ SubOf = [s \in Dentries |-> SubOf[s]]
  BY DEF HeldOf, LinkOf, SubOf
<1>4. Count(Dentries, HeldOf', x) = Count(Dentries, HeldOf, x) + One(HeldOf'[e] = x)
        - One(HeldOf[e] = x) + One(HeldOf'[t] = x) - One(HeldOf[t] = x)
  BY <1>1, <1>2, <1>3, RecountTwo
<1>5. Count(Dentries, LinkOf', x) = Count(Dentries, LinkOf, x) + One(LinkOf'[e] = x)
        - One(LinkOf[e] = x) + One(LinkOf'[t] = x) - One(LinkOf[t] = x)
  BY <1>1, <1>2, <1>3, RecountTwo
<1>6. Count(Dentries, SubOf', x) = Count(Dentries, SubOf, x) + One(SubOf'[e] = x)
        - One(SubOf[e] = x) + One(SubOf'[t] = x) - One(SubOf[t] = x)
  BY <1>1, <1>2, <1>3, RecountTwo
<1>7. /\ Held(x)' = Count(Dentries, HeldOf', x) /\ Links(x)' = Count(Dentries, LinkOf', x)
      /\ Subs(x)' = Count(Dentries, SubOf', x)
  BY DEF Held, Links, Subs, Count
<1> QED
  BY <1>4, <1>5, <1>6, <1>7, ByOne DEF Held, Links, Subs

\* simple_rename over a name: what becomes of the two dentries.
LEMMA OverDentries ==
  ASSUME TreeSound, TreeInv, NEW e \in Dentries, NEW t \in Dentries, RenameOver(e, t)
  PROVE  /\ TreeTyped /\ e \in Hashed /\ t \in Hashed /\ e # t /\ phase = "mounted"
         /\ \A f \in Dentries \ {e, t} : SameDentry(f)
         /\ dentry' \in [Dentries -> Records \cup {None}] /\ open' = open /\ open' \subseteq Alive'
         /\ e \in Alive' /\ e \in Hashed' /\ t \notin Hashed'
         /\ dentry'[e].dir = dentry[t].dir /\ dentry'[e].name = dentry[t].name
         /\ dentry'[e].inode = dentry[e].inode /\ dentry'[e].count = dentry[e].count
         /\ t \in Alive' <=> t \in open
         /\ t \in Alive' <=> dentry[t].count # 1
         /\ t \in Alive' => dentry'[t].inode = dentry[t].inode /\ dentry'[t].count = 1
<1>1. PICK q : q = Moved(dentry[e], dentry[t].dir, dentry[t].name)
  OBVIOUS
<1>2. PICK r : r = Unref(dentry[t], FALSE)
  OBVIOUS
<1>3. /\ e \in Hashed /\ t \in Hashed /\ dentry[e].inode # dentry[t].inode /\ open' = open
      /\ phase = "mounted"
      /\ dentry' = [dentry EXCEPT ![e] = q, ![t] = IF dentry[t].count = 1 THEN None ELSE r]
  BY <1>1, <1>2 DEF RenameOver
<1>4. TreeTyped /\ e # t /\ e \in Alive /\ t \in Alive /\ DentryInv(t) /\ dentry[t].name \in Names
  BY <1>3, DirReached DEF TreeInv, DentryInv
<1>5. /\ dentry[e] \in Records /\ dentry[t] \in Records /\ dentry[e].hashed
      /\ dentry[t].count \in 1 .. 2 /\ dentry[t].dir \in Inodes
  BY <1>3, <1>4, DentryType
<1>6. dentry[t].count = 1 <=> t \notin open
  BY <1>3, <1>4 DEF DentryInv, One
<1>7. /\ q \in Records /\ q.dir = dentry[t].dir /\ q.name = dentry[t].name
      /\ q.inode = dentry[e].inode /\ q.count = dentry[e].count /\ q.hashed
  BY <1>1, <1>4, <1>5, MovedFacts
<1>8. dentry[t].count # 1 => /\ r \in Records /\ r.inode = dentry[t].inode /\ r.count = 1
                             /\ ~r.hashed
  <2>1. PICK h : h = FALSE
    OBVIOUS
  <2>2. h \in BOOLEAN /\ r = Unref(dentry[t], h)
    BY <1>2, <2>1
  <2> QED
    BY <1>5, <2>1, <2>2, OneLess
<1>9. /\ dentry'[e] = q
      /\ dentry[t].count = 1 => dentry'[t] = None
      /\ dentry[t].count # 1 => dentry'[t] = r
      /\ \A f \in Dentries \ {e, t} : SameDentry(f)
  BY <1>3, <1>4 DEF TreeTyped, SameDentry
<1>10. dentry' \in [Dentries -> Records \cup {None}]
  BY <1>3, <1>4, <1>7, <1>8 DEF TreeTyped
<1>11. q # None /\ (dentry[t].count # 1 => r # None)
  BY <1>7, <1>8 DEF TreeSound
<1>12. e \in Alive' /\ e \in Hashed' /\ t \notin Hashed' /\ (t \in Alive' <=> dentry[t].count # 1)
  BY <1>7, <1>8, <1>9, <1>11 DEF Alive, Unborn, Hashed
<1>13. open' \subseteq Alive'
  BY <1>3, <1>4, <1>6, <1>9, <1>12 DEF TreeTyped, Alive, Unborn, SameDentry
<1> QED
  BY <1>3, <1>4, <1>6, <1>7, <1>8, <1>9, <1>10, <1>12, <1>13

\* simple_rename over a name: what becomes of the inodes.
LEMMA OverInodes ==
  ASSUME TreeSound, TreeInv, NEW e \in Dentries, NEW t \in Dentries, RenameOver(e, t),
         NEW i, i = dentry[e].inode, NEW j, j = dentry[t].inode,
         NEW o, o = dentry[e].dir
  PROVE  /\ i \in Inodes /\ j \in Inodes /\ o \in Inodes /\ i # j
         /\ kind[i] = "dir" <=> kind[j] = "dir"
         /\ kind[j] = "dir" => EmptyDir(j) /\ o # j
         /\ \A x \in Inodes \ {j} : kind'[x] = kind[x] /\ icount'[x] = icount[x]
         /\ \A x \in Inodes \ {j} : nlink'[x] = nlink[x] - One(kind[i] = "dir" /\ x = o)
         /\ icount'[j] = icount[j] - One(t \notin Alive') /\ icount[j] >= 1 /\ icount[j] \in Nat
         /\ kind'[j] = IF icount'[j] = 0 THEN "free" ELSE kind[j]
         /\ nlink'[j] = IF icount'[j] = 0 THEN 0
                        ELSE IF kind[j] = "dir" THEN nlink[j] - 2 ELSE nlink[j] - 1
         /\ TreeTyped'
<1>1. /\ TreeTyped /\ e \in Hashed /\ t \in Hashed /\ phase = "mounted"
      /\ dentry' \in [Dentries -> Records \cup {None}] /\ open' \subseteq Alive'
      /\ t \in Alive' <=> dentry[t].count # 1
  BY OverDentries
<1>2. i \in Inodes /\ j \in Inodes /\ o \in Inodes /\ Reached(o) /\ t \in Alive
  BY <1>1, DirReached
<1> DEFINE last == dentry[t].count = 1
           dead == last /\ icount[j] = 1
           links == IF kind[i] = "dir" THEN [[nlink EXCEPT ![j] = @ - 2] EXCEPT ![o] = @ - 1]
                    ELSE [nlink EXCEPT ![j] = @ - 1]
<1>3. /\ i # j /\ (kind[i] = "dir" <=> kind[j] = "dir") /\ (kind[i] = "dir" => EmptyDir(j))
      /\ icount' = [icount EXCEPT ![j] = IF last THEN @ - 1 ELSE @]
      /\ kind' = [kind EXCEPT ![j] = IF dead THEN "free" ELSE @]
      /\ nlink' = [links EXCEPT ![j] = IF dead THEN 0 ELSE @]
  BY DEF RenameOver
<1>4. kind[j] = "dir" => EmptyDir(j) /\ o # j
  BY <1>1, <1>3 DEF EmptyDir
<1>5. InodeInv(j) /\ Held(j) > 0 /\ Held(j) \in Nat
  BY <1>1, <1>2, DentryCounts, CountsNat DEF TreeInv
<1>6. icount[j] \in Nat /\ icount[j] >= 1
  BY <1>5 DEF InodeInv, One
<1>7. /\ links \in [Inodes -> Int]
      /\ links[j] = IF kind[j] = "dir" THEN nlink[j] - 2 ELSE nlink[j] - 1
      /\ \A x \in Inodes \ {j} : links[x] = nlink[x] - One(kind[i] = "dir" /\ x = o)
  <2>1. nlink \in [Inodes -> Int]
    BY <1>1 DEF TreeTyped
  <2>2. CASE kind[i] = "dir"
    <3>1. links = [[nlink EXCEPT ![j] = @ - 2] EXCEPT ![o] = @ - 1] /\ o # j /\ kind[j] = "dir"
      BY <1>3, <1>4, <2>2
    <3> HIDE DEF links
    <3> QED
      BY <1>2, <2>1, <2>2, <3>1 DEF One
  <2>3. CASE kind[i] # "dir"
    <3>1. links = [nlink EXCEPT ![j] = @ - 1] /\ kind[j] # "dir"
      BY <1>3, <2>3
    <3> HIDE DEF links
    <3> QED
      BY <1>2, <2>1, <2>3, <3>1 DEF One
  <2> QED
    BY <2>2, <2>3
<1> HIDE DEF links
<1>8. /\ icount'[j] = icount[j] - One(t \notin Alive')
      /\ icount' \in [Inodes -> Int] /\ \A x \in Inodes \ {j} : icount'[x] = icount[x]
  BY <1>1, <1>2, <1>3 DEF One, TreeTyped
<1>9. dead <=> icount'[j] = 0
  BY <1>1, <1>6, <1>8 DEF One
<1> HIDE DEF dead
<1>10. /\ kind' \in [Inodes -> {"free", "dir", "reg", "lnk", "special"}]
       /\ kind'[j] = IF icount'[j] = 0 THEN "free" ELSE kind[j]
       /\ \A x \in Inodes \ {j} : kind'[x] = kind[x]
  BY <1>1, <1>2, <1>3, <1>9 DEF TreeTyped
<1>11. /\ nlink' \in [Inodes -> Int]
       /\ nlink'[j] = IF icount'[j] = 0 THEN 0 ELSE links[j]
       /\ \A x \in Inodes \ {j} : nlink'[x] = links[x]
  BY <1>2, <1>3, <1>7, <1>9
<1>12. TreeTyped'
  BY <1>1, <1>8, <1>10, <1>11 DEF TreeTyped, RenameOver, mountVars
<1> QED
  BY <1>2, <1>3, <1>4, <1>6, <1>7, <1>8, <1>10, <1>11, <1>12

\* simple_rename over a name: what is counted.
LEMMA OverCounts ==
  ASSUME TreeSound, TreeInv, NEW e \in Dentries, NEW t \in Dentries, RenameOver(e, t),
         NEW i, i = dentry[e].inode, NEW j, j = dentry[t].inode,
         NEW o, o = dentry[e].dir
  PROVE  /\ \A x \in Inodes :
              /\ Held(x)' = Held(x) - One(t \notin Alive' /\ x = j)
              /\ Links(x)' = Links(x) - One(x = j)
              /\ Subs(x)' = Subs(x) - One(kind[i] = "dir" /\ x = o)
              /\ Held(x) \in Nat /\ Links(x) \in Nat /\ Subs(x) \in Nat
         /\ j # Root /\ Links(j) <= Held(j) /\ Links(j)' <= Held(j)' /\ Links(j) > 0
         /\ kind[j] = "dir" => Held(j) = 1 /\ icount[j] = 1
         /\ icount[j] = Held(j) /\ kind[j] # "free"
<1>1. /\ TreeTyped /\ e \in Hashed /\ t \in Hashed /\ e # t /\ phase = "mounted"
      /\ \A f \in Dentries \ {e, t} : SameDentry(f)
      /\ e \in Alive' /\ e \in Hashed' /\ t \notin Hashed'
      /\ dentry'[e].dir = dentry[t].dir /\ dentry'[e].inode = i
      /\ t \in Alive' => dentry'[t].inode = j
  BY OverDentries
<1>2. /\ i \in Inodes /\ j \in Inodes /\ o \in Inodes /\ i # j
      /\ kind[i] = "dir" <=> kind[j] = "dir"
      /\ \A x \in Inodes \ {j} : kind'[x] = kind[x]
      /\ kind'[j] = IF icount'[j] = 0 THEN "free" ELSE kind[j]
      /\ icount[j] >= 1 /\ icount[j] \in Nat
  BY OverInodes
<1>3. e \in Alive /\ t \in Alive
  BY <1>1 DEF Hashed
<1>4. /\ InodeInv(j) /\ Held(j) \in Nat /\ Held(j) > 0 /\ Links(j) > 0
      /\ Links(j) <= Held(j) /\ Links(j)' <= Held(j)'
  BY <1>1, <1>2, <1>3, CountsNat, DentryCounts, DentryType DEF TreeInv
<1>5. j # Root
  <2>1. kind[Root] = "dir"
    BY <1>1 DEF TreeInv, MountInv
  <2> QED
    BY <1>1, <1>2, <1>4, <2>1 DEF InodeInv, One
<1>6. icount[j] = Held(j) /\ kind[j] # "free" /\ (kind[j] = "dir" => icount[j] = 1)
  BY <1>2, <1>4, <1>5 DEF InodeInv, One
<1>7. ASSUME NEW f \in Hashed \ {e, t}
      PROVE  kind'[dentry[f].inode] = "dir" <=> kind[dentry[f].inode] = "dir"
  <2>1. f \in Alive /\ dentry[f].inode \in Inodes
    BY DirReached
  <2>2. CASE dentry[f].inode # j
    BY <1>2, <2>1, <2>2
  <2>3. CASE dentry[f].inode = j
    <3>1. kind[j] # "dir"
      BY <1>1, <1>3, <1>6, <2>1, <2>3, OnlyDentry
    <3> QED
      BY <1>2, <2>3, <3>1
  <2> QED
    BY <2>2, <2>3
<1>8. ASSUME NEW x \in Inodes
      PROVE  /\ Held(x)' = Held(x) - One(t \notin Alive' /\ x = j)
             /\ Links(x)' = Links(x) - One(x = j)
             /\ Subs(x)' = Subs(x) - One(kind[i] = "dir" /\ x = o)
             /\ Held(x) \in Nat /\ Links(x) \in Nat /\ Subs(x) \in Nat
  <2>1. /\ Held(x)' = Held(x) + HeldBy(e, x)' - HeldBy(e, x) + HeldBy(t, x)' - HeldBy(t, x)
        /\ Links(x)' = Links(x) + LinkBy(e, x)' - LinkBy(e, x) + LinkBy(t, x)' - LinkBy(t, x)
        /\ Subs(x)' = Subs(x) + SubBy(e, x)' - SubBy(e, x) + SubBy(t, x)' - SubBy(t, x)
    BY <1>1, <1>7, TwoDentries
  <2>2. Held(x) \in Nat /\ Links(x) \in Nat /\ Subs(x) \in Nat
    BY CountsNat
  <2>3. /\ HeldBy(e, x)' = One(x = i) /\ HeldBy(e, x) = One(x = i)
        /\ LinkBy(e, x)' = One(x = i) /\ LinkBy(e, x) = One(x = i)
        /\ HeldBy(t, x)' = One(t \in Alive' /\ x = j) /\ HeldBy(t, x) = One(x = j)
        /\ LinkBy(t, x)' = 0 /\ LinkBy(t, x) = One(x = j)
    BY <1>1, <1>3 DEF HeldBy, LinkBy, One
  <2>4. /\ SubBy(e, x)' = One(kind[i] = "dir" /\ x = dentry[t].dir)
        /\ SubBy(t, x) = One(kind[i] = "dir" /\ x = dentry[t].dir)
        /\ SubBy(e, x) = One(kind[i] = "dir" /\ x = o) /\ SubBy(t, x)' = 0
    BY <1>1, <1>2 DEF SubBy, One
  <2>5. Held(x)' = Held(x) - One(t \notin Alive' /\ x = j)
    BY <2>1, <2>2, <2>3 DEF One
  <2>6. Links(x)' = Links(x) - One(x = j)
    BY <2>1, <2>2, <2>3 DEF One
  <2>7. Subs(x)' = Subs(x) - One(kind[i] = "dir" /\ x = o)
    BY <2>1, <2>2, <2>4 DEF One
  <2> QED
    BY <2>2, <2>5, <2>6, <2>7
<1> QED
  BY <1>4, <1>5, <1>6, <1>8

\* simple_rename over a name.
LEMMA RenameOverKeeps ==
  ASSUME TreeSound, TreeInv, NEW e \in Dentries, NEW t \in Dentries, RenameOver(e, t)
  PROVE  TreeInv'
<1>1. PICK i : i = dentry[e].inode
  OBVIOUS
<1>2. PICK j : j = dentry[t].inode
  OBVIOUS
<1>3. PICK o : o = dentry[e].dir
  OBVIOUS
<1>4. /\ TreeTyped /\ e \in Hashed /\ t \in Hashed /\ e # t /\ phase = "mounted"
      /\ \A f \in Dentries \ {e, t} : SameDentry(f)
      /\ open' = open /\ e \in Alive' /\ e \in Hashed' /\ t \notin Hashed'
      /\ dentry'[e].dir = dentry[t].dir /\ dentry'[e].name = dentry[t].name
      /\ dentry'[e].inode = i /\ dentry'[e].count = dentry[e].count
      /\ t \in Alive' <=> t \in open
      /\ t \in Alive' => dentry'[t].inode = j /\ dentry'[t].count = 1
  BY <1>1, <1>2, OverDentries
<1>5. /\ i \in Inodes /\ j \in Inodes /\ o \in Inodes /\ i # j
      /\ kind[i] = "dir" <=> kind[j] = "dir"
      /\ kind[j] = "dir" => EmptyDir(j) /\ o # j
      /\ \A x \in Inodes \ {j} : kind'[x] = kind[x] /\ icount'[x] = icount[x]
      /\ \A x \in Inodes \ {j} : nlink'[x] = nlink[x] - One(kind[i] = "dir" /\ x = o)
      /\ icount'[j] = icount[j] - One(t \notin Alive') /\ icount[j] >= 1 /\ icount[j] \in Nat
      /\ kind'[j] = IF icount'[j] = 0 THEN "free" ELSE kind[j]
      /\ nlink'[j] = IF icount'[j] = 0 THEN 0
                     ELSE IF kind[j] = "dir" THEN nlink[j] - 2 ELSE nlink[j] - 1
      /\ TreeTyped'
  BY <1>1, <1>2, <1>3, OverInodes
<1>6. /\ \A x \in Inodes :
           /\ Held(x)' = Held(x) - One(t \notin Alive' /\ x = j)
           /\ Links(x)' = Links(x) - One(x = j)
           /\ Subs(x)' = Subs(x) - One(kind[i] = "dir" /\ x = o)
           /\ Held(x) \in Nat /\ Links(x) \in Nat /\ Subs(x) \in Nat
      /\ j # Root /\ Links(j) <= Held(j) /\ Links(j)' <= Held(j)' /\ Links(j) > 0
      /\ kind[j] = "dir" => Held(j) = 1 /\ icount[j] = 1
      /\ icount[j] = Held(j) /\ kind[j] # "free"
  BY <1>1, <1>2, <1>3, OverCounts
<1>7. /\ phase' = phase /\ owner' = owner /\ mode' = mode /\ frees' = frees /\ perm' = perm
      /\ tree' = (tree \ {NameOf(e), NameOf(t)}) \cup {Named(dentry[t].dir, dentry[t].name, i)}
  BY <1>1 DEF RenameOver, mountVars
<1>8. kind[j] = "dir" => Subs(j) = 0
  BY <1>5, EmptyCounts
<1>9. ASSUME NEW f \in Hashed PROVE dentry[f].dir # j /\ dentry[f].dir \in Inodes
  <2>1. Reached(dentry[f].dir) /\ dentry[f].dir \in Inodes
    BY DirReached
  <2>2. kind[j] = "dir" => dentry[f].dir # j
    BY <1>5 DEF EmptyDir
  <2> QED
    BY <2>1, <2>2 DEF Reached
<1>10. Links(j)' = Links(j) - 1 /\ \A x \in Inodes \ {j} : Held(x)' = Held(x) /\ Links(x)' = Links(x)
  BY <1>5, <1>6 DEF One
<1>11. ASSUME NEW x \in Inodes, x # j PROVE Reached(x)' <=> Reached(x)
  BY <1>5, <1>10, <1>11 DEF Reached
<1>12. ASSUME NEW x \in Inodes PROVE InodeInv(x)'
  <2>1. InodeInv(x)
    BY DEF TreeInv
  <2>2. CASE x # j
    <3>1. kind'[x] = kind[x] /\ icount'[x] = icount[x] /\ Held(x)' = Held(x) /\ Links(x)' = Links(x)
      BY <1>5, <1>10, <2>2
    <3>2. CASE kind[i] = "dir" /\ x = o
      <4>1. Reached(o)
        BY <1>3, <1>4, DirReached
      <4>2. nlink[x] = 2 + Subs(x) /\ kind[x] = "dir" /\ Reached(x)
        BY <2>1, <3>2, <4>1 DEF InodeInv, Reached
      <4>3. nlink'[x] = nlink[x] - 1 /\ Subs(x)' = Subs(x) - 1
        BY <1>5, <1>6, <2>2, <3>2 DEF One
      <4>4. nlink'[x] = 2 + Subs(x)' /\ Reached(x)'
        BY <1>6, <1>11, <2>2, <4>2, <4>3
      <4> QED
        BY <1>7, <2>1, <3>1, <4>2, <4>4 DEF InodeInv
    <3>3. CASE ~(kind[i] = "dir" /\ x = o)
      <4>1. nlink'[x] = nlink[x] /\ Subs(x)' = Subs(x)
        BY <1>4, <1>5, <1>6, <2>2, <3>3 DEF One, TreeTyped
      <4> QED
        BY <1>7, <1>11, <2>1, <2>2, <3>1, <4>1 DEF InodeInv
    <3> QED
      BY <3>2, <3>3
  <2>3. CASE x = j
    <3>1. Held(j)' = Held(j) - One(t \notin Alive')
      BY <1>5, <1>6 DEF One
    <3>2. icount'[j] = Held(j)' /\ (kind'[j] = "free" <=> icount'[j] = 0)
      BY <1>5, <1>6, <3>1 DEF One
    <3>3. kind'[j] = "dir" => icount'[j] = 1
      BY <1>5, <1>6 DEF One
    <3>4. CASE kind[j] = "dir"
      <4>1. Links(j) = 1 /\ Links(j)' = 0 /\ Reached(j) /\ ~Reached(j)'
        BY <1>5, <1>6, <1>10, <3>4 DEF Reached
      <4>2. nlink[j] = 2
        BY <1>8, <2>1, <2>3, <3>4, <4>1 DEF InodeInv
      <4>3. nlink'[j] = 0
        BY <1>5, <3>4, <4>2
      <4> QED
        BY <1>6, <2>3, <3>2, <3>3, <4>1, <4>3 DEF InodeInv, One
    <3>5. CASE kind[j] # "dir"
      <4>1. nlink[j] = Links(j) /\ kind'[j] # "dir"
        BY <1>5, <2>1, <2>3, <3>5 DEF InodeInv
      <4>2. icount'[j] = 0 => Links(j)' = 0
        BY <1>5, <1>6, <1>10, <3>2
      <4>3. nlink'[j] = Links(j)'
        BY <1>5, <1>10, <3>5, <4>1, <4>2
      <4> QED
        BY <1>6, <2>3, <3>2, <4>1, <4>3 DEF InodeInv, One
    <3> QED
      BY <3>4, <3>5
  <2> QED
    BY <2>2, <2>3
<1>13. ASSUME NEW f \in Dentries \ {e, t}
       PROVE  (f \in Alive' <=> f \in Alive) /\ (f \in Hashed' <=> f \in Hashed)
  BY <1>4 DEF SameDentry, Alive, Unborn, Hashed
<1>14. ASSUME NEW f \in Dentries PROVE DentryInv(f)'
  <2>1. DentryInv(f)
    BY DEF TreeInv
  <2>2. CASE f \notin {e, t}
    <3>1. f \in Hashed => Reached(dentry[f].dir) /\ dentry[f].dir # j /\ dentry[f].dir \in Inodes
      BY <1>9, DirReached
    <3>2. SameDentry(f)
      BY <1>4, <2>2
    <3>3. f \in Hashed => Reached(dentry[f].dir)'
      BY <1>11, <3>1, <3>2 DEF SameDentry
    <3> QED
      BY <1>13, <2>1, <2>2, <3>2, <3>3 DEF DentryInv, SameDentry
  <2>3. CASE f = e
    <3>1. Reached(dentry[t].dir) /\ dentry[t].dir # j /\ dentry[t].dir \in Inodes
      BY <1>4, <1>9, DirReached
    <3>2. Reached(dentry[e].dir)'
      BY <1>4, <1>11, <3>1
    <3>3. dentry[t].name \in Names
      BY <1>4, DirReached DEF TreeInv, DentryInv
    <3>4. dentry[e].count = One(e \in Hashed) + One(e \in open)
      BY <1>4, DirReached DEF TreeInv, DentryInv
    <3> QED
      BY <1>4, <2>3, <3>2, <3>3, <3>4 DEF DentryInv
  <2>4. CASE f = t
    BY <1>4, <2>4 DEF DentryInv, One
  <2> QED
    BY <2>2, <2>3, <2>4
<1>15. Hashed \subseteq Dentries /\ Hashed' \subseteq Dentries
  BY DEF Hashed, Alive
<1>16. NamesInv /\ \A f \in Hashed : dentry[f].dir = dentry[t].dir /\ dentry[f].name = dentry[t].name
                                     => f = t
  BY <1>4 DEF TreeInv, NamesInv
<1>17. ASSUME NEW f \in Hashed' \ {e}
       PROVE  f \in Hashed /\ f \notin {e, t} /\ dentry'[f] = dentry[f]
  BY <1>4, <1>13, <1>15 DEF SameDentry
<1>18. NamesInv'
  <2> SUFFICES ASSUME NEW f \in Hashed', NEW g \in Hashed',
                      dentry'[f].dir = dentry'[g].dir /\ dentry'[f].name = dentry'[g].name
               PROVE  f = g
    BY DEF NamesInv
  <2>1. CASE f # e /\ g # e
    BY <1>16, <1>17, <2>1 DEF NamesInv
  <2>2. CASE f = e /\ g # e
    BY <1>4, <1>16, <1>17, <2>2
  <2>3. CASE f # e /\ g = e
    BY <1>4, <1>16, <1>17, <2>3
  <2> QED
    BY <2>1, <2>2, <2>3
<1>19. tree' = {NameOf(f)' : f \in Hashed'}
  <2>1. tree = {NameOf(f) : f \in Hashed}
    BY DEF TreeInv
  <2>2. \A f \in Hashed \ {e, t} : NameOf(f) # NameOf(e) /\ NameOf(f) # NameOf(t)
    BY <1>4, <1>16 DEF NamesInv, NameOf, Named
  <2>3. tree \ {NameOf(e), NameOf(t)} = {NameOf(f) : f \in Hashed \ {e, t}}
    BY <2>1, <2>2
  <2>4. \A f \in Hashed \ {e, t} : NameOf(f)' = NameOf(f)
    BY <1>4, <1>15 DEF SameDentry, NameOf
  <2>5. Hashed' \ {e} = Hashed \ {e, t}
    BY <1>4, <1>13, <1>15
  <2>6. {NameOf(f) : f \in Hashed \ {e, t}} = {NameOf(f)' : f \in Hashed' \ {e}}
    BY <2>4, <2>5
  <2>7. NameOf(e)' = Named(dentry[t].dir, dentry[t].name, i)
    BY <1>4 DEF NameOf
  <2>8. tree' = {NameOf(f)' : f \in Hashed' \ {e}} \cup {NameOf(e)'}
    BY <1>7, <2>3, <2>6, <2>7
  <2> QED
    BY <1>4, <2>8
<1>20. MountInv'
  <2>1. kind'[Root] = "dir"
    BY <1>4, <1>5, <1>6, RootIn DEF TreeInv, MountInv
  <2> QED
    BY <1>4, <1>7, <2>1 DEF TreeInv, MountInv
<1> QED
  BY <1>5, <1>12, <1>14, <1>18, <1>19, <1>20 DEF TreeInv

-----------------------------------------------------------------------------
(***************************************************************************)
(* The mount.                                                              *)
(***************************************************************************)
\* Without dentries there is nothing to count.
LEMMA NothingCounts ==
  ASSUME TreeSound, NEW i \in Inodes
  PROVE  /\ Alive = {} => Held(i) = 0 /\ Links(i) = 0 /\ Subs(i) = 0
         /\ Alive' = {} => Held(i)' = 0 /\ Links(i)' = 0 /\ Subs(i)' = 0
<1>1. IsFiniteSet(Dentries) /\ i # NoInode
  BY DEF TreeSound, NoInode
<1>2. Alive = {} => \A s \in Dentries : HeldOf[s] # i /\ LinkOf[s] # i /\ SubOf[s] # i
  BY <1>1 DEF HeldOf, LinkOf, SubOf, Hashed
<1>3. Alive = {} => /\ Count(Dentries, HeldOf, i) = 0 /\ Count(Dentries, LinkOf, i) = 0
                    /\ Count(Dentries, SubOf, i) = 0
  BY <1>1, <1>2, CountNat
<1>4. Alive' = {} => \A s \in Dentries : HeldOf'[s] # i /\ LinkOf'[s] # i /\ SubOf'[s] # i
  BY <1>1 DEF HeldOf, LinkOf, SubOf, Hashed
<1>5. Alive' = {} => /\ Count(Dentries, HeldOf', i) = 0 /\ Count(Dentries, LinkOf', i) = 0
                     /\ Count(Dentries, SubOf', i) = 0
  BY <1>1, <1>4, CountNat
<1>6. /\ Held(i)' = Count(Dentries, HeldOf', i) /\ Links(i)' = Count(Dentries, LinkOf', i)
      /\ Subs(i)' = Count(Dentries, SubOf', i)
  BY DEF Held, Links, Subs, Count
<1> QED
  BY <1>3, <1>5, <1>6 DEF Held, Links, Subs

\* A state without dentries.
LEMMA NoDentries ==
  ASSUME TreeSound, TreeTyped', Alive' = {}, tree' = {}, MountInv',
         \A i \in Inodes :
           /\ icount'[i] = One(i = Root /\ phase' = "mounted")
           /\ IF icount'[i] = 0 THEN kind'[i] = "free" /\ nlink'[i] = 0
              ELSE kind'[i] = "dir" /\ nlink'[i] = 2
  PROVE  TreeInv'
<1>1. Hashed' = {}
  BY DEF Hashed
<1>2. ASSUME NEW i \in Inodes PROVE InodeInv(i)'
  <2>1. Held(i)' = 0 /\ Links(i)' = 0 /\ Subs(i)' = 0
    BY NothingCounts
  <2>2. CASE icount'[i] = 0
    BY <2>1, <2>2 DEF InodeInv, One
  <2>3. CASE icount'[i] # 0
    <3>1. i = Root /\ phase' = "mounted" /\ icount'[i] = 1
      BY <2>3 DEF One
    <3> QED
      BY <2>1, <3>1 DEF InodeInv, One, Reached
  <2> QED
    BY <2>2, <2>3
<1>3. \A e \in Dentries : DentryInv(e)'
  BY DEF DentryInv
<1>4. NamesInv' /\ tree' = {NameOf(e)' : e \in Hashed'}
  BY <1>1 DEF NamesInv
<1> QED
  BY <1>2, <1>3, <1>4 DEF TreeInv

\* Before the mount every inode is free.
LEMMA Unmounted ==
  ASSUME TreeSound, TreeInv, phase # "mounted"
  PROVE  /\ Alive = {} /\ tree = {} /\ TreeTyped /\ open = {}
         /\ \A i \in Inodes : icount[i] = 0 /\ kind[i] = "free" /\ nlink[i] = 0
<1>1. Alive = {} /\ TreeTyped /\ tree = {NameOf(e) : e \in Hashed}
  BY DEF TreeInv, MountInv
<1>2. Hashed = {} /\ open = {}
  BY <1>1 DEF Hashed, TreeTyped
<1>3. ASSUME NEW i \in Inodes PROVE icount[i] = 0 /\ kind[i] = "free" /\ nlink[i] = 0
  <2>1. Held(i) = 0 /\ Links(i) = 0 /\ InodeInv(i)
    BY <1>1, NothingCounts DEF TreeInv
  <2> QED
    BY <2>1 DEF InodeInv, One
<1> QED
  BY <1>1, <1>2, <1>3

\* A step of the mount that leaves the tree alone.
LEMMA MountStep ==
  ASSUME TreeSound, TreeInv, phase # "mounted", phase' # "mounted", MountInv',
         phase' \in {"none", "context"}, owner' \in {"none", "fc", "sb", "freed"},
         UNCHANGED <<inodeVars, dentry, open, tree>>
  PROVE  TreeInv'
<1>1. /\ kind' = kind /\ nlink' = nlink /\ icount' = icount /\ dentry' = dentry
      /\ open' = open /\ tree' = tree
  BY DEF inodeVars
<1>2. /\ Alive = {} /\ tree = {} /\ TreeTyped /\ open = {}
      /\ \A i \in Inodes : icount[i] = 0 /\ kind[i] = "free" /\ nlink[i] = 0
  BY Unmounted
<1>3. Alive' = {}
  BY <1>1, <1>2 DEF Alive, Unborn
<1>4. TreeTyped'
  BY <1>1, <1>2, <1>3 DEF TreeTyped
<1> QED
  BY <1>1, <1>2, <1>3, <1>4, NoDentries DEF One

\* ramfs_init_fs_context, ramfs_parse_param, ramfs_free_fc, and a
\* ramfs_fill_super that fails.
LEMMA ContextKeeps ==
  ASSUME TreeSound, TreeInv,
         InitFsContext \/ FreeFc \/ FillSuperFails \/ \E param \in Params : ParseParam(param)
  PROVE  TreeInv'
<1>1. /\ phase # "mounted" /\ phase' # "mounted" /\ phase' \in {"none", "context"}
      /\ owner' \in {"none", "fc", "sb", "freed"} /\ UNCHANGED <<inodeVars, dentry, open, tree>>
  BY DEF InitFsContext, FreeFc, FillSuperFails, ParseParam, TreeInv, TreeTyped
<1>2. Alive' = {} /\ MountInv
  BY <1>1, Unmounted DEF Alive, Unborn, TreeInv
<1>3. CASE InitFsContext
  <2>1. phase' = "context" /\ owner' = "fc" /\ frees' = 0 /\ mode' = [type |-> {}, perm |-> Default]
    BY <1>3 DEF InitFsContext
  <2>2. MountInv'
    BY <1>2, <2>1 DEF MountInv, One, TreeSound
  <2> QED
    BY <1>1, <2>2, MountStep
<1>4. CASE FreeFc
  <2>1. /\ phase = "context" /\ phase' = "none" /\ owner' = "freed"
        /\ frees' = IF owner = "fc" THEN frees + 1 ELSE frees
    BY <1>4 DEF FreeFc
  <2>2. MountInv'
    BY <1>2, <2>1 DEF MountInv, One
  <2> QED
    BY <1>1, <2>2, MountStep
<1>5. CASE FillSuperFails
  <2>1. /\ phase = "context" /\ phase' = phase /\ owner = "fc" /\ owner' = "freed"
        /\ frees' = frees + 1
    BY <1>5 DEF FillSuperFails
  <2>2. MountInv'
    BY <1>2, <2>1 DEF MountInv, One
  <2> QED
    BY <1>1, <2>2, MountStep
<1>6. CASE \E param \in Params : ParseParam(param)
  <2>1. PICK param \in Params : ParseParam(param)
    BY <1>6
  <2>2. /\ phase = "context" /\ phase' = phase /\ owner = "fc" /\ owner' = owner /\ frees' = frees
        /\ mode' = [type |-> {}, perm |-> param.value.perm] /\ param.value.perm # None
    BY <2>1 DEF ParseParam, Mask, TreeSound
  <2>3. MountInv'
    BY <1>2, <2>2 DEF MountInv, One
  <2> QED
    BY <1>1, <2>3, MountStep
<1> QED
  BY <1>3, <1>4, <1>5, <1>6

\* ramfs_fill_super.
LEMMA FillSuperKeeps ==
  ASSUME TreeSound, TreeInv, FillSuper
  PROVE  TreeInv'
<1>1. /\ phase = "context" /\ phase' = "mounted" /\ owner = "fc" /\ owner' = "sb"
      /\ GetInode(Root, {"DIR"} \cup mode.type) /\ perm' = mode.perm
      /\ mode' = mode /\ frees' = frees /\ dentry' = dentry /\ open' = open /\ tree' = tree
  BY DEF FillSuper
<1>2. /\ Alive = {} /\ tree = {} /\ TreeTyped /\ open = {}
      /\ \A i \in Inodes : icount[i] = 0 /\ kind[i] = "free" /\ nlink[i] = 0
  BY <1>1, Unmounted
<1>3. MountInv /\ mode = [type |-> {}, perm |-> mode.perm] /\ mode.perm # None
  BY <1>1 DEF TreeInv, MountInv
<1>4. {"DIR"} \cup mode.type = {"DIR"} /\ {"DIR"} # {"REG"}
  BY <1>3
<1>5. /\ kind' = [kind EXCEPT ![Root] = "dir"] /\ nlink' = [nlink EXCEPT ![Root] = 2]
      /\ icount' = [icount EXCEPT ![Root] = 1]
  BY <1>1, <1>4 DEF GetInode
<1>6. /\ kind'[Root] = "dir" /\ nlink'[Root] = 2 /\ icount'[Root] = 1
      /\ \A i \in Inodes \ {Root} : kind'[i] = "free" /\ nlink'[i] = 0 /\ icount'[i] = 0
      /\ kind' \in [Inodes -> {"free", "dir", "reg", "lnk", "special"}]
      /\ nlink' \in [Inodes -> Int] /\ icount' \in [Inodes -> Int]
  BY <1>2, <1>5, RootIn DEF TreeTyped
<1>7. Alive' = {}
  BY <1>1, <1>2 DEF Alive, Unborn
<1>8. TreeTyped'
  BY <1>1, <1>2, <1>6, <1>7 DEF TreeTyped
<1>9. MountInv'
  BY <1>1, <1>3, <1>6 DEF MountInv, One
<1> QED
  BY <1>1, <1>2, <1>6, <1>7, <1>8, <1>9, NoDentries DEF One

\* ramfs_kill_sb: the pins were the last references.
LEMMA KillSbKeeps ==
  ASSUME TreeSound, TreeInv, KillSb
  PROVE  TreeInv'
<1>1. /\ phase = "mounted" /\ open = {} /\ frees' = frees + 1 /\ owner' = "freed"
      /\ phase' = "none" /\ tree' = {} /\ open' = open /\ TreeTyped /\ MountInv
  BY DEF KillSb, TreeInv
<1>2. ASSUME NEW e \in Dentries PROVE dentry'[e] = None
  <2>1. e \in Alive => dentry[e].count = One(e \in Hashed) + One(e \in open)
    BY DEF TreeInv, DentryInv
  <2>2. ~(e \in Alive /\ dentry[e].count > 1)
    BY <1>1, <2>1 DEF One
  <2> QED
    BY <2>2 DEF KillSb
<1>3. dentry' = [e \in Dentries |-> None] /\ Alive' = {}
  <2>1. dentry' = [e \in Dentries |-> dentry'[e]]
    BY DEF KillSb
  <2> QED
    BY <1>2, <2>1 DEF Alive, Unborn
<1>4. ASSUME NEW i \in Inodes
      PROVE  Cardinality({e \in Alive : dentry'[e] = None /\ dentry[e].inode = i}) = Held(i)
  <2>1. i # NoInode
    BY DEF TreeSound, NoInode
  <2>2. {e \in Alive : dentry'[e] = None /\ dentry[e].inode = i} = {s \in Dentries : HeldOf[s] = i}
    BY <1>2, <2>1 DEF HeldOf, Alive
  <2> QED
    BY <2>2 DEF Held, Count
<1>5. ASSUME NEW i \in Inodes PROVE icount'[i] = 0 /\ kind'[i] = "free" /\ nlink'[i] = 0
  <2>1. icount'[i] = icount[i] - Cardinality({e \in Alive : dentry'[e] = None /\ dentry[e].inode = i})
                               - (IF i = Root THEN 1 ELSE 0)
    BY DEF KillSb
  <2>2. icount[i] = Held(i) + One(i = Root /\ phase = "mounted") /\ Held(i) \in Nat
    BY CountsNat DEF TreeInv, InodeInv
  <2>3. icount'[i] = 0
    BY <1>1, <1>4, <2>1, <2>2 DEF One
  <2> QED
    BY <2>3 DEF KillSb
<1>6. /\ kind' = [i \in Inodes |-> kind'[i]] /\ nlink' = [i \in Inodes |-> nlink'[i]]
      /\ icount' = [i \in Inodes |-> icount'[i]]
  BY DEF KillSb
<1>7. TreeTyped'
  <2>1. /\ kind' \in [Inodes -> {"free", "dir", "reg", "lnk", "special"}]
        /\ nlink' \in [Inodes -> Int] /\ icount' \in [Inodes -> Int]
    BY <1>5, <1>6
  <2> QED
    BY <1>1, <1>3, <2>1 DEF TreeTyped
<1>8. MountInv'
  BY <1>1, <1>3 DEF MountInv, One
<1> QED
  BY <1>1, <1>3, <1>5, <1>7, <1>8, NoDentries DEF One

-----------------------------------------------------------------------------
(***************************************************************************)
(* The theorems.                                                           *)
(***************************************************************************)
\* What a function takes each to another one of, all of them, is as many.
LEMMA SameSize ==
  ASSUME NEW S, IsFiniteSet(S), NEW T, NEW f \in [S -> T],
         \A x, y \in S : f[x] = f[y] => x = y, \A z \in T : \E x \in S : f[x] = z
  PROVE  Cardinality(T) = Cardinality(S)
<1>1. f \in Bijection(S, T)
  BY DEF Bijection, Injection, Surjection, IsInjective
<1>2. ExistsBijection(S, T)
  BY <1>1 DEF ExistsBijection
<1> QED
  BY <1>2, FS_Bijection

\* The names of an inode, and of the directories in a directory, are as many
\* as their dentries.
LEMMA NamesCounted ==
  ASSUME TreeSound, TreeInv, NEW i \in Inodes
  PROVE  Cardinality(LinksOf(i)) = Links(i) /\ Cardinality(Subdirs(i)) = Subs(i)
<1>1. /\ IsFiniteSet(Dentries) /\ i # NoInode /\ TreeTyped /\ NamesInv
      /\ tree = {NameOf(e) : e \in Hashed}
  BY DEF TreeSound, NoInode, TreeInv
<1>2. \A e \in Hashed : /\ e \in Dentries /\ NameOf(e).dir = dentry[e].dir
                        /\ NameOf(e).name = dentry[e].name /\ NameOf(e).inode = dentry[e].inode
  BY DEF Hashed, Alive, NameOf, Named
<1>3. \A e, f \in Hashed : NameOf(e) = NameOf(f) => e = f
  BY <1>1, <1>2 DEF NamesInv
<1>4. Cardinality(LinksOf(i)) = Links(i)
  <2> DEFINE L == {s \in Dentries : LinkOf[s] = i}
             f == [s \in L |-> NameOf(s)]
  <2>1. \A s \in Dentries : s \in L <=> s \in Hashed /\ dentry[s].inode = i
    BY <1>1 DEF LinkOf
  <2>2. \A s \in L : s \in Hashed /\ dentry[s].inode = i
    BY <2>1
  <2>3. \A s \in Hashed : dentry[s].inode = i => s \in L
    BY <1>2, <2>1
  <2>4. IsFiniteSet(L) /\ Links(i) = Cardinality(L)
    BY <1>1, FS_Subset DEF Links, Count
  <2> HIDE DEF L
  <2>5. \A s \in L : NameOf(s) \in LinksOf(i)
    BY <1>1, <1>2, <2>2 DEF LinksOf
  <2>6. \A z \in LinksOf(i) : \E s \in L : NameOf(s) = z
    BY <1>1, <1>2, <2>3 DEF LinksOf
  <2>7. f \in [L -> LinksOf(i)] /\ \A s \in L : f[s] = NameOf(s)
    BY <2>5
  <2> HIDE DEF f
  <2>8. /\ \A x, y \in L : f[x] = f[y] => x = y
        /\ \A z \in LinksOf(i) : \E s \in L : f[s] = z
    BY <1>3, <2>2, <2>6, <2>7
  <2> QED
    BY <2>4, <2>7, <2>8, SameSize
<1>5. Cardinality(Subdirs(i)) = Subs(i)
  <2> DEFINE L == {s \in Dentries : SubOf[s] = i}
             f == [s \in L |-> NameOf(s)]
  <2>1. \A s \in Dentries :
          s \in L <=> s \in Hashed /\ dentry[s].dir = i /\ kind[dentry[s].inode] = "dir"
    BY <1>1 DEF SubOf
  <2>2. \A s \in L : s \in Hashed /\ dentry[s].dir = i /\ kind[dentry[s].inode] = "dir"
    BY <2>1
  <2>3. \A s \in Hashed : dentry[s].dir = i /\ kind[dentry[s].inode] = "dir" => s \in L
    BY <1>2, <2>1
  <2>4. IsFiniteSet(L) /\ Subs(i) = Cardinality(L)
    BY <1>1, FS_Subset DEF Subs, Count
  <2> HIDE DEF L
  <2>5. \A s \in L : NameOf(s) \in Subdirs(i)
    BY <1>1, <1>2, <2>2 DEF Subdirs
  <2>6. \A z \in Subdirs(i) : \E s \in L : NameOf(s) = z
    BY <1>1, <1>2, <2>3 DEF Subdirs
  <2>7. f \in [L -> Subdirs(i)] /\ \A s \in L : f[s] = NameOf(s)
    BY <2>5
  <2> HIDE DEF f
  <2>8. /\ \A x, y \in L : f[x] = f[y] => x = y
        /\ \A z \in Subdirs(i) : \E s \in L : f[s] = z
    BY <1>3, <2>2, <2>6, <2>7
  <2> QED
    BY <2>4, <2>7, <2>8, SameSize
<1> QED
  BY <1>4, <1>5

\* The invariant says what TreeExact says.
LEMMA TreeInvExact ==
  ASSUME TreeSound, TreeInv
  PROVE  TreeExact
<1>1. TreeTyped /\ MountInv /\ tree = {NameOf(e) : e \in Hashed}
  BY DEF TreeInv
<1>2. ASSUME NEW e \in Alive
      PROVE  dentry[e].count = (IF e \in Hashed THEN 1 ELSE 0) + (IF e \in open THEN 1 ELSE 0)
  BY DEF TreeInv, DentryInv, One, Alive
<1>3. ASSUME NEW i \in Inodes \ Free
      PROVE  /\ icount[i] = Cardinality({e \in Alive : dentry[e].inode = i}) + (IF i = Root THEN 1 ELSE 0)
             /\ icount[i] > 0
             /\ nlink[i] = IF kind[i] # "dir" THEN Cardinality(LinksOf(i))
                           ELSE IF LiveDir(i) THEN 2 + Cardinality(Subdirs(i)) ELSE 0
  <2>1. InodeInv(i) /\ kind[i] # "free" /\ Held(i) \in Nat
    BY CountsNat DEF Free, TreeInv
  <2>2. phase = "mounted"
    BY <2>1, Unmounted
  <2>3. Cardinality({e \in Alive : dentry[e].inode = i}) = Held(i)
    <3>1. i # NoInode
      BY DEF TreeSound, NoInode
    <3>2. {e \in Alive : dentry[e].inode = i} = {s \in Dentries : HeldOf[s] = i}
      BY <3>1 DEF HeldOf, Alive
    <3> QED
      BY <3>2 DEF Held, Count
  <2>4. icount[i] = Held(i) + (IF i = Root THEN 1 ELSE 0) /\ icount[i] # 0
    BY <2>1, <2>2 DEF InodeInv, One
  <2>5. nlink[i] = IF kind[i] # "dir" THEN Links(i) ELSE IF LiveDir(i) THEN 2 + Subs(i) ELSE 0
    BY <1>1, <2>1, LiveReached DEF InodeInv
  <2> QED
    BY <2>1, <2>3, <2>4, <2>5, NamesCounted
<1>4. phase = "mounted" => /\ kind[Root] = "dir" /\ owner = "sb"
                           /\ perm = IF ShowOptions = None THEN Default ELSE ShowOptions
  <2> SUFFICES ASSUME phase = "mounted"
               PROVE  /\ kind[Root] = "dir" /\ owner = "sb"
                      /\ perm = IF ShowOptions = None THEN Default ELSE ShowOptions
    OBVIOUS
  <2>1. /\ kind[Root] = "dir" /\ owner = "sb" /\ perm = mode.perm /\ mode.perm # None
        /\ mode = [type |-> {}, perm |-> mode.perm]
    BY <1>1 DEF MountInv
  <2>2. CASE mode.perm = Default
    <3>1. mode = [type |-> {}, perm |-> Default]
      BY <2>1, <2>2
    <3>2. ShowOptions = None
      BY <3>1 DEF ShowOptions
    <3> QED
      BY <2>1, <2>2, <3>2
  <2>3. CASE mode.perm # Default
    <3>1. mode # [type |-> {}, perm |-> Default]
      BY <2>3
    <3>2. ShowOptions = mode.perm
      BY <3>1 DEF ShowOptions
    <3> QED
      BY <2>1, <3>2
  <2> QED
    BY <2>2, <2>3
<1>5. phase # "mounted" => Free = Inodes /\ Alive = {}
  BY Unmounted DEF Free
<1>6. frees = IF owner = "freed" THEN 1 ELSE 0
  BY <1>1 DEF MountInv, One
<1> QED
  BY <1>1, <1>2, <1>3, <1>4, <1>5, <1>6 DEF TreeExact

\* The invariant has the types in it.
LEMMA TreeInvTypes ==
  ASSUME TreeSound, TreeInv
  PROVE  TreeTypeOK
<1>1. TreeTyped /\ MountInv /\ tree = {NameOf(e) : e \in Hashed}
  BY DEF TreeInv
<1>2. ASSUME NEW i \in Inodes PROVE nlink[i] \in Nat /\ icount[i] \in Nat
  <2>1. InodeInv(i) /\ Held(i) \in Nat /\ Links(i) \in Nat /\ Subs(i) \in Nat
    BY CountsNat DEF TreeInv
  <2> QED
    BY <2>1 DEF InodeInv, One
<1>3. nlink \in [Inodes -> Nat] /\ icount \in [Inodes -> Nat]
  BY <1>1, <1>2 DEF TreeTyped
<1>4. \A e \in Hashed : NameOf(e) \in [dir : Inodes, name : Names, inode : Inodes]
  <2> TAKE e \in Hashed
  <2>1. dentry[e].dir \in Inodes /\ dentry[e].inode \in Inodes /\ dentry[e].name \in Names
    BY DirReached DEF TreeInv, DentryInv
  <2> QED
    BY <2>1 DEF NameOf, Named
<1>5. frees \in Nat
  BY <1>1 DEF MountInv, One
<1> QED
  BY <1>1, <1>3, <1>4, <1>5 DEF TreeTyped, TreeTypeOK

\* Before the first mount there is nothing.
LEMMA TreeInitInv ==
  ASSUME TreeSound, TreeInit
  PROVE  TreeInv
<1>1. /\ phase = "none" /\ owner = "none" /\ frees = 0
      /\ kind = [i \in Inodes |-> "free"] /\ nlink = [i \in Inodes |-> 0]
      /\ icount = [i \in Inodes |-> 0] /\ dentry = [e \in Dentries |-> None]
      /\ open = {} /\ tree = {}
  BY DEF TreeInit
<1>2. Alive = {} /\ Hashed = {}
  BY <1>1 DEF Alive, Unborn, Hashed
<1>3. TreeTyped
  BY <1>1 DEF TreeTyped
<1>4. ASSUME NEW i \in Inodes PROVE InodeInv(i)
  <2>1. Held(i) = 0 /\ Links(i) = 0 /\ Subs(i) = 0
    BY <1>2, NothingCounts
  <2> QED
    BY <1>1, <2>1 DEF InodeInv, One
<1>5. /\ \A e \in Dentries : DentryInv(e)
      /\ NamesInv /\ MountInv /\ tree = {NameOf(e) : e \in Hashed}
  BY <1>1, <1>2 DEF DentryInv, NamesInv, MountInv, One
<1> QED
  BY <1>3, <1>4, <1>5 DEF TreeInv

\* Every operation of ramfs keeps the invariant.
LEMMA TreeNextInv ==
  ASSUME TreeSound, TreeInv, [TreeNext]_treeVars
  PROVE  TreeInv'
<1>1. CASE UNCHANGED treeVars
  BY <1>1, TreeStutters DEF treeVars, inodeVars
<1>2. CASE InitFsContext \/ FreeFc \/ FillSuperFails \/ \E param \in Params : ParseParam(param)
  BY <1>2, ContextKeeps
<1>3. CASE FillSuper
  BY <1>3, FillSuperKeeps
<1>4. CASE KillSb
  BY <1>4, KillSbKeeps
<1>5. ASSUME NEW d \in Inodes, Tmpfile(d) PROVE TreeInv'
  BY <1>5, TmpfileKeeps
<1>6. ASSUME NEW d \in Inodes, NEW n \in Names,
             \/ Mkdir(d, n)
             \/ \E type \in Types : Mknod(d, n, type)
             \/ \E ok \in BOOLEAN : Symlink(d, n, ok)
             \/ \E e \in Dentries : Link(e, d, n) \/ RenameNew(e, d, n)
      PROVE  TreeInv'
  BY <1>6, MkdirKeeps, MknodKeeps, SymlinkKeeps, LinkKeeps, RenameNewKeeps
<1>7. ASSUME NEW e \in Dentries,
             \/ Open(e) \/ Close(e) \/ Unlink(e) \/ Rmdir(e)
             \/ \E t \in Dentries : RenameOver(e, t)
      PROVE  TreeInv'
  BY <1>7, OpenKeeps, CloseKeeps, UnlinkKeeps, RmdirKeeps, RenameOverKeeps
<1> QED
  BY <1>1, <1>2, <1>3, <1>4, <1>5, <1>6, <1>7 DEF TreeNext

\* The counts of dentries, links and directories are exact in every state of
\* every sequence of mounts and of operations on directories.
THEOREM TreeInvariance == TreeSpec => []TreeInv
<1>1. TreeInit => TreeInv
  BY TreeSoundHolds, TreeInitInv
<1>2. TreeInv /\ [TreeNext]_treeVars => TreeInv'
  BY TreeSoundHolds, TreeNextInv
<1> QED
  BY <1>1, <1>2, PTL DEF TreeSpec

\* Every variable of the tree has its type.
THEOREM TreeTypesAreKept == TreeSpec => []TreeTypeOK
<1>1. TreeInv => TreeTypeOK
  BY TreeSoundHolds, TreeInvTypes
<1> QED
  BY <1>1, TreeInvariance, PTL

\* For any number of inodes, dentries and names: the names are what the calls
\* made of them, ramfs_mknod, ramfs_mkdir, simple_unlink and simple_rename
\* leave the counters of dentries, inodes and links exact, nothing is left
\* after ramfs_kill_sb, and the fs info is freed exactly once.
THEOREM TreeIsExact == TreeSpec => []TreeExact
<1>1. TreeInv => TreeExact
  BY TreeSoundHolds, TreeInvExact
<1> QED
  BY <1>1, TreeInvariance, PTL

-----------------------------------------------------------------------------
(***************************************************************************)
(* Binding the sync directory, for any writers, readers, lines and         *)
(* directories.  The words of a line are left to TLC; here it only matters *)
(* that what is bound was found to be a directory.                         *)
(***************************************************************************)
\* The strings: the one that is bound is the one that is not freed.
StringsInv ==
  /\ strings \in Seq([path : Directory, freed : BOOLEAN])
  /\ sync_dir \in 0 .. Len(strings)
  /\ \A k \in 1 .. Len(strings) : strings[k].freed <=> k # sync_dir

\* Where a writer can be, and what it holds there.
Points == {"idle", "kbuf", "ramfs_path", "sync_path", "copy", "parse", "lookup",
           "check", "lock", "load", "print", "put", "out"}
Three == {"kbuf", "ramfs_path", "sync_path"}
HeldAt(l) ==
  IF l \in {"idle", "kbuf"} THEN {}
  ELSE IF l = "ramfs_path" THEN {"kbuf"}
  ELSE IF l = "sync_path" THEN {"kbuf", "ramfs_path"}
  ELSE IF l \in {"copy", "parse", "lookup", "out"} THEN Three
  ELSE Three \cup {"path"}

\* A writer: what it holds, and the path it has looked up.
WriterInv(t) ==
  /\ pc[t] \in Points
  /\ held[t] = HeldAt(pc[t])
  /\ pc[t] = "lock" => sync_path[t] \in Directory
  /\ pc[t] \in {"load", "print"} => sync_dir # 0
  /\ pc[t] = "print" => ptr[t] \in 1 .. Len(strings)

\* What ramfs_init_proc has made, at each of its steps.
EntriesInv ==
  \/ init = "dir" /\ entries = {}
  \/ init \in {"bind", "remove_dir"} /\ entries = {"dir"}
  \/ init \in {"sync", "remove_bind"} /\ entries = {"dir", "bind"}
  \/ init = "up" /\ entries \in {{}, {"dir", "bind", "sync"}}

\* What a reader was given up to now, and that a binding that it may still be
\* given is one of those it has seen.
ReaderInv(r) ==
  /\ ppos[r] \in Nat /\ got[r] \in Seq(Characters) /\ Len(got[r]) = ppos[r]
  /\ since[r] \subseteq Directory \cup {NoPath}
  /\ ppos[r] # 0 => Bound \in since[r]
  /\ \A i \in 1 .. ppos[r] :
       \E path \in since[r] : i <= Len(TextOf(path)) /\ got[r][i] = TextOf(path)[i]

\* The functions of writers and readers.
ProcDomains ==
  /\ pc = [t \in Writers |-> pc[t]] /\ held = [t \in Writers |-> held[t]]
  /\ buffer = [t \in Writers |-> buffer[t]] /\ sync_path = [t \in Writers |-> sync_path[t]]
  /\ ptr = [t \in Writers |-> ptr[t]]
  /\ ppos = [r \in Readers |-> ppos[r]] /\ got = [r \in Readers |-> got[r]]
  /\ since = [r \in Readers |-> since[r]]

\* The inductive invariant.
ProcInv ==
  /\ ProcDomains /\ StringsInv
  /\ printedFreed \in BOOLEAN /\ EntriesInv
  /\ \A t \in Writers : WriterInv(t)
  /\ \A r \in Readers : ReaderInv(r)

\* What is bound is a directory, and its text is a sequence of characters.
LEMMA BoundType ==
  ASSUME ProcSound, StringsInv
  PROVE  /\ Bound \in Directory \cup {NoPath} /\ TextOf(Bound) \in Seq(Characters)
         /\ sync_dir # 0 => Bound = strings[sync_dir].path /\ Bound \in Directory
<1>1. sync_dir # 0 => strings[sync_dir].path \in Directory
  <2>1. sync_dir # 0 => sync_dir \in 1 .. Len(strings)
    BY DEF StringsInv
  <2>2. \A k \in 1 .. Len(strings) : strings[k] \in [path : Directory, freed : BOOLEAN]
    <3>1. PICK R : R = [path : Directory, freed : BOOLEAN]
      OBVIOUS
    <3>2. strings \in Seq(R)
      BY <3>1 DEF StringsInv
    <3>3. \A k \in 1 .. Len(strings) : strings[k] \in R
      BY <3>2
    <3> QED
      BY <3>1, <3>3
  <2> QED
    BY <2>1, <2>2
<1>2. sync_dir # 0 => Bound = strings[sync_dir].path
  BY DEF Bound
<1>3. sync_dir = 0 => Bound = NoPath
  BY DEF Bound
<1>4. Message \in Seq(Characters)
  <2>1. ASSUME NEW a \in Characters, NEW b \in Characters PROVE <<a, b>> \in Seq(Characters)
    OBVIOUS
  <2>2. NotBound \in Characters /\ Newline \in Characters
    BY DEF ProcSound
  <2> QED
    BY <2>1, <2>2, Zenon DEF Message
<1>5. Bound \in Directory => Append(Bound, Newline) \in Seq(Characters)
  <2>1. ASSUME NEW q \in Seq(Characters), NEW b \in Characters PROVE Append(q, b) \in Seq(Characters)
    OBVIOUS
  <2>2. Bound \in Directory => Bound \in Seq(Characters)
    BY DEF ProcSound
  <2>3. Newline \in Characters
    BY DEF ProcSound
  <2> QED
    BY <2>1, <2>2, <2>3, Zenon
<1> QED
  BY <1>1, <1>2, <1>3, <1>4, <1>5 DEF TextOf

\* Steps of writers that bind nothing leave the readers and the strings alone.
LEMMA BoundSame ==
  ASSUME UNCHANGED <<strings, sync_dir>>
  PROVE  Bound' = Bound /\ (StringsInv => StringsInv')
BY DEF Bound, StringsInv

\* Such a step leaves what the readers know alone.
LEMMA ReadersSame ==
  ASSUME \A r \in Readers : ReaderInv(r), UNCHANGED <<strings, sync_dir, readerVars>>
  PROVE  \A r \in Readers : ReaderInv(r)'
<1>1. Bound' = Bound /\ ppos' = ppos /\ got' = got /\ since' = since
  BY BoundSame DEF readerVars
<1> QED
  BY <1>1 DEF ReaderInv, TextOf, Message

\* What a writer may come to: where it is, its path and ptr.
Allowed(l, s, p) ==
  /\ l \in Points
  /\ l = "lock" => s \in Directory
  /\ l \in {"load", "print"} => sync_dir # 0
  /\ l = "print" => p \in 1 .. Len(strings)

\* A writer's step that binds nothing.
StepTo(t, l, s, p) ==
  /\ pc' = [pc EXCEPT ![t] = l] /\ held' = [held EXCEPT ![t] = HeldAt(l)]
  /\ sync_path' = [sync_path EXCEPT ![t] = s] /\ ptr' = [ptr EXCEPT ![t] = p]
  /\ buffer' = [u \in Writers |-> buffer'[u]]
  /\ printedFreed' \in BOOLEAN /\ UNCHANGED <<entries, init, strings, sync_dir, readerVars>>

\* It is enough to look at the writer that takes such a step.
LEMMA WriterStep ==
  ASSUME ProcInv, NEW t \in Writers, NEW l, NEW s, NEW p,
         Allowed(l, s, p), StepTo(t, l, s, p)
  PROVE  ProcInv'
<1>0. UNCHANGED <<entries, init, strings, sync_dir, readerVars>> /\ printedFreed' \in BOOLEAN
  BY DEF StepTo
<1>1. StringsInv'
  BY <1>0, BoundSame DEF ProcInv
<1>2. \A r \in Readers : ReaderInv(r)'
  BY <1>0, ReadersSame DEF ProcInv
<1>3. ProcDomains'
  BY DEF ProcInv, ProcDomains, readerVars, StepTo
<1>4. ASSUME NEW u \in Writers PROVE WriterInv(u)'
  <2>1. WriterInv(u) /\ ProcDomains
    BY DEF ProcInv
  <2>2. CASE u = t
    <3>1. pc'[u] = l /\ held'[u] = HeldAt(l) /\ sync_path'[u] = s /\ ptr'[u] = p
      BY <2>1, <2>2 DEF ProcDomains, StepTo
    <3> QED
      BY <1>0, <3>1 DEF WriterInv, HeldAt, Three, Points, Allowed
  <2>3. CASE u # t
    <3>1. pc'[u] = pc[u] /\ held'[u] = held[u] /\ sync_path'[u] = sync_path[u] /\ ptr'[u] = ptr[u]
      BY <2>1, <2>3 DEF ProcDomains, StepTo
    <3> QED
      BY <1>0, <2>1, <3>1 DEF WriterInv, HeldAt, Three, Points
  <2> QED
    BY <2>2, <2>3
<1>5. EntriesInv'
  BY <1>0 DEF ProcInv, EntriesInv
<1> QED
  BY <1>0, <1>1, <1>2, <1>3, <1>4, <1>5 DEF ProcInv

\* A function that is set where it is to what it is.
LEMMA SetToItself ==
  ASSUME NEW S, NEW f, f = [u \in S |-> f[u]], NEW t \in S
  PROVE  [f EXCEPT ![t] = f[t]] = f
OBVIOUS

\* A step of the call after which it holds what it may hold there.
LEMMA ProcStepKeeps ==
  ASSUME ProcInv, NEW t \in Writers, NEW l, NEW h, h = HeldAt(l),
         Allowed(l, sync_path[t], ptr[t]), ProcStep(t, l, h)
  PROVE  ProcInv'
<1>1. ProcDomains /\ printedFreed \in BOOLEAN
  BY DEF ProcInv
<1>2. /\ pc' = [pc EXCEPT ![t] = l] /\ held' = [held EXCEPT ![t] = HeldAt(l)]
      /\ sync_path' = sync_path /\ ptr' = ptr /\ buffer' = buffer
      /\ printedFreed' = printedFreed /\ UNCHANGED <<entries, init, strings, sync_dir, readerVars>>
  BY DEF ProcStep, ProcGoto
<1>3. /\ sync_path' = [sync_path EXCEPT ![t] = sync_path[t]] /\ ptr' = [ptr EXCEPT ![t] = ptr[t]]
      /\ buffer' = [u \in Writers |-> buffer'[u]]
  BY <1>1, <1>2, SetToItself DEF ProcDomains
<1>4. printedFreed' \in BOOLEAN
  BY <1>1, <1>2
<1>5. StepTo(t, l, sync_path[t], ptr[t])
  BY <1>2, <1>3, <1>4 DEF StepTo
<1> QED
  BY <1>5, WriterStep

\* A return of ramfs_proc_bind_write that frees all that the call holds.
LEMMA ReturnKeeps ==
  ASSUME ProcInv, NEW t \in Writers, NEW freed, held[t] \subseteq freed, Return(t, freed)
  PROVE  ProcInv'
<1>1. ProcDomains /\ printedFreed \in BOOLEAN
  BY DEF ProcInv
<1>2. held[t] \ freed = {} /\ HeldAt("idle") = {}
  BY DEF HeldAt
<1>3. /\ pc' = [pc EXCEPT ![t] = "idle"] /\ held' = [held EXCEPT ![t] = HeldAt("idle")]
      /\ sync_path' = [sync_path EXCEPT ![t] = NoPath] /\ ptr' = [ptr EXCEPT ![t] = 0]
      /\ buffer' = [buffer EXCEPT ![t] = <<>>]
      /\ printedFreed' = printedFreed /\ UNCHANGED <<entries, init, strings, sync_dir, readerVars>>
  BY <1>2 DEF Return, ProcGoto
<1>4. buffer' = [u \in Writers |-> buffer'[u]] /\ printedFreed' \in BOOLEAN
  BY <1>1, <1>3 DEF ProcDomains
<1>5. Allowed("idle", NoPath, 0)
  BY DEF Allowed, Points
<1>6. StepTo(t, "idle", NoPath, 0)
  BY <1>3, <1>4 DEF StepTo
<1> QED
  BY <1>5, <1>6, WriterStep

\* A write of the proc file begins.
LEMMA BindWriteKeeps ==
  ASSUME ProcInv, NEW t \in Writers, NEW text, BindWrite(t, text)
  PROVE  ProcInv'
<1>1. ProcDomains /\ WriterInv(t) /\ printedFreed \in BOOLEAN
  BY DEF ProcInv
<1>2. /\ pc[t] = "idle" /\ pc' = [pc EXCEPT ![t] = "kbuf"] /\ held' = held
      /\ sync_path' = sync_path /\ ptr' = ptr /\ buffer' = [buffer EXCEPT ![t] = text]
      /\ printedFreed' = printedFreed /\ UNCHANGED <<entries, init, strings, sync_dir, readerVars>>
  BY DEF BindWrite, ProcGoto
<1>3. /\ sync_path' = [sync_path EXCEPT ![t] = sync_path[t]] /\ ptr' = [ptr EXCEPT ![t] = ptr[t]]
      /\ held' = [held EXCEPT ![t] = held[t]] /\ buffer' = [u \in Writers |-> buffer'[u]]
  BY <1>1, <1>2, SetToItself DEF ProcDomains
<1>4. printedFreed' \in BOOLEAN /\ held[t] = HeldAt("kbuf")
  BY <1>1, <1>2 DEF WriterInv, HeldAt
<1>5. Allowed("kbuf", sync_path[t], ptr[t])
  BY DEF Allowed, Points
<1>6. StepTo(t, "kbuf", sync_path[t], ptr[t])
  BY <1>2, <1>3, <1>4 DEF StepTo
<1> QED
  BY <1>5, <1>6, WriterStep

\* The three allocations: what is held after each.
LEMMA KmallocKeeps ==
  ASSUME ProcInv, NEW t \in Writers, Kmalloc(t)
  PROVE  ProcInv'
<1>1. WriterInv(t)
  BY DEF ProcInv
<1>2. CASE pc[t] = "kbuf"
  <2>1. ProcStep(t, "ramfs_path", held[t] \cup {"kbuf"})
    BY <1>2 DEF Kmalloc
  <2>2. held[t] \cup {"kbuf"} = HeldAt("ramfs_path") /\ Allowed("ramfs_path", sync_path[t], ptr[t])
    BY <1>1, <1>2 DEF WriterInv, HeldAt, Allowed, Points
  <2> QED
    BY <2>1, <2>2, ProcStepKeeps
<1>3. CASE pc[t] = "ramfs_path"
  <2>1. ProcStep(t, "sync_path", held[t] \cup {"ramfs_path"})
    BY <1>3 DEF Kmalloc
  <2>2. /\ held[t] \cup {"ramfs_path"} = HeldAt("sync_path")
        /\ Allowed("sync_path", sync_path[t], ptr[t])
    BY <1>1, <1>3 DEF WriterInv, HeldAt, Allowed, Points
  <2> QED
    BY <2>1, <2>2, ProcStepKeeps
<1>4. CASE pc[t] = "sync_path"
  <2>1. ProcStep(t, "copy", held[t] \cup {"sync_path"})
    BY <1>4 DEF Kmalloc
  <2>2. held[t] \cup {"sync_path"} = HeldAt("copy") /\ Allowed("copy", sync_path[t], ptr[t])
    BY <1>1, <1>4 DEF WriterInv, HeldAt, Three, Allowed, Points
  <2> QED
    BY <2>1, <2>2, ProcStepKeeps
<1> QED
  BY <1>2, <1>3, <1>4 DEF Kmalloc

\* Each return of a failed allocation frees what was allocated before it.
LEMMA KmallocFailsKeeps ==
  ASSUME ProcInv, NEW t \in Writers, KmallocFails(t)
  PROVE  ProcInv'
<1>1. WriterInv(t)
  BY DEF ProcInv
<1>2. \E freed : held[t] \subseteq freed /\ Return(t, freed)
  BY <1>1 DEF KmallocFails, WriterInv, HeldAt
<1> QED
  BY <1>2, ReturnKeeps

\* The steps up to the check of what was found, and the two labels.
LEMMA PlainStepsKeep ==
  ASSUME ProcInv, NEW t \in Writers,
         \/ CopyFromUser(t) \/ ParseFails(t) \/ LookupFails(t) \/ Lookup(t) \/ CheckDir(t)
         \/ StrdupFails(t) \/ PathPut(t)
  PROVE  ProcInv'
<1>1. WriterInv(t)
  BY DEF ProcInv
<1>2. CASE CopyFromUser(t)
  <2>1. pc[t] = "copy" /\ (ProcStep(t, "parse", held[t]) \/ ProcStep(t, "out", held[t]))
    BY <1>2 DEF CopyFromUser
  <2>2. /\ held[t] = HeldAt("parse") /\ Allowed("parse", sync_path[t], ptr[t])
        /\ held[t] = HeldAt("out") /\ Allowed("out", sync_path[t], ptr[t])
    BY <1>1, <2>1 DEF WriterInv, HeldAt, Allowed, Points
  <2> QED
    BY <2>1, <2>2, ProcStepKeeps
<1>3. CASE ParseFails(t) \/ LookupFails(t)
  <2>1. pc[t] \in {"parse", "lookup"} /\ ProcStep(t, "out", held[t])
    BY <1>3 DEF ParseFails, LookupFails
  <2>2. held[t] = HeldAt("out") /\ Allowed("out", sync_path[t], ptr[t])
    BY <1>1, <2>1 DEF WriterInv, HeldAt, Allowed, Points
  <2> QED
    BY <2>1, <2>2, ProcStepKeeps
<1>4. CASE Lookup(t)
  <2>1. pc[t] = "lookup" /\ ProcStep(t, "check", held[t] \cup {"path"})
    BY <1>4 DEF Lookup
  <2>2. held[t] \cup {"path"} = HeldAt("check") /\ Allowed("check", sync_path[t], ptr[t])
    BY <1>1, <2>1 DEF WriterInv, HeldAt, Three, Allowed, Points
  <2> QED
    BY <2>1, <2>2, ProcStepKeeps
<1>5. CASE CheckDir(t)
  <2>1. PICK l : l = (IF sync_path[t] \in Directory THEN "lock" ELSE "put")
    OBVIOUS
  <2>2. pc[t] = "check" /\ ProcStep(t, l, held[t])
    BY <1>5, <2>1 DEF CheckDir
  <2>3. held[t] = HeldAt(l) /\ Allowed(l, sync_path[t], ptr[t])
    BY <1>1, <2>1, <2>2 DEF WriterInv, HeldAt, Allowed, Points
  <2> QED
    BY <2>2, <2>3, ProcStepKeeps
<1>6. CASE StrdupFails(t)
  <2>1. pc[t] = "lock" /\ ProcStep(t, "put", held[t])
    BY <1>6 DEF StrdupFails
  <2>2. held[t] = HeldAt("put") /\ Allowed("put", sync_path[t], ptr[t])
    BY <1>1, <2>1 DEF WriterInv, HeldAt, Allowed, Points
  <2> QED
    BY <2>1, <2>2, ProcStepKeeps
<1>7. CASE PathPut(t)
  <2>1. pc[t] = "put" /\ ProcStep(t, "out", held[t] \ {"path"})
    BY <1>7 DEF PathPut
  <2>2. held[t] \ {"path"} = HeldAt("out") /\ Allowed("out", sync_path[t], ptr[t])
    BY <1>1, <2>1 DEF WriterInv, HeldAt, Three, Allowed, Points
  <2> QED
    BY <2>1, <2>2, ProcStepKeeps
<1> QED
  BY <1>2, <1>3, <1>4, <1>5, <1>6, <1>7

\* The last label frees the three buffers.
LEMMA OutKeeps ==
  ASSUME ProcInv, NEW t \in Writers, Out(t)
  PROVE  ProcInv'
<1>1. WriterInv(t)
  BY DEF ProcInv
<1>2. \E freed : held[t] \subseteq freed /\ Return(t, freed)
  BY <1>1 DEF Out, WriterInv, HeldAt, Three
<1> QED
  BY <1>2, ReturnKeeps

\* The line is parsed.
LEMMA ParseKeeps ==
  ASSUME ProcInv, NEW t \in Writers, Parse(t)
  PROVE  ProcInv'
<1>1. ProcDomains /\ WriterInv(t) /\ printedFreed \in BOOLEAN
  BY DEF ProcInv
<1>2. PICK path : path = ParseMountPath(buffer[t])
  OBVIOUS
<1>3. /\ pc[t] = "parse" /\ printedFreed' = printedFreed
      /\ UNCHANGED <<entries, init, strings, sync_dir, readerVars>>
      /\ sync_path' = [sync_path EXCEPT ![t] = path] /\ pc' = [pc EXCEPT ![t] = "lookup"]
      /\ buffer' = buffer /\ held' = held /\ ptr' = ptr
  BY <1>2 DEF Parse, ProcGoto
<1>4. /\ held' = [held EXCEPT ![t] = held[t]] /\ ptr' = [ptr EXCEPT ![t] = ptr[t]]
      /\ buffer' = [u \in Writers |-> buffer'[u]]
  BY <1>1, <1>3, SetToItself DEF ProcDomains
<1>5. held[t] = HeldAt("lookup") /\ printedFreed' \in BOOLEAN
  BY <1>1, <1>3 DEF WriterInv, HeldAt
<1>6. Allowed("lookup", path, ptr[t])
  BY DEF Allowed, Points
<1>7. StepTo(t, "lookup", path, ptr[t])
  BY <1>3, <1>4, <1>5 DEF StepTo
<1> QED
  BY <1>6, <1>7, WriterStep

\* The pointer is read after the unlock: by then another string may be bound.
LEMMA LoadPtrKeeps ==
  ASSUME ProcInv, NEW t \in Writers, LoadPtr(t)
  PROVE  ProcInv'
<1>1. ProcDomains /\ WriterInv(t) /\ printedFreed \in BOOLEAN /\ StringsInv
  BY DEF ProcInv
<1>2. /\ pc[t] = "load" /\ pc' = [pc EXCEPT ![t] = "print"] /\ ptr' = [ptr EXCEPT ![t] = sync_dir]
      /\ buffer' = buffer /\ held' = held /\ sync_path' = sync_path
      /\ printedFreed' = printedFreed /\ UNCHANGED <<entries, init, strings, sync_dir, readerVars>>
  BY DEF LoadPtr, ProcGoto
<1>3. /\ sync_path' = [sync_path EXCEPT ![t] = sync_path[t]]
      /\ held' = [held EXCEPT ![t] = held[t]]
      /\ buffer' = [u \in Writers |-> buffer'[u]]
  BY <1>1, <1>2, SetToItself DEF ProcDomains
<1>4. /\ sync_dir # 0 /\ sync_dir \in 1 .. Len(strings)
      /\ held[t] = HeldAt("print") /\ printedFreed' \in BOOLEAN
  BY <1>1, <1>2 DEF WriterInv, StringsInv, HeldAt
<1>5. Allowed("print", sync_path[t], sync_dir)
  BY <1>4 DEF Allowed, Points
<1>6. StepTo(t, "print", sync_path[t], sync_dir)
  BY <1>2, <1>3, <1>4 DEF StepTo
<1> QED
  BY <1>5, <1>6, WriterStep

\* The message, of a string that may be freed by now.
LEMMA ShowMessageKeeps ==
  ASSUME ProcInv, NEW t \in Writers, ShowMessage(t)
  PROVE  ProcInv'
<1>1. ProcDomains /\ WriterInv(t)
  BY DEF ProcInv
<1>2. /\ pc[t] = "print" /\ pc' = [pc EXCEPT ![t] = "put"]
      /\ buffer' = buffer /\ held' = held /\ sync_path' = sync_path /\ ptr' = ptr
      /\ UNCHANGED <<entries, init, strings, sync_dir, readerVars>>
  BY DEF ShowMessage, ProcGoto
<1>3. /\ sync_path' = [sync_path EXCEPT ![t] = sync_path[t]] /\ ptr' = [ptr EXCEPT ![t] = ptr[t]]
      /\ held' = [held EXCEPT ![t] = held[t]] /\ buffer' = [u \in Writers |-> buffer'[u]]
  BY <1>1, <1>2, SetToItself DEF ProcDomains
<1>4. printedFreed' \in BOOLEAN
  BY Zenon DEF ShowMessage
<1>5. held[t] = HeldAt("put")
  BY <1>1, <1>2 DEF WriterInv, HeldAt
<1>6. Allowed("put", sync_path[t], ptr[t])
  BY DEF Allowed, Points
<1>7. StepTo(t, "put", sync_path[t], ptr[t])
  BY <1>2, <1>3, <1>4, <1>5 DEF StepTo
<1> QED
  BY <1>6, <1>7, WriterStep

\* kstrdup, kfree and the new binding: the string that was bound is freed, and
\* no other one was not; readers in the middle of the text have seen the new
\* binding from now on.
LEMMA SwapKeeps ==
  ASSUME ProcSound, ProcInv, NEW t \in Writers, Swap(t)
  PROVE  ProcInv'
<1> DEFINE n == Len(strings)
<1>1. ProcDomains /\ StringsInv /\ WriterInv(t) /\ printedFreed \in BOOLEAN /\ EntriesInv
  BY DEF ProcInv
<1>2. /\ pc[t] = "lock" /\ sync_dir' = n + 1 /\ pc' = [pc EXCEPT ![t] = "load"]
      /\ since' = [r \in Readers |-> since[r] \cup {sync_path[t]}]
      /\ entries' = entries /\ init' = init /\ buffer' = buffer /\ held' = held
      /\ sync_path' = sync_path /\ ptr' = ptr /\ printedFreed' = printedFreed
      /\ ppos' = ppos /\ got' = got
  BY DEF Swap, ProcGoto
<1>3. PICK d, R : d = sync_path[t] /\ R = [path : Directory, freed : BOOLEAN]
  OBVIOUS
<1>4. d \in Directory
  BY <1>1, <1>2, <1>3 DEF WriterInv
<1>5. /\ strings \in Seq(R) /\ n \in Nat /\ sync_dir \in 0 .. n
      /\ \A k \in 1 .. n : strings[k] \in R /\ (strings[k].freed <=> k # sync_dir)
  <2>1. strings \in Seq(R) /\ n \in Nat /\ sync_dir \in 0 .. n
    BY <1>1, <1>3 DEF StringsInv
  <2>2. \A k \in 1 .. n : strings[k] \in R
    BY <2>1
  <2>3. \A k \in 1 .. n : (strings[k].freed <=> k # sync_dir)
    BY <1>1 DEF StringsInv
  <2> QED
    BY <2>1, <2>2, <2>3
<1>6. PICK f : f = Replaced
  OBVIOUS
<1>7. ASSUME NEW k \in 1 .. n PROVE f[k] \in R /\ f[k].freed
  <2>1. DOMAIN strings = 1 .. n
    BY <1>5
  <2>2. f[k] = IF k = sync_dir THEN [strings[k] EXCEPT !.freed = TRUE] ELSE strings[k]
    BY <1>6, <2>1 DEF Replaced
  <2>3. CASE k = sync_dir
    <3>1. PICK x : x = strings[k]
      OBVIOUS
    <3>2. x \in [path : Directory, freed : BOOLEAN]
      BY <1>3, <1>5, <3>1
    <3>3. PICK b : b = TRUE
      OBVIOUS
    <3>4. f[k] = [x EXCEPT !.freed = b]
      BY <2>2, <2>3, <3>1, <3>3
    <3>5. [x EXCEPT !.freed = b] = [path |-> x.path, freed |-> b]
      BY <3>2
    <3>6. b \in BOOLEAN /\ b
      BY <3>3, Zenon
    <3>7. [path |-> x.path, freed |-> b] \in [path : Directory, freed : BOOLEAN]
      BY <3>2, <3>6
    <3> QED
      BY <1>3, <3>4, <3>5, <3>6, <3>7
  <2>4. CASE k # sync_dir
    BY <1>5, <2>2, <2>4
  <2> QED
    BY <2>3, <2>4
<1>8. f \in Seq(R) /\ Len(f) = n
  <2>1. f = [k \in 1 .. n |-> f[k]]
    <3>1. DOMAIN strings = 1 .. n
      BY <1>5
    <3> QED
      BY <1>6, <3>1 DEF Replaced
  <2>2. f \in [1 .. n -> R]
    BY <1>7, <2>1
  <2> QED
    BY <1>5, <2>1, <2>2
<1>9. PICK new : new = [path |-> d, freed |-> FALSE]
  OBVIOUS
<1>10. new \in R /\ ~new.freed /\ new.path = d
  BY <1>3, <1>4, <1>9
<1>11. strings' = Append(f, new)
  BY <1>3, <1>6, <1>9 DEF Swap
<1>12. /\ strings' \in Seq(R) /\ Len(strings') = n + 1 /\ strings'[n + 1] = new
       /\ \A k \in 1 .. n : strings'[k] = f[k]
  BY <1>5, <1>8, <1>10, <1>11
<1>13. StringsInv'
  <2>1. ASSUME NEW k \in 1 .. n + 1 PROVE strings'[k].freed <=> k # n + 1
    <3>1. CASE k = n + 1
      BY <1>10, <1>12, <3>1
    <3>2. CASE k # n + 1
      <4>1. k \in 1 .. n
        BY <1>5, <3>2
      <4> QED
        BY <1>7, <1>12, <3>2, <4>1
    <3> QED
      BY <3>1, <3>2
  <2>2. strings' \in Seq([path : Directory, freed : BOOLEAN])
    BY <1>3, <1>12
  <2>3. sync_dir' \in 0 .. Len(strings')
    BY <1>2, <1>5, <1>12
  <2> QED
    BY <1>2, <1>12, <2>1, <2>2, <2>3 DEF StringsInv
<1>14. Bound' = d
  <2>1. sync_dir' # 0
    BY <1>2, <1>5
  <2> QED
    BY <1>2, <1>10, <1>12, <2>1 DEF Bound
<1>15. ASSUME NEW u \in Writers PROVE WriterInv(u)'
  <2>1. WriterInv(u)
    BY DEF ProcInv
  <2>2. pc'[u] = IF u = t THEN "load" ELSE pc[u]
    BY <1>1, <1>2 DEF ProcDomains
  <2>3. sync_dir' # 0 /\ 1 .. Len(strings) \subseteq 1 .. Len(strings')
    BY <1>2, <1>5, <1>12
  <2>4. CASE u = t
    BY <1>2, <2>1, <2>2, <2>3, <2>4 DEF WriterInv, HeldAt, Three, Points
  <2>5. CASE u # t
    BY <1>2, <2>1, <2>2, <2>3, <2>5 DEF WriterInv, HeldAt, Three, Points
  <2> QED
    BY <2>4, <2>5
<1>16. ASSUME NEW r \in Readers PROVE ReaderInv(r)'
  <2>1. ReaderInv(r)
    BY DEF ProcInv
  <2>2. since'[r] = since[r] \cup {d}
    BY <1>2, <1>3
  <2>3. since'[r] \subseteq Directory \cup {NoPath}
    BY <1>4, <2>1, <2>2 DEF ReaderInv
  <2>4. \A i \in 1 .. ppos'[r] :
          \E path \in since'[r] : i <= Len(TextOf(path)) /\ got'[r][i] = TextOf(path)[i]
    BY <1>2, <2>1, <2>2 DEF ReaderInv
  <2> QED
    BY <1>2, <1>14, <2>1, <2>2, <2>3, <2>4 DEF ReaderInv, TextOf, Message
<1>17. ProcDomains' /\ EntriesInv'
  BY <1>1, <1>2 DEF ProcDomains, EntriesInv
<1> QED
  BY <1>1, <1>2, <1>13, <1>15, <1>16, <1>17 DEF ProcInv

\* What a read adds is the text from where the reader was.
LEMMA PieceIs ==
  ASSUME ProcSound, ProcInv, NEW r \in Readers, NEW c \in Nat, Piece(r, c) # <<>>
  PROVE  /\ Piece(r, c) \in Seq(Characters)
         /\ ppos[r] + Len(Piece(r, c)) <= Len(TextOf(Bound))
         /\ \A i \in 1 .. Len(Piece(r, c)) : Piece(r, c)[i] = TextOf(Bound)[ppos[r] + i]
<1>1. PICK text, p : text = TextOf(Bound) /\ p = ppos[r]
  OBVIOUS
<1>2. text \in Seq(Characters) /\ p \in Nat /\ Len(text) \in Nat
  BY <1>1, BoundType DEF ProcInv, ReaderInv
<1>3. PICK last : last = Min({p + c, Len(text)})
  OBVIOUS
<1>4. last \in {p + c, Len(text)}
  <2>1. {p + c, Len(text)} \subseteq Nat /\ {p + c, Len(text)} # {}
    BY <1>2
  <2> QED
    BY <1>3, <2>1, MinIn
<1>5. last <= Len(text) /\ last \in Nat
  <2>1. \A x \in {p + c, Len(text)} : last <= x
    <3>1. \E x \in {p + c, Len(text)} : \A y \in {p + c, Len(text)} : x <= y
      BY <1>2
    <3> QED
      BY <1>3, <3>1 DEF Min
  <2> QED
    BY <1>2, <1>4, <2>1
<1>6. Piece(r, c) = SubSeq(text, p + 1, last)
  BY <1>1, <1>3 DEF Piece
<1>7. PICK piece : piece = SubSeq(text, p + 1, last)
  OBVIOUS
<1>8. p + 1 <= last
  <2>1. ASSUME ~(p + 1 <= last) PROVE FALSE
    <3>1. SubSeq(text, p + 1, last) = <<>>
      BY <1>2, <1>5, <2>1
    <3> QED
      BY <1>6, <3>1
  <2> QED
    BY <2>1
<1>9. /\ piece \in Seq(Characters) /\ Len(piece) = last - p
      /\ \A i \in 1 .. last - p : piece[i] = text[p + i]
  BY <1>2, <1>5, <1>7, <1>8
<1>10. p + Len(piece) <= Len(text)
  BY <1>2, <1>5, <1>9
<1> QED
  BY <1>1, <1>6, <1>7, <1>9, <1>10

\* ramfs_proc_bind_read.
LEMMA BindReadKeeps ==
  ASSUME ProcSound, ProcInv, NEW r \in Readers, NEW c \in Counts, BindRead(r, c)
  PROVE  ProcInv'
<1>1. /\ ProcDomains /\ StringsInv /\ ReaderInv(r) /\ c \in Nat
      /\ printedFreed \in BOOLEAN /\ EntriesInv
  BY DEF ProcInv, ProcSound
<1>2. /\ Piece(r, c) # <<>> /\ entries' = entries /\ init' = init /\ strings' = strings
      /\ sync_dir' = sync_dir /\ pc' = pc /\ buffer' = buffer /\ held' = held
      /\ sync_path' = sync_path /\ ptr' = ptr /\ printedFreed' = printedFreed
  BY DEF BindRead, writerVars
<1>3. PICK piece, text, p, seen, old :
        /\ piece = Piece(r, c) /\ text = TextOf(Bound) /\ p = ppos[r] /\ old = got[r]
        /\ seen = IF ppos[r] = 0 THEN {Bound} ELSE since[r]
  OBVIOUS
<1>4. /\ got' = [got EXCEPT ![r] = old \o piece] /\ ppos' = [ppos EXCEPT ![r] = p + Len(piece)]
      /\ since' = [since EXCEPT ![r] = seen]
  BY <1>3 DEF BindRead
<1>5. /\ piece \in Seq(Characters) /\ p + Len(piece) <= Len(text)
      /\ \A i \in 1 .. Len(piece) : piece[i] = text[p + i]
  BY <1>1, <1>2, <1>3, PieceIs
<1>6. p \in Nat /\ old \in Seq(Characters) /\ Len(old) = p /\ Len(piece) \in Nat
  BY <1>1, <1>3, <1>5 DEF ReaderInv
<1>7. /\ Bound \in Directory \cup {NoPath} /\ text \in Seq(Characters)
      /\ Bound' = Bound /\ StringsInv'
  BY <1>1, <1>2, <1>3, BoundType, BoundSame
<1>8. Bound \in seen /\ seen \subseteq Directory \cup {NoPath}
  BY <1>1, <1>3, <1>7 DEF ReaderInv
<1>9. /\ old \o piece \in Seq(Characters) /\ Len(old \o piece) = p + Len(piece)
      /\ \A i \in 1 .. p : (old \o piece)[i] = old[i]
      /\ \A i \in 1 .. Len(piece) : (old \o piece)[p + i] = piece[i]
  <2>2. old \in Seq(Characters) /\ piece \in Seq(Characters) /\ Len(old) = p
    BY <1>5, <1>6
  <2>3. /\ old \o piece \in Seq(Characters) /\ Len(old \o piece) = Len(old) + Len(piece)
        /\ \A i \in 1 .. Len(old) : (old \o piece)[i] = old[i]
        /\ \A i \in 1 .. Len(piece) : (old \o piece)[Len(old) + i] = piece[i]
    BY <2>2
  <2> QED
    BY <2>2, <2>3, Zenon
<1>10. ASSUME NEW i \in 1 .. p + Len(piece)
       PROVE  \E path \in seen : i <= Len(TextOf(path)) /\ (old \o piece)[i] = TextOf(path)[i]
  <2>1. CASE i \in 1 .. p
    <3>1. seen = since[r]
      BY <1>3, <1>6, <2>1
    <3>2. \E path \in since[r] : i <= Len(TextOf(path)) /\ old[i] = TextOf(path)[i]
      BY <1>1, <1>3, <2>1 DEF ReaderInv
    <3> QED
      BY <1>9, <2>1, <3>1, <3>2
  <2>2. CASE i \notin 1 .. p
    <3>1. PICK j : j = i - p
      OBVIOUS
    <3>2. j \in 1 .. Len(piece) /\ i = p + j
      BY <1>6, <2>2, <3>1
    <3>3. (old \o piece)[i] = text[i]
      BY <1>5, <1>9, <3>2
    <3>4. i <= Len(text)
      <4>1. Len(text) \in Nat
        BY <1>7
      <4> QED
        BY <1>5, <1>6, <4>1
    <3> QED
      BY <1>3, <1>8, <3>3, <3>4
  <2> QED
    BY <2>1, <2>2
<1>11. ASSUME NEW q \in Readers PROVE ReaderInv(q)'
  <2>1. ReaderInv(q)
    BY DEF ProcInv
  <2>2. CASE q = r
    <3>1. got'[q] = old \o piece /\ ppos'[q] = p + Len(piece) /\ since'[q] = seen
      BY <1>1, <1>4, <2>2 DEF ProcDomains
    <3>2. p + Len(piece) \in Nat
      BY <1>6
    <3>3. PICK g : g = old \o piece
      OBVIOUS
    <3>4. /\ g \in Seq(Characters) /\ Len(g) = p + Len(piece)
          /\ \A i \in 1 .. p + Len(piece) :
               \E path \in seen : i <= Len(TextOf(path)) /\ g[i] = TextOf(path)[i]
      BY <1>9, <1>10, <3>3
    <3> QED
      BY <1>7, <1>8, <3>1, <3>2, <3>3, <3>4 DEF ReaderInv, TextOf, Message
  <2>3. CASE q # r
    <3>1. got'[q] = got[q] /\ ppos'[q] = ppos[q] /\ since'[q] = since[q]
      BY <1>1, <1>4, <2>3 DEF ProcDomains
    <3> QED
      BY <1>7, <2>1, <3>1 DEF ReaderInv, TextOf, Message
  <2> QED
    BY <2>2, <2>3
<1>12. \A t \in Writers : WriterInv(t)'
  BY <1>2 DEF ProcInv, WriterInv, HeldAt, Three, Points
<1>13. ProcDomains' /\ EntriesInv'
  BY <1>1, <1>2, <1>4 DEF ProcDomains, EntriesInv
<1> QED
  BY <1>1, <1>2, <1>7, <1>11, <1>12, <1>13 DEF ProcInv

\* The state after boot.
LEMMA ProcInitHolds ==
  ProcInit => ProcInv
<1> SUFFICES ASSUME ProcInit PROVE ProcInv
  OBVIOUS
<1>1. strings = <<>> /\ sync_dir = 0 /\ EntriesInv /\ Bound = NoPath
  BY DEF ProcInit, Bound, EntriesInv
<1>2. StringsInv
  BY <1>1 DEF StringsInv
<1>3. \A t \in Writers : WriterInv(t)
  BY DEF ProcInit, WriterInv, HeldAt, Points
<1>4. \A r \in Readers : ReaderInv(r)
  <2> TAKE r \in Readers
  <2>1. ppos[r] = 0 /\ got[r] = <<>> /\ since[r] = {}
    BY DEF ProcInit
  <2>2. <<>> \in Seq(Characters) /\ Len(<<>>) = 0 /\ 1 .. 0 = {}
    OBVIOUS
  <2> QED
    BY <2>1, <2>2 DEF ReaderInv
<1>5. ProcDomains
  BY DEF ProcInit, ProcDomains
<1>6. printedFreed \in BOOLEAN
  BY Zenon DEF ProcInit
<1> QED
  BY <1>1, <1>2, <1>3, <1>4, <1>5, <1>6 DEF ProcInv

\* The invariant holds throughout, for any writers, readers and lines
\* (ramfs_bind, ramfs_proc_bind_read, ramfs_proc_bind_write).
THEOREM ProcInvariance == ProcSpec => []ProcInv
<1>1. ProcInv /\ [ProcNext]_procVars => ProcInv'
  <2> SUFFICES ASSUME ProcInv, [ProcNext]_procVars PROVE ProcInv'
    OBVIOUS
  <2>1. ASSUME MakeEntry \/ MakeEntryFails \/ RemoveBind \/ RemoveDir PROVE ProcInv'
    <3>1. /\ UNCHANGED <<strings, sync_dir, readerVars>> /\ pc' = pc /\ buffer' = buffer
          /\ held' = held /\ sync_path' = sync_path /\ ptr' = ptr /\ printedFreed' = printedFreed
          /\ ppos' = ppos /\ got' = got /\ since' = since
      BY <2>1 DEF MakeEntry, MakeEntryFails, RemoveBind, RemoveDir, writerVars, readerVars
    <3>2. EntriesInv'
      <4>1. EntriesInv
        BY DEF ProcInv
      <4>2. CASE MakeEntry
        BY <4>1, <4>2 DEF MakeEntry, EntriesInv
      <4>3. CASE MakeEntryFails
        BY <4>1, <4>3 DEF MakeEntryFails, EntriesInv
      <4>4. CASE RemoveBind
        BY <4>1, <4>4 DEF RemoveBind, EntriesInv
      <4>5. CASE RemoveDir
        BY <4>1, <4>5 DEF RemoveDir, EntriesInv
      <4> QED
        BY <2>1, <4>2, <4>3, <4>4, <4>5
    <3>3. StringsInv' /\ \A r \in Readers : ReaderInv(r)'
      BY <3>1, BoundSame, ReadersSame DEF ProcInv
    <3>4. ProcDomains' /\ \A t \in Writers : WriterInv(t)'
      BY <3>1 DEF ProcInv, ProcDomains, WriterInv, HeldAt, Three, Points
    <3> QED
      BY <3>1, <3>2, <3>3, <3>4 DEF ProcInv
  <2>2. ASSUME NEW t \in Writers, NEW text \in Buffers, BindWrite(t, text) PROVE ProcInv'
    BY <2>2, BindWriteKeeps
  <2>3. ASSUME NEW t \in Writers, Kmalloc(t) PROVE ProcInv'
    BY <2>3, KmallocKeeps
  <2>4. ASSUME NEW t \in Writers, KmallocFails(t) PROVE ProcInv'
    BY <2>4, KmallocFailsKeeps
  <2>5. ASSUME NEW t \in Writers,
               \/ CopyFromUser(t) \/ ParseFails(t) \/ LookupFails(t) \/ Lookup(t) \/ CheckDir(t)
               \/ StrdupFails(t) \/ PathPut(t)
        PROVE  ProcInv'
    BY <2>5, PlainStepsKeep
  <2>6. ASSUME NEW t \in Writers, Parse(t) PROVE ProcInv'
    BY <2>6, ParseKeeps
  <2>7. ASSUME NEW t \in Writers, Swap(t) PROVE ProcInv'
    BY <2>7, SwapKeeps, ProcSoundHolds
  <2>8. ASSUME NEW t \in Writers, LoadPtr(t) PROVE ProcInv'
    BY <2>8, LoadPtrKeeps
  <2>9. ASSUME NEW t \in Writers, ShowMessage(t) PROVE ProcInv'
    BY <2>9, ShowMessageKeeps
  <2>10. ASSUME NEW t \in Writers, Out(t) PROVE ProcInv'
    BY <2>10, OutKeeps
  <2>11. ASSUME NEW r \in Readers, NEW c \in Counts, BindRead(r, c) PROVE ProcInv'
    BY <2>11, BindReadKeeps, ProcSoundHolds
  <2>12. CASE UNCHANGED procVars
    <3>1. /\ UNCHANGED <<strings, sync_dir, readerVars>> /\ pc' = pc /\ buffer' = buffer
          /\ held' = held /\ sync_path' = sync_path /\ ptr' = ptr /\ printedFreed' = printedFreed
          /\ ppos' = ppos /\ got' = got /\ since' = since /\ init' = init /\ entries' = entries
      BY <2>12 DEF procVars, writerVars, readerVars
    <3>2. StringsInv' /\ \A r \in Readers : ReaderInv(r)'
      BY <3>1, BoundSame, ReadersSame DEF ProcInv
    <3>3. ProcDomains' /\ \A t \in Writers : WriterInv(t)'
      BY <3>1 DEF ProcInv, ProcDomains, WriterInv, HeldAt, Three, Points
    <3>4. EntriesInv'
      BY <3>1 DEF ProcInv, EntriesInv
    <3> QED
      BY <3>1, <3>2, <3>3, <3>4 DEF ProcInv
  <2> QED
    BY <2>1, <2>2, <2>3, <2>4, <2>5, <2>6, <2>7, <2>8, <2>9, <2>10, <2>11, <2>12 DEF ProcNext
<1> QED
  BY <1>1, ProcInitHolds, PTL DEF ProcSpec

\* The variables of the proc interface keep their types.
THEOREM ProcTypesAreKept == ProcSpec => []ProcTypeOK
<1>1. ProcInv => ProcTypeOK
  <2> SUFFICES ASSUME ProcInv PROVE ProcTypeOK
    OBVIOUS
  <2>1. pc \in [Writers -> Points]
    BY DEF ProcInv, ProcDomains, WriterInv
  <2>2. held \in [Writers -> SUBSET {"kbuf", "ramfs_path", "sync_path", "path"}]
    <3>1. held = [t \in Writers |-> held[t]]
      BY DEF ProcInv, ProcDomains
    <3>2. \A t \in Writers : held[t] \in SUBSET {"kbuf", "ramfs_path", "sync_path", "path"}
      BY DEF ProcInv, WriterInv, HeldAt, Three
    <3> QED
      BY <3>1, <3>2
  <2>3. ppos \in [Readers -> Nat]
    <3>1. ppos = [r \in Readers |-> ppos[r]]
      BY DEF ProcInv, ProcDomains
    <3>2. \A r \in Readers : ppos[r] \in Nat
      BY DEF ProcInv, ReaderInv
    <3> QED
      BY <3>1, <3>2
  <2>4. /\ entries \subseteq {"dir", "bind", "sync"}
        /\ init \in {"dir", "bind", "sync", "remove_bind", "remove_dir", "up"}
    BY DEF ProcInv, EntriesInv
  <2>6. printedFreed \in BOOLEAN
    BY DEF ProcInv
  <2>5. sync_dir \in 0 .. Len(strings)
    BY DEF ProcInv, StringsInv
  <2> QED
    BY <2>1, <2>2, <2>3, <2>4, <2>5, <2>6 DEF ProcTypeOK, Points
<1> QED
  BY <1>1, ProcInvariance, PTL

\* For any writers and readers: the string that is bound is the only one that
\* is not freed, a call that is over holds nothing wherever it failed, the
\* interface is there whole or not at all, and a reader is given what was
\* bound while it read (ramfs_bind, ramfs_proc_bind_read,
\* ramfs_proc_bind_write, ramfs_init_proc).
THEOREM BindingIsExact == ProcSpec => []BindExact
<1>1. ProcInv => BindExact
  <2> SUFFICES ASSUME ProcInv PROVE BindExact
    OBVIOUS
  <2>1. StringsInv
    BY DEF ProcInv
  <2>2. {k \in DOMAIN strings : ~strings[k].freed} = {sync_dir} \ {0}
    <3>1. DOMAIN strings = 1 .. Len(strings) /\ Len(strings) \in Nat
      <4>1. PICK R : strings \in Seq(R)
        BY <2>1 DEF StringsInv
      <4> QED
        BY <4>1
    <3>2. /\ sync_dir \in 0 .. Len(strings)
          /\ \A k \in 1 .. Len(strings) : strings[k].freed <=> k # sync_dir
      BY <2>1 DEF StringsInv
    <3>3. ASSUME NEW k
          PROVE  k \in {j \in DOMAIN strings : ~strings[j].freed} <=> k \in {sync_dir} \ {0}
      BY <3>1, <3>2
    <3> QED
      BY <3>3
  <2>3. Bound # NoPath => Bound \in Directory
    BY <2>1, BoundType, ProcSoundHolds
  <2>4. \A t \in Writers : pc[t] = "idle" => held[t] = {}
    BY DEF ProcInv, WriterInv, HeldAt
  <2>5. ASSUME NEW r \in Readers, NEW i \in DOMAIN got[r]
        PROVE  \E path \in since[r] : i <= Len(TextOf(path)) /\ got[r][i] = TextOf(path)[i]
    <3>1. ReaderInv(r)
      BY DEF ProcInv
    <3>2. i \in 1 .. ppos[r]
      BY <3>1 DEF ReaderInv
    <3> QED
      BY <3>1, <3>2 DEF ReaderInv
  <2>6. init = "up" => entries \in {{}, {"dir", "bind", "sync"}}
    BY DEF ProcInv, EntriesInv
  <2> QED
    BY <2>2, <2>3, <2>4, <2>5, <2>6 DEF BindExact
<1> QED
  BY <1>1, ProcInvariance, PTL

-----------------------------------------------------------------------------
(***************************************************************************)
(* The NCCL benchmark with two GPUs, for any number of sizes.  What is in  *)
(* the buffers says whether both devices took part, at each step of main   *)
(* and of the threads.                                                     *)
(***************************************************************************)
\* The thread of d has done its collective.
Through(d) == joined = Devs /\ (thread[d] = "done" \/ mainAt \in {"copy", "judge"})

\* The threads run between start and join; one that NCCL refused is not waited
\* for, one that it took is done only with the other.
RunInv ==
  /\ mainAt \notin {"start", "join"} => \A d \in Devs : thread[d] = "none"
  /\ mainAt = "start" => thread[1] = "none"
  /\ mainAt \in {"start", "join"} =>
       \A d \in Devs : /\ d \in joined => thread[d] \in {"sync", "done"}
                       /\ thread[d] = "done" => d \notin joined \/ joined = Devs
  /\ mainAt = "join" => \A d \in Devs : thread[d] # "none"
  /\ mainAt \in {"copy", "judge", "init", "free"} => joined \in {{}, Devs}
  /\ mainAt = "alloc" => joined = {}

\* What is in the buffers.
BuffInv ==
  /\ mainAt \in {"start", "join", "copy", "judge"} /\ op = "broadcast" =>
       /\ sendbuff[0] = Random /\ sendbuff[1] = IF Through(1) THEN Random ELSE 0
       /\ \A d \in Devs : recvbuff[d] = 0
  /\ mainAt \in {"start", "join", "copy", "judge"} /\ op = "sum" =>
       \A d \in Devs : sendbuff[d] = Share(d) /\ recvbuff[d] = IF Through(d) THEN 3 ELSE 0
  /\ mainAt = "init" => \A d \in Devs : recvbuff[d] = 0
  /\ mainAt = "judge" => hostbuff = IF op = "broadcast" THEN sendbuff ELSE recvbuff

\* What main says.
SaidInv ==
  /\ mainAt \in {"start", "join", "copy", "judge"} => said = "nothing"
  /\ mainAt \in {"init", "free"} => said = IF joined = Devs THEN "success" ELSE "failure"
  /\ mainAt = "init" => op = "broadcast"

\* The inductive invariant.
ThreadsInv == ThreadsTypeOK /\ RunInv /\ BuffInv /\ SaidInv

\* 1 and 2 are 3.
LEMMA SharesAdd == ExpectedSum = 3 /\ Share(0) = 1 /\ Share(1) = 2
BY DEF ExpectedSum, Total, Share, Devs

\* main starts with no thread and nothing said.
LEMMA ThreadsInitHolds == ThreadsInit => ThreadsInv
<1> SUFFICES ASSUME ThreadsInit PROVE ThreadsInv
  OBVIOUS
<1>1. mainAt \in {"alloc", "return"}
  BY DEF ThreadsInit
<1>2. ThreadsTypeOK
  BY <1>1 DEF ThreadsInit, ThreadsTypeOK, Devs
<1> QED
  BY <1>1, <1>2 DEF ThreadsInit, ThreadsInv, RunInv, BuffInv, SaidInv, Devs

\* Steps of main between the collectives.
LEMMA AllocKeeps == ASSUME ThreadsInv, Alloc PROVE ThreadsInv'
<1>1. ThreadsTypeOK /\ RunInv
  BY DEF ThreadsInv
<1>2. /\ mainAt = "alloc" /\ mainAt' = "start" /\ op' = "broadcast" /\ said' = "nothing"
      /\ size' = size /\ thread' = thread /\ joined' = joined
      /\ hostbuff' = [d \in Devs |-> IF d = 0 THEN Random ELSE 0] /\ sendbuff' = hostbuff'
      /\ recvbuff' = [d \in Devs |-> 0]
  BY DEF Alloc
<1>3. joined = {} /\ \A d \in Devs : thread[d] = "none"
  BY <1>1, <1>2 DEF RunInv
<1>4. /\ sendbuff'[0] = Random /\ sendbuff'[1] = 0 /\ \A d \in Devs : recvbuff'[d] = 0
      /\ sendbuff' \in [Devs -> Nat] /\ recvbuff' \in [Devs -> Nat] /\ hostbuff' \in [Devs -> Nat]
  BY <1>2 DEF Devs, Random
<1>5. ThreadsTypeOK'
  BY <1>1, <1>2, <1>4 DEF ThreadsTypeOK
<1>6. RunInv'
  BY <1>2, <1>3 DEF RunInv, Devs
<1>7. BuffInv'
  BY <1>2, <1>3, <1>4 DEF BuffInv, Through, Devs
<1>8. SaidInv'
  BY <1>2 DEF SaidInv
<1> QED
  BY <1>5, <1>6, <1>7, <1>8 DEF ThreadsInv

\* Between broadcast and sum the send buffers are filled again.
LEMMA ReinitKeeps == ASSUME ThreadsInv, Reinit PROVE ThreadsInv'
<1>1. ThreadsTypeOK /\ RunInv /\ BuffInv
  BY DEF ThreadsInv
<1>2. /\ mainAt = "init" /\ mainAt' = "start" /\ op' = "sum" /\ said' = "nothing" /\ joined' = {}
      /\ size' = size /\ thread' = thread /\ recvbuff' = recvbuff
      /\ hostbuff' = [d \in Devs |-> Share(d)] /\ sendbuff' = hostbuff'
  BY DEF Reinit
<1>3. \A d \in Devs : thread[d] = "none" /\ recvbuff[d] = 0
  BY <1>1, <1>2 DEF RunInv, BuffInv
<1>4. /\ \A d \in Devs : sendbuff'[d] = Share(d)
      /\ sendbuff' \in [Devs -> Nat] /\ hostbuff' \in [Devs -> Nat]
  BY <1>2 DEF Devs, Share
<1>5. ThreadsTypeOK'
  BY <1>1, <1>2, <1>4 DEF ThreadsTypeOK
<1>6. RunInv'
  BY <1>2, <1>3 DEF RunInv, Devs
<1>7. BuffInv'
  BY <1>2, <1>3, <1>4 DEF BuffInv, Through, Devs
<1>8. SaidInv'
  BY <1>2 DEF SaidInv
<1> QED
  BY <1>5, <1>6, <1>7, <1>8 DEF ThreadsInv

\* pthread_join: each thread is done, with the other or refused.
LEMMA JoinKeeps == ASSUME ThreadsInv, Join PROVE ThreadsInv'
<1>1. ThreadsTypeOK /\ RunInv /\ BuffInv /\ SaidInv
  BY DEF ThreadsInv
<1>2. /\ mainAt = "join" /\ mainAt' = "copy" /\ \A d \in Devs : thread[d] = "done"
      /\ thread' = [d \in Devs |-> "none"] /\ op' = op /\ joined' = joined /\ said' = said
      /\ sendbuff' = sendbuff /\ recvbuff' = recvbuff /\ hostbuff' = hostbuff
  BY DEF Join, deviceVars
<1>3. joined \in {{}, Devs}
  BY <1>1, <1>2 DEF RunInv, ThreadsTypeOK, Devs
<1>4. \A d \in Devs : Through(d)' <=> Through(d)
  BY <1>2 DEF Through
<1>5. ThreadsTypeOK'
  BY <1>1, <1>2 DEF ThreadsTypeOK
<1>6. RunInv'
  BY <1>2, <1>3 DEF RunInv
<1>7. BuffInv'
  BY <1>1, <1>2, <1>4 DEF BuffInv, Devs, Share
<1>8. SaidInv'
  BY <1>1, <1>2 DEF SaidInv
<1> QED
  BY <1>5, <1>6, <1>7, <1>8 DEF ThreadsInv

\* A join of a thread that was never made: its device took no part, and then
\* neither did the other.
LEMMA JoinUnmadeKeeps == ASSUME ThreadsInv, JoinUnmade PROVE ThreadsInv'
<1>1. ThreadsTypeOK /\ RunInv /\ BuffInv /\ SaidInv
  BY DEF ThreadsInv
<1>2. /\ mainAt = "join" /\ mainAt' = "copy" /\ \A d \in Devs : thread[d] \in {"done", "unmade"}
      /\ thread' = [d \in Devs |-> "none"] /\ op' = op /\ joined' = joined /\ said' = said
      /\ sendbuff' = sendbuff /\ recvbuff' = recvbuff /\ hostbuff' = hostbuff
      /\ \E d \in Devs : thread[d] = "unmade"
  BY DEF JoinUnmade, deviceVars
<1>3. joined = {} /\ joined # Devs
  BY <1>1, <1>2 DEF RunInv, ThreadsTypeOK, Devs
<1>4. \A d \in Devs : ~Through(d)' /\ ~Through(d)
  BY <1>2, <1>3 DEF Through
<1>5. ThreadsTypeOK'
  BY <1>1, <1>2 DEF ThreadsTypeOK
<1>6. RunInv'
  BY <1>2, <1>3 DEF RunInv
<1>7. BuffInv'
  BY <1>1, <1>2, <1>4 DEF BuffInv, Devs, Share
<1>8. SaidInv'
  BY <1>1, <1>2 DEF SaidInv
<1> QED
  BY <1>5, <1>6, <1>7, <1>8 DEF ThreadsInv

\* The buffer of the collective is copied to the host.
LEMMA CopyBackKeeps == ASSUME ThreadsInv, CopyBack PROVE ThreadsInv'
<1>1. ThreadsTypeOK /\ RunInv /\ BuffInv /\ SaidInv
  BY DEF ThreadsInv
<1>2. /\ mainAt = "copy" /\ mainAt' = "judge" /\ thread' = thread /\ op' = op
      /\ joined' = joined /\ said' = said /\ sendbuff' = sendbuff /\ recvbuff' = recvbuff
      /\ hostbuff' = IF op = "broadcast" THEN sendbuff ELSE recvbuff
  BY DEF CopyBack
<1>3. \A d \in Devs : Through(d)' <=> Through(d)
  BY <1>2 DEF Through
<1>4. ThreadsTypeOK'
  BY <1>1, <1>2 DEF ThreadsTypeOK
<1>5. RunInv'
  BY <1>1, <1>2 DEF RunInv
<1>6. BuffInv'
  BY <1>1, <1>2, <1>3 DEF BuffInv, Devs, Share
<1>7. SaidInv'
  BY <1>1, <1>2 DEF SaidInv
<1> QED
  BY <1>4, <1>5, <1>6, <1>7 DEF ThreadsInv

\* The verdict: the buffers are right exactly if both devices took part.
LEMMA JudgeKeeps == ASSUME ThreadsInv, Judge PROVE ThreadsInv'
<1>1. ThreadsTypeOK /\ RunInv /\ BuffInv /\ SaidInv
  BY DEF ThreadsInv
<1>2. /\ mainAt = "judge" /\ mainAt' = IF op = "broadcast" THEN "init" ELSE "free"
      /\ thread' = thread /\ op' = op /\ joined' = joined
      /\ sendbuff' = sendbuff /\ recvbuff' = recvbuff /\ hostbuff' = hostbuff
  BY DEF Judge, deviceVars
<1>3. joined \in {{}, Devs} /\ \A d \in Devs : Through(d) <=> joined = Devs
  BY <1>1, <1>2 DEF RunInv, Through
<1>4. op = "broadcast" => (\A d \in Devs : hostbuff[d] = hostbuff[0] <=> joined = Devs \/ d = 0)
  BY <1>1, <1>2, <1>3 DEF BuffInv, Devs, Random
<1>5. op = "sum" => \A d \in Devs : hostbuff[d] = IF joined = Devs THEN 3 ELSE 0
  BY <1>1, <1>2, <1>3 DEF BuffInv
<1>6. said' = IF joined = Devs THEN "success" ELSE "failure"
  <2>1. CASE op = "broadcast"
    <3>1. said' = IF \A d \in Devs : hostbuff[d] = hostbuff[0] THEN "success" ELSE "failure"
      BY <2>1 DEF Judge
    <3>2. (\A d \in Devs : hostbuff[d] = hostbuff[0]) <=> joined = Devs
      BY <1>4, <2>1 DEF Devs
    <3> QED
      BY <3>1, <3>2
  <2>2. CASE op = "sum"
    <3>1. said' = IF \A d \in Devs : hostbuff[d] = ExpectedSum THEN "success" ELSE "failure"
      BY <2>2 DEF Judge
    <3>2. (\A d \in Devs : hostbuff[d] = ExpectedSum) <=> joined = Devs
      BY <1>5, <2>2, SharesAdd DEF Devs
    <3> QED
      BY <3>1, <3>2
  <2> QED
    BY <1>1, <2>1, <2>2 DEF ThreadsTypeOK
<1>7. ThreadsTypeOK'
  BY <1>1, <1>2, <1>6 DEF ThreadsTypeOK
<1>8. RunInv'
  BY <1>1, <1>2, <1>3 DEF RunInv
<1>9. BuffInv'
  BY <1>1, <1>2 DEF BuffInv
<1>10. SaidInv'
  BY <1>1, <1>2, <1>6 DEF SaidInv, ThreadsTypeOK
<1> QED
  BY <1>7, <1>8, <1>9, <1>10 DEF ThreadsInv

\* The buffers of a size are freed.
LEMMA FreeBuffersKeeps == ASSUME ThreadsInv, FreeBuffers PROVE ThreadsInv'
<1>1. ThreadsTypeOK /\ RunInv
  BY DEF ThreadsInv
<1>2. /\ mainAt = "free" /\ mainAt' \in {"alloc", "return"} /\ joined' = {}
      /\ thread' = thread /\ op' = op /\ said' = said
      /\ sendbuff' = sendbuff /\ recvbuff' = recvbuff /\ hostbuff' = hostbuff
  BY DEF FreeBuffers, deviceVars
<1>3. ThreadsTypeOK'
  BY <1>1, <1>2 DEF ThreadsTypeOK
<1> QED
  BY <1>1, <1>2, <1>3 DEF ThreadsInv, RunInv, BuffInv, SaidInv

\* exit ends the threads too.
LEMMA ThreadsCheckFailsKeeps ==
  ASSUME ThreadsInv, ThreadsCheckFails \/ JoinCrashes
  PROVE  ThreadsInv'
<1>1. ThreadsTypeOK
  BY DEF ThreadsInv
<1>2. /\ mainAt' = "exited" /\ joined' = joined /\ thread' = [d \in Devs |-> "none"]
      /\ op' = op /\ said' = said
      /\ sendbuff' = sendbuff /\ recvbuff' = recvbuff /\ hostbuff' = hostbuff
  BY DEF ThreadsCheckFails, JoinCrashes, deviceVars
<1>3. ThreadsTypeOK'
  BY <1>1, <1>2 DEF ThreadsTypeOK
<1> QED
  BY <1>1, <1>2, <1>3 DEF ThreadsInv, RunInv, BuffInv, SaidInv

-----------------------------------------------------------------------------
\* The start of a thread, or its failure.
LEMMA StartKeeps ==
  ASSUME ThreadsInv, NEW d \in Devs, Start(d) \/ StartFails(d)
  PROVE  ThreadsInv'
<1>1. ThreadsTypeOK /\ RunInv /\ BuffInv /\ SaidInv
  BY DEF ThreadsInv
<1>2. /\ mainAt = "start" /\ thread[d] = "none" /\ thread'[d] \in {"call", "unmade"}
      /\ thread' = [thread EXCEPT ![d] = thread'[d]]
      /\ mainAt' = IF d = 1 THEN "join" ELSE "start"
      /\ op' = op /\ joined' = joined /\ said' = said
      /\ sendbuff' = sendbuff /\ recvbuff' = recvbuff /\ hostbuff' = hostbuff
      /\ d = 1 => thread[0] # "none"
  BY <1>1 DEF Start, StartFails, deviceVars, Devs, ThreadsTypeOK
<1>3. d \notin joined /\ joined # Devs
  BY <1>1, <1>2 DEF RunInv
<1>4. ThreadsTypeOK'
  BY <1>1, <1>2 DEF ThreadsTypeOK
<1>5. RunInv'
  <2>1. d = 0 \/ d = 1
    BY DEF Devs
  <2>2. CASE d = 0
    BY <1>1, <1>2, <1>3, <2>2 DEF RunInv, ThreadsTypeOK, Devs
  <2>3. CASE d = 1
    BY <1>1, <1>2, <1>3, <2>3 DEF RunInv, ThreadsTypeOK, Devs
  <2> QED
    BY <2>1, <2>2, <2>3
<1>6. BuffInv'
  <2>1. \A e \in Devs : ~Through(e) /\ ~Through(e)'
    BY <1>2, <1>3 DEF Through
  <2> QED
    BY <1>1, <1>2, <2>1 DEF BuffInv, Devs, Share
<1>7. SaidInv'
  BY <1>1, <1>2 DEF SaidInv
<1> QED
  BY <1>4, <1>5, <1>6, <1>7 DEF ThreadsInv

\* A thread calls NCCL, which takes the device or refuses it.
LEMMA ThreadCallKeeps ==
  ASSUME ThreadsInv, NEW d \in Devs, NEW accepted \in BOOLEAN, ThreadCall(d, accepted)
  PROVE  ThreadsInv'
<1>1. ThreadsTypeOK /\ RunInv /\ BuffInv /\ SaidInv
  BY DEF ThreadsInv
<1>2. /\ thread[d] = "call" /\ thread' = [thread EXCEPT ![d] = "sync"]
      /\ joined' \in {joined, joined \cup {d}} /\ mainAt' = mainAt /\ op' = op /\ said' = said
      /\ sendbuff' = sendbuff /\ recvbuff' = recvbuff /\ hostbuff' = hostbuff
  BY DEF ThreadCall, deviceVars
<1>3. mainAt \in {"start", "join"} /\ d \notin joined /\ joined # Devs
  BY <1>1, <1>2 DEF RunInv
<1>4. ThreadsTypeOK'
  BY <1>1, <1>2 DEF ThreadsTypeOK
<1>5. RunInv'
  <2>1. d = 0 \/ d = 1
    BY DEF Devs
  <2>2. CASE d = 0
    BY <1>1, <1>2, <1>3, <2>2 DEF RunInv, ThreadsTypeOK, Devs
  <2>3. CASE d = 1
    BY <1>1, <1>2, <1>3, <2>3 DEF RunInv, ThreadsTypeOK, Devs
  <2> QED
    BY <2>1, <2>2, <2>3
<1>6. BuffInv'
  <2>1. \A e \in Devs : ~Through(e) /\ ~Through(e)'
    <3>1. ASSUME NEW e \in Devs, Through(e)' PROVE FALSE
      <4>1. joined' = Devs /\ thread'[e] = "done"
        BY <1>2, <1>3, <3>1 DEF Through
      <4>2. e # d /\ thread[e] = "done"
        BY <1>1, <1>2, <4>1 DEF ThreadsTypeOK
      <4>3. e \notin joined
        BY <1>1, <1>3, <4>2 DEF RunInv
      <4> QED
        BY <1>2, <4>1, <4>2, <4>3
    <3> QED
      BY <1>3, <3>1 DEF Through
  <2> QED
    BY <1>1, <1>2, <1>3, <2>1 DEF BuffInv, Devs, Share
<1>7. SaidInv'
  BY <1>1, <1>2, <1>3 DEF SaidInv
<1> QED
  BY <1>4, <1>5, <1>6, <1>7 DEF ThreadsInv

\* The thread that NCCL refused has nothing to wait for.
LEMMA SyncNothingKeeps == ASSUME ThreadsInv, NEW d \in Devs, SyncNothing(d) PROVE ThreadsInv'
<1>1. ThreadsTypeOK /\ RunInv /\ BuffInv /\ SaidInv
  BY DEF ThreadsInv
<1>2. /\ thread[d] = "sync" /\ thread' = [thread EXCEPT ![d] = "done"] /\ d \notin joined
      /\ joined' = joined /\ mainAt' = mainAt /\ op' = op /\ said' = said
      /\ sendbuff' = sendbuff /\ recvbuff' = recvbuff /\ hostbuff' = hostbuff
  BY DEF SyncNothing, deviceVars
<1>3. mainAt \in {"start", "join"} /\ joined # Devs
  BY <1>1, <1>2 DEF RunInv
<1>4. ThreadsTypeOK'
  BY <1>1, <1>2 DEF ThreadsTypeOK
<1>5. RunInv'
  <2>1. d = 0 \/ d = 1
    BY DEF Devs
  <2>2. CASE d = 0
    BY <1>1, <1>2, <1>3, <2>2 DEF RunInv, ThreadsTypeOK, Devs
  <2>3. CASE d = 1
    BY <1>1, <1>2, <1>3, <2>3 DEF RunInv, ThreadsTypeOK, Devs
  <2> QED
    BY <2>1, <2>2, <2>3
<1>6. BuffInv'
  <2>1. \A e \in Devs : ~Through(e) /\ ~Through(e)'
    BY <1>2, <1>3 DEF Through
  <2> QED
    BY <1>1, <1>2, <1>3, <2>1 DEF BuffInv, Devs, Share
<1>7. SaidInv'
  BY <1>1, <1>2, <1>3 DEF SaidInv
<1> QED
  BY <1>4, <1>5, <1>6, <1>7 DEF ThreadsInv

\* The collective: sendbuff of device 0 stays as it is, so the other thread
\* may be done before or after this one.
LEMMA SyncKeeps == ASSUME ThreadsInv, NEW d \in Devs, Sync(d) PROVE ThreadsInv'
<1>1. ThreadsTypeOK /\ RunInv /\ BuffInv /\ SaidInv
  BY DEF ThreadsInv
<1>2. /\ thread[d] = "sync" /\ thread' = [thread EXCEPT ![d] = "done"] /\ joined = Devs
      /\ joined' = joined /\ mainAt' = mainAt /\ op' = op /\ said' = said /\ hostbuff' = hostbuff
  BY DEF Sync
<1>3. mainAt \in {"start", "join"}
  BY <1>1, <1>2 DEF RunInv
<1>4. CASE op = "broadcast"
  <2>1. sendbuff' = [sendbuff EXCEPT ![d] = sendbuff[0]] /\ recvbuff' = recvbuff
    BY <1>4 DEF Sync
  <2>2. ThreadsTypeOK'
    BY <1>1, <1>2, <2>1 DEF ThreadsTypeOK, Devs
  <2>3. BuffInv'
    <3>1. sendbuff[0] = Random /\ sendbuff[1] = IF Through(1) THEN Random ELSE 0
      BY <1>1, <1>3, <1>4 DEF BuffInv
    <3>2. Through(1)' <=> Through(1) \/ d = 1
      BY <1>1, <1>2, <1>3 DEF Through, ThreadsTypeOK, Devs
    <3>3. sendbuff'[0] = Random /\ sendbuff'[1] = IF Through(1)' THEN Random ELSE 0
      BY <1>1, <2>1, <3>1, <3>2 DEF ThreadsTypeOK, Devs
    <3> QED
      BY <1>1, <1>2, <1>3, <1>4, <2>1, <3>3 DEF BuffInv
  <2>4. RunInv'
    BY <1>1, <1>2, <1>3 DEF RunInv, ThreadsTypeOK, Devs
  <2> QED
    BY <1>1, <1>2, <1>3, <2>2, <2>3, <2>4 DEF ThreadsInv, SaidInv
<1>5. CASE op = "sum"
  <2>1. \A e \in Devs : sendbuff[e] = Share(e) /\ recvbuff[e] = IF Through(e) THEN 3 ELSE 0
    BY <1>1, <1>3, <1>5 DEF BuffInv
  <2>2. Total(sendbuff) = 3
    BY <2>1, SharesAdd DEF Total, Devs
  <2>3. recvbuff' = [recvbuff EXCEPT ![d] = 3] /\ sendbuff' = sendbuff
    BY <1>5, <2>2 DEF Sync
  <2>4. ThreadsTypeOK'
    BY <1>1, <1>2, <2>3 DEF ThreadsTypeOK
  <2>5. BuffInv'
    <3>1. \A e \in Devs : Through(e)' <=> Through(e) \/ e = d
      BY <1>1, <1>2, <1>3 DEF Through, ThreadsTypeOK, Devs
    <3>2. \A e \in Devs : recvbuff'[e] = IF Through(e)' THEN 3 ELSE 0
      BY <1>1, <2>1, <2>3, <3>1 DEF ThreadsTypeOK
    <3> QED
      BY <1>2, <1>3, <1>5, <2>1, <2>3, <3>2 DEF BuffInv, Share
  <2>6. RunInv'
    BY <1>1, <1>2, <1>3 DEF RunInv, ThreadsTypeOK, Devs
  <2> QED
    BY <1>1, <1>2, <1>3, <2>4, <2>5, <2>6 DEF ThreadsInv, SaidInv
<1> QED
  BY <1>1, <1>4, <1>5 DEF ThreadsTypeOK

-----------------------------------------------------------------------------
\* The invariant holds throughout, for any number of sizes (main and
\* nccl_thread_func of nccl.cu).
THEOREM ThreadsInvariance == ThreadsSpec => []ThreadsInv
<1>1. ThreadsInv /\ [ThreadsNext]_threadsVars => ThreadsInv'
  <2> SUFFICES ASSUME ThreadsInv, [ThreadsNext]_threadsVars PROVE ThreadsInv'
    OBVIOUS
  <2>1. CASE UNCHANGED threadsVars
    <3>1. \A d \in Devs : Through(d)' <=> Through(d)
      BY <2>1 DEF threadsVars, Through
    <3>2. BuffInv'
      BY <2>1, <3>1 DEF threadsVars, deviceVars, ThreadsInv, BuffInv, Devs, Share
    <3> QED
      BY <2>1, <3>2 DEF threadsVars, deviceVars, ThreadsInv, ThreadsTypeOK, RunInv, SaidInv
  <2> QED
    BY <2>1, AllocKeeps, JoinKeeps, CopyBackKeeps, JudgeKeeps, ReinitKeeps, FreeBuffersKeeps,
       StartKeeps, SyncKeeps, SyncNothingKeeps, ThreadCallKeeps, ThreadsCheckFailsKeeps,
       JoinUnmadeKeeps
       DEF ThreadsNext, ThreadsWork
<1> QED
  BY <1>1, ThreadsInitHolds, PTL DEF ThreadsSpec

\* For any number of sizes: main says success exactly when both devices took
\* part in the collective just run, though nccl_thread_func drops its result
\* and main that of pthread_create.
THEOREM VerdictsAreHonest == ThreadsSpec => []VerdictHonest
<1>1. ThreadsInv => VerdictHonest
  BY DEF ThreadsInv, ThreadsTypeOK, RunInv, SaidInv, VerdictHonest
<1> QED
  BY <1>1, ThreadsInvariance, PTL

\* The variables of main and of its threads keep their types.
THEOREM ThreadsTypesAreKept == ThreadsSpec => []ThreadsTypeOK
<1>1. ThreadsInv => ThreadsTypeOK
  BY DEF ThreadsInv
<1> QED
  BY <1>1, ThreadsInvariance, PTL
=============================================================================
