---------------------------- MODULE SpaceProofs -----------------------------
(***************************************************************************)
(* The address space of a process and the areas of the vDSO in it.  The    *)
(* two are proved apart, each for every value of the constants of its      *)
(* module.                                                                 *)
(***************************************************************************)
EXTENDS AddressSpace, VdsoTask, FiniteSetTheorems, TLAPS

-----------------------------------------------------------------------------
(***************************************************************************)
(* Address spaces, for any number of processes, mms, files and areas.  The *)
(* invariant has a part for each mm, what its two counters count and what  *)
(* is left in it when nobody uses it; a part for the pages; a part for     *)
(* each file, whose counters are those of the exe_files and of the calls   *)
(* on their way; and a part for each process, what it holds at which point *)
(* of a call and, in dup_mmap, that nobody else sees what it builds.       *)
(***************************************************************************)

\* A condition that holds counts one.
One(b) == IF b THEN 1 ELSE 0

\* How many of S the function f maps to x.
Count(S, f, x) == Cardinality({s \in S : f[s] = x})

\* The points of a call.
Dup == {"dup_take", "dup_deny", "dup_area"}
Building == Dup \cup {"dup_lock"}
Wanting == {"replace_take", "replace_check", "replace_deny", "replace_xchg"}
SpacePoints == {"none", "user", "exited", "put", "replace_allow"} \cup Building \cup Wanting

\* The references that mm_users counts, and whether they hold an mm_count.
UserRefs(m) == Count(Procs, mm, m) + Count(Procs, pin, m) + Count(Procs, new, m)
InUse(m) == users[m] > 0 \/ <<"mmput", m>> \in work

\* All that is said of one mm.
MmInv(m) ==
  /\ users[m] = UserRefs(m)
  /\ count[m] = One(InUse(m)) + Count(Procs, lazy, m) + One(m \in oom)
  /\ <<"mmput", m>> \in work => users[m] = 0
  /\ <<"mmdrop", m>> \in work => count[m] = 0
  /\ ~InUse(m) => areas[m] = {} /\ exe[m] = NoFile

\* The pages that are charged, each with its mm and its area.
Linked == UNION {{m} \X ChargedPages(areas[m]) : m \in Mms}
PagesInv == committed = Cardinality(Linked)

\* The file a call has a reference to, and the file it denies to writers.
HeldFile(p) ==
  CASE mmPc[p] = "replace_xchg" -> want[p]
    [] mmPc[p] \in {"dup_deny", "replace_check", "replace_allow"} -> old[p]
    [] OTHER -> NoFile
DeniedFile(p) ==
  CASE mmPc[p] = "replace_xchg" -> want[p]
    [] mmPc[p] = "replace_allow" -> old[p]
    [] OTHER -> NoFile
Holders == [p \in Procs |-> HeldFile(p)]
Deniers == [p \in Procs |-> DeniedFile(p)]
DenyRefs(f) == Count(Mms, exe, f) + Count(Procs, Deniers, f)

\* All that is said of one file.  Beside the executables and the calls,
\* whoever opened it has a reference; nobody has Exe0 open.
FileInv(f) ==
  /\ fileRefs[f] = One(f # Exe0) + Count(Mms, exe, f) + Count(Procs, Holders, f)
  /\ DenyRefs(f) > 0 => writeCount[f] = -DenyRefs(f)
  /\ DenyRefs(f) = 0 => writeCount[f] \in {0, 1}

\* The executable that dup_mmap has found is still that of the mm, or was
\* replaced by a thread that waits for the lock before it releases it.
Guarded(p) ==
  \/ old[p] = NoFile
  \/ old[p] = exe[mm[p]]
  \/ \E q \in Procs : mmPc[q] = "replace_allow" /\ mm[q] = mm[p] /\ old[q] = old[p]

\* What p holds at which point.
PointInv(p) ==
  /\ mmPc[p] \in {"none", "exited"} => mm[p] = NoMm /\ pin[p] = NoMm
  /\ mmPc[p] \notin {"none", "exited"} => mm[p] \in Mms
  /\ mmPc[p] = "exited" => lazy[p] \in Mms
  /\ mmPc[p] # "exited" => lazy[p] = NoMm
  /\ mmPc[p] \in Building \cup {"put"} => new[p] \in Mms
  /\ mmPc[p] \notin Building \cup {"put"} => new[p] = NoMm
  /\ mmPc[p] \in Wanting => want[p] \in Files
  /\ mmPc[p] \in Dup => mm[p] \in locked
  /\ mmPc[p] \in {"dup_lock", "dup_take", "dup_deny"} =>
       areas[new[p]] = {} /\ exe[new[p]] = NoFile
  /\ mmPc[p] = "dup_area" => \A v \in areas[new[p]] : v < mmArea[p]
  /\ mmPc[p] \in {"dup_take", "dup_deny"} => Guarded(p)

\* What p builds is seen by nobody else.
Private(p) ==
  mmPc[p] \in Building =>
    /\ \A q \in Procs : mm[q] # new[p] /\ pin[q] # new[p]
    /\ \A q \in Procs : q # p => new[q] # new[p]

\* Two threads of an mm are not both in dup_mmap.
LockInv ==
  \A p, q \in Procs : p # q /\ mmPc[p] \in Dup /\ mmPc[q] \in Dup => mm[p] # mm[q]

\* The types, with counters that might be negative.
Typed ==
  /\ mm \in [Procs -> Mms \cup {NoMm}] /\ lazy \in [Procs -> Mms \cup {NoMm}]
  /\ pin \in [Procs -> Mms \cup {NoMm}] /\ new \in [Procs -> Mms \cup {NoMm}]
  /\ users \in [Mms -> Int] /\ count \in [Mms -> Int]
  /\ areas \in [Mms -> SUBSET DOMAIN Layout]
  /\ exe \in [Mms -> Files \cup {NoFile}] /\ textOf \in [Mms -> Files \cup {NoFile}]
  /\ fileRefs \in [Files -> Int] /\ writeCount \in [Files -> Int]
  /\ locked \subseteq Mms /\ oom \subseteq Mms
  /\ old \in [Procs -> Files \cup {NoFile}] /\ want \in [Procs -> Files \cup {NoFile}]
  /\ mmArea \in [Procs -> 1 .. Len(Layout) + 1]
  /\ work \subseteq {"mmput", "mmdrop"} \X Mms
  /\ mmPc \in [Procs -> SpacePoints]

\* The inductive invariant.
IInv ==
  /\ Typed
  /\ \A m \in Mms : MmInv(m)
  /\ PagesInv
  /\ \A f \in Files : FileInv(f)
  /\ \A p \in Procs : PointInv(p) /\ Private(p)
  /\ LockInv
  /\ mmWarned = {}

-----------------------------------------------------------------------------
(***************************************************************************)
(* Counting.                                                               *)
(***************************************************************************)
\* A count is a number; it is positive when there is one to count, and there
\* is none to count when it is zero.
LEMMA CountNat ==
  ASSUME NEW S, IsFiniteSet(S), NEW f, NEW x
  PROVE  /\ Count(S, f, x) \in Nat
         /\ \A s \in S : f[s] = x => Count(S, f, x) >= 1
         /\ Count(S, f, x) = 0 => \A s \in S : f[s] # x
<1> DEFINE T == {s \in S : f[s] = x}
<1>1. IsFiniteSet(T) /\ Cardinality(T) \in Nat
  BY FS_Subset, FS_CardinalityType
<1>2. Cardinality(T) = 0 <=> T = {}
  BY <1>1, FS_EmptySet
<1> QED
  BY <1>1, <1>2 DEF Count

\* Nothing to count has changed.
LEMMA CountSame ==
  ASSUME NEW S, NEW f, NEW g, NEW x, \A s \in S : g[s] = f[s]
  PROVE  Count(S, g, x) = Count(S, f, x)
<1>1. {s \in S : g[s] = x} = {s \in S : f[s] = x}
  OBVIOUS
<1> QED
  BY <1>1 DEF Count

\* One of those that are counted has changed.
LEMMA Recount ==
  ASSUME NEW S, IsFiniteSet(S), NEW p \in S, NEW f, NEW g, NEW x,
         \A s \in S : s # p => g[s] = f[s]
  PROVE  Count(S, g, x) = Count(S, f, x) + One(g[p] = x) - One(f[p] = x)
<1> DEFINE F == {s \in S : f[s] = x}
           G == {s \in S : g[s] = x}
<1>1. IsFiniteSet(F) /\ IsFiniteSet(G) /\ Cardinality(F) \in Nat /\ Cardinality(G) \in Nat
  BY FS_Subset, FS_CardinalityType
<1>2. CASE g[p] = x /\ f[p] # x
  <2>1. G = F \cup {p} /\ p \notin F
    BY <1>2
  <2>2. Cardinality(G) = Cardinality(F) + 1
    BY <1>1, <2>1, FS_AddElement
  <2> QED
    BY <1>1, <1>2, <2>2 DEF Count, One
<1>3. CASE g[p] # x /\ f[p] = x
  <2>1. G = F \ {p} /\ p \in F
    BY <1>3
  <2>2. Cardinality(G) = Cardinality(F) - 1
    BY <1>1, <2>1, FS_RemoveElement
  <2> QED
    BY <1>1, <1>3, <2>2 DEF Count, One
<1>4. CASE g[p] = x <=> f[p] = x
  <2>1. G = F
    BY <1>4
  <2> QED
    BY <1>1, <1>4, <2>1 DEF Count, One
<1> QED
  BY <1>2, <1>3, <1>4

-----------------------------------------------------------------------------
(***************************************************************************)
(* The pages.                                                              *)
(***************************************************************************)
\* The pages of one area are as many as it has; those of no area are none.
LEMMA AreaPages ==
  ASSUME SpacesSound, NEW v \in DOMAIN Layout
  PROVE  SumPages({v}) = Pages(v) /\ Pages(v) \in Nat
<1> DEFINE n == Pages(v)
<1>1. n \in Nat
  <2> DEFINE R == [pages : Nat, account : BOOLEAN, dontcopy : BOOLEAN, text : BOOLEAN]
  <2>1. Layout \in Seq(R)
    BY DEF SpacesSound
  <2> HIDE DEF R
  <2>2. Layout[v] \in R
    BY <2>1
  <2> QED
    BY <2>2 DEF R, Pages
<1>2. ChargedPages({v}) = {v} \X (1 .. n)
  BY DEF ChargedPages
<1> HIDE DEF n
<1>3. IsFiniteSet({v}) /\ Cardinality({v}) = 1
  BY FS_Singleton, Zenon
<1>4. IsFiniteSet(1 .. n) /\ Cardinality(1 .. n) = n
  BY <1>1, FS_Interval
<1>5. Cardinality({v} \X (1 .. n)) = Cardinality({v}) * Cardinality(1 .. n)
  BY <1>3, <1>4, FS_Product
<1>6. Cardinality({v} \X (1 .. n)) = n
  BY <1>1, <1>3, <1>4, <1>5
<1>7. Cardinality(ChargedPages({v})) = n
  BY <1>2, <1>6, Zenon
<1> QED
  BY <1>1, <1>7 DEF SumPages, n

\* The areas of a program are finitely many, and so are their pages.
LEMMA PagesFinite ==
  ASSUME SpacesSound, NEW V \in SUBSET DOMAIN Layout
  PROVE  /\ IsFiniteSet(V) /\ IsFiniteSet(ChargedPages(V)) /\ SumPages(V) \in Nat
         /\ SumPages({}) = 0
<1>1. IsFiniteSet(DOMAIN Layout)
  <2>1. DOMAIN Layout = 1 .. Len(Layout) /\ Len(Layout) \in Nat
    BY DEF SpacesSound
  <2> QED
    BY <2>1, FS_Interval
<1>2. IsFiniteSet(V)
  BY <1>1, FS_Subset
<1> DEFINE B(v) == {v} \X (1 .. Pages(v))
<1>3. ASSUME NEW v \in V PROVE IsFiniteSet(B(v))
  <2>1. Pages(v) \in Nat
    BY AreaPages
  <2>2. IsFiniteSet({v})
    BY FS_Singleton, Zenon
  <2>3. IsFiniteSet(1 .. Pages(v))
    BY <2>1, FS_Interval
  <2> QED
    BY <2>2, <2>3, FS_Product
<1>4. IsFiniteSet({B(v) : v \in V})
  <2> DEFINE f == [v \in V |-> B(v)]
  <2>1. f \in Surjection(V, {B(v) : v \in V})
    BY DEF Surjection
  <2> QED
    BY <1>2, <2>1, FS_Surjection
<1>5. IsFiniteSet(UNION {B(v) : v \in V})
  BY <1>3, <1>4, FS_UNION
<1>6. ChargedPages({}) = {}
  BY DEF ChargedPages
<1>7. Cardinality({}) = 0
  BY FS_EmptySet
<1> QED
  BY <1>2, <1>5, <1>6, <1>7, FS_CardinalityType DEF ChargedPages, SumPages

\* The pages of one mm, and those of the others.
LEMMA LinkedFinite ==
  ASSUME SpacesSound, Typed
  PROVE  IsFiniteSet(Linked)
<1> DEFINE B(m) == {m} \X ChargedPages(areas[m])
<1>1. ASSUME NEW m \in Mms PROVE IsFiniteSet(B(m))
  <2>1. IsFiniteSet({m}) /\ IsFiniteSet(ChargedPages(areas[m]))
    BY PagesFinite, FS_Singleton DEF Typed
  <2> QED
    BY <2>1, FS_Product
<1>2. IsFiniteSet({B(m) : m \in Mms})
  <2> DEFINE f == [m \in Mms |-> B(m)]
  <2>1. f \in Surjection(Mms, {B(m) : m \in Mms})
    BY DEF Surjection
  <2> QED
    BY <2>1, FS_Surjection DEF SpacesSound
<1> QED
  BY <1>1, <1>2, FS_UNION DEF Linked

\* The areas V, which are not linked in m yet, are linked and charged.
LEMMA PagesLink ==
  ASSUME SpacesSound, Typed, PagesInv, NEW m \in Mms, NEW V \in SUBSET DOMAIN Layout,
         V \cap areas[m] = {}, areas' = [areas EXCEPT ![m] = @ \cup V],
         committed' = committed + SumPages(V)
  PROVE  PagesInv'
<1> DEFINE N == {m} \X ChargedPages(V)
<1>1. \A x \in Mms : areas'[x] = IF x = m THEN areas[x] \cup V ELSE areas[x]
  BY DEF Typed
<1>2. Linked' = Linked \cup N
  BY <1>1 DEF Linked, ChargedPages
<1>3. Linked \cap N = {}
  BY DEF Linked, ChargedPages
<1>4. IsFiniteSet(Linked) /\ IsFiniteSet(ChargedPages(V)) /\ SumPages(V) \in Nat
  BY LinkedFinite, PagesFinite
<1>5. IsFiniteSet(N) /\ Cardinality(N) = SumPages(V)
  <2>1. IsFiniteSet({m}) /\ Cardinality({m}) = 1
    BY FS_Singleton, Zenon
  <2>2. IsFiniteSet(N) /\ Cardinality(N) = Cardinality({m}) * Cardinality(ChargedPages(V))
    BY <1>4, <2>1, FS_Product
  <2> QED
    BY <1>4, <2>1, <2>2 DEF SumPages
<1> HIDE DEF N
<1>6. Cardinality(Linked \cup N)
        = Cardinality(Linked) + Cardinality(N) - Cardinality(Linked \cap N)
  BY <1>4, <1>5, FS_Union
<1>7. Cardinality({}) = 0 /\ Cardinality(Linked) \in Nat
  BY <1>4, FS_EmptySet, FS_CardinalityType
<1>8. Cardinality(Linked \cap N) = 0
  BY <1>3, <1>7, Zenon
<1>9. committed' = Cardinality(Linked \cup N)
  BY <1>4, <1>5, <1>6, <1>7, <1>8 DEF PagesInv
<1> QED
  BY <1>2, <1>9, Zenon DEF PagesInv

\* The areas V of m are unlinked, and their charge is given back.
LEMMA PagesUnlink ==
  ASSUME SpacesSound, Typed, PagesInv, NEW m \in Mms, NEW V \in SUBSET areas[m],
         areas' = [areas EXCEPT ![m] = @ \ V], committed' = committed - SumPages(V)
  PROVE  PagesInv'
<1> DEFINE N == {m} \X ChargedPages(V)
<1>0. V \in SUBSET DOMAIN Layout
  BY DEF Typed
<1>1. \A x \in Mms : areas'[x] = IF x = m THEN areas[x] \ V ELSE areas[x]
  BY DEF Typed
<1>2. Linked' = Linked \ N
  BY <1>1 DEF Linked, ChargedPages
<1>3. Linked \cap N = N
  BY DEF Linked, ChargedPages
<1>4. IsFiniteSet(Linked) /\ IsFiniteSet(ChargedPages(V)) /\ SumPages(V) \in Nat
  BY <1>0, LinkedFinite, PagesFinite
<1>5. IsFiniteSet(N) /\ Cardinality(N) = SumPages(V)
  <2>1. IsFiniteSet({m}) /\ Cardinality({m}) = 1
    BY FS_Singleton, Zenon
  <2>2. IsFiniteSet(N) /\ Cardinality(N) = Cardinality({m}) * Cardinality(ChargedPages(V))
    BY <1>4, <2>1, FS_Product
  <2> QED
    BY <1>4, <2>1, <2>2 DEF SumPages
<1> HIDE DEF N
<1>6. Cardinality(Linked \ N) = Cardinality(Linked) - Cardinality(Linked \cap N)
  BY <1>4, FS_Difference
<1>7. Cardinality(Linked) \in Nat
  BY <1>4, FS_CardinalityType
<1> QED
  BY <1>2, <1>3, <1>4, <1>5, <1>6, <1>7 DEF PagesInv

-----------------------------------------------------------------------------
(***************************************************************************)
(* The files.                                                              *)
(***************************************************************************)
\* What Add does at one argument.
LEMMA AddIs ==
  ASSUME NEW h \in [Files -> Int], NEW y, NEW n \in Int
  PROVE  /\ Add(h, y, n) \in [Files -> Int]
         /\ \A f \in Files : Add(h, y, n)[f] = h[f] + (IF y = f THEN n ELSE 0)
<1>1. CASE y \in Files
  BY <1>1 DEF Add
<1>2. CASE y \notin Files
  BY <1>2 DEF Add
<1> QED
  BY <1>1, <1>2

\* By how much one more executable or call changes a count.
Gain(a, b, f) == One(b = f) - One(a = f)

\* One mm changes its executable and one process its part in a call; the
\* counters follow, and nobody is denied who writes already.
LEMMA FileMove ==
  ASSUME SpacesSound, Typed, NEW f \in Files, FileInv(f), NEW x \in Mms, NEW p \in Procs,
         \A y \in Mms : y # x => exe'[y] = exe[y],
         \A q \in Procs : q # p => HeldFile(q)' = HeldFile(q) /\ DeniedFile(q)' = DeniedFile(q),
         fileRefs'[f] = fileRefs[f] + Gain(exe[x], exe'[x], f)
                        + Gain(HeldFile(p), HeldFile(p)', f),
         NEW d \in Int,
         d = Gain(exe[x], exe'[x], f) + Gain(DeniedFile(p), DeniedFile(p)', f),
         writeCount'[f] = writeCount[f] - d, d > 0 => writeCount[f] <= 0
  PROVE  FileInv(f)'
<1> DEFINE E == Count(Mms, exe, f)
           F == Count(Mms, exe', f)
           H == Count(Procs, Holders, f)
           I == Count(Procs, Holders', f)
           D == Count(Procs, Deniers, f)
           G == Count(Procs, Deniers', f)
<1>1. E \in Nat /\ F \in Nat /\ H \in Nat /\ I \in Nat /\ D \in Nat /\ G \in Nat
  BY CountNat DEF SpacesSound
<1>2. F = E + Gain(exe[x], exe'[x], f)
  <2>1. F = E + One(exe'[x] = f) - One(exe[x] = f)
    BY Recount DEF SpacesSound
  <2> QED
    BY <1>1, <2>1 DEF Gain, One
<1>3. I = H + Gain(HeldFile(p), HeldFile(p)', f)
  <2>1. /\ Holders[p] = HeldFile(p) /\ Holders'[p] = HeldFile(p)'
        /\ \A q \in Procs : q # p => Holders'[q] = Holders[q]
    BY DEF Holders
  <2>2. I = H + One(Holders'[p] = f) - One(Holders[p] = f)
    BY <2>1, Recount DEF SpacesSound
  <2> QED
    BY <1>1, <2>1, <2>2 DEF Gain, One
<1>4. G = D + Gain(DeniedFile(p), DeniedFile(p)', f)
  <2>1. /\ Deniers[p] = DeniedFile(p) /\ Deniers'[p] = DeniedFile(p)'
        /\ \A q \in Procs : q # p => Deniers'[q] = Deniers[q]
    BY DEF Deniers
  <2>2. G = D + One(Deniers'[p] = f) - One(Deniers[p] = f)
    BY <2>1, Recount DEF SpacesSound
  <2> QED
    BY <1>1, <2>1, <2>2 DEF Gain, One
<1>5. /\ Gain(exe[x], exe'[x], f) \in Int /\ Gain(HeldFile(p), HeldFile(p)', f) \in Int
      /\ Gain(DeniedFile(p), DeniedFile(p)', f) \in Int /\ One(f # Exe0) \in Int
  BY DEF Gain, One
<1>6. /\ fileRefs[f] = One(f # Exe0) + E + H /\ writeCount[f] \in Int
      /\ E + D > 0 => writeCount[f] = -(E + D)
      /\ E + D = 0 => writeCount[f] \in {0, 1}
  BY DEF FileInv, DenyRefs, Typed
<1> HIDE DEF E, F, H, I, D, G
<1>7. fileRefs'[f] = One(f # Exe0) + F + I
  BY <1>1, <1>2, <1>3, <1>5, <1>6
<1>8. F + G = E + D + d
  BY <1>1, <1>2, <1>4, <1>5
<1>9. /\ F + G > 0 => writeCount'[f] = -(F + G)
      /\ F + G = 0 => writeCount'[f] \in {0, 1}
  BY <1>1, <1>6, <1>8
<1> QED
  BY <1>7, <1>9 DEF FileInv, DenyRefs, F, I, G

\* No file is concerned.
LEMMA FilesSame ==
  ASSUME SpacesSound, \A f \in Files : FileInv(f), exe' = exe, fileRefs' = fileRefs,
         writeCount' = writeCount,
         \A q \in Procs : HeldFile(q)' = HeldFile(q) /\ DeniedFile(q)' = DeniedFile(q)
  PROVE  \A f \in Files : FileInv(f)'
<1>1. Holders' = Holders /\ Deniers' = Deniers
  BY DEF Holders, Deniers
<1> QED
  BY <1>1 DEF FileInv, DenyRefs

-----------------------------------------------------------------------------
(***************************************************************************)
(* The references of an mm.                                                *)
(***************************************************************************)
\* The counts are numbers, and who has none is not referred to.
LEMMA RefsNat ==
  ASSUME SpacesSound, NEW m
  PROVE  /\ UserRefs(m) \in Nat /\ Count(Procs, lazy, m) \in Nat
         /\ UserRefs(m) = 0 => \A p \in Procs : mm[p] # m /\ pin[p] # m /\ new[p] # m
         /\ \A p \in Procs : mm[p] = m \/ pin[p] = m \/ new[p] = m => UserRefs(m) >= 1
<1>1. /\ Count(Procs, mm, m) \in Nat /\ Count(Procs, pin, m) \in Nat
      /\ Count(Procs, new, m) \in Nat /\ Count(Procs, lazy, m) \in Nat
  BY CountNat DEF SpacesSound
<1>2. \A p \in Procs : /\ mm[p] = m => Count(Procs, mm, m) >= 1
                       /\ pin[p] = m => Count(Procs, pin, m) >= 1
                       /\ new[p] = m => Count(Procs, new, m) >= 1
  BY CountNat DEF SpacesSound
<1> QED
  BY <1>1, <1>2 DEF UserRefs

\* One process has other references.
LEMMA RefsMove ==
  ASSUME SpacesSound, NEW p \in Procs, NEW m,
         \A q \in Procs : q # p => /\ mm'[q] = mm[q] /\ pin'[q] = pin[q]
                                   /\ new'[q] = new[q] /\ lazy'[q] = lazy[q]
  PROVE  /\ UserRefs(m)' = UserRefs(m) + Gain(mm[p], mm'[p], m) + Gain(pin[p], pin'[p], m)
                           + Gain(new[p], new'[p], m)
         /\ Count(Procs, lazy', m) = Count(Procs, lazy, m) + Gain(lazy[p], lazy'[p], m)
         /\ UserRefs(m)' \in Nat /\ Count(Procs, lazy', m) \in Nat
<1>1. /\ Count(Procs, mm, m) \in Nat /\ Count(Procs, pin, m) \in Nat
      /\ Count(Procs, new, m) \in Nat /\ Count(Procs, lazy, m) \in Nat
      /\ Count(Procs, mm', m) \in Nat /\ Count(Procs, pin', m) \in Nat
      /\ Count(Procs, new', m) \in Nat /\ Count(Procs, lazy', m) \in Nat
  BY CountNat DEF SpacesSound
<1>2. Count(Procs, mm', m) = Count(Procs, mm, m) + One(mm'[p] = m) - One(mm[p] = m)
  BY Recount DEF SpacesSound
<1>3. Count(Procs, pin', m) = Count(Procs, pin, m) + One(pin'[p] = m) - One(pin[p] = m)
  BY Recount DEF SpacesSound
<1>4. Count(Procs, new', m) = Count(Procs, new, m) + One(new'[p] = m) - One(new[p] = m)
  BY Recount DEF SpacesSound
<1>5. Count(Procs, lazy', m) = Count(Procs, lazy, m) + One(lazy'[p] = m) - One(lazy[p] = m)
  BY Recount DEF SpacesSound
<1> QED
  BY <1>1, <1>2, <1>3, <1>4, <1>5 DEF UserRefs, Gain, One

\* Nothing of the references changes; what is linked in an mm, or its
\* executable, changes only while it is in use.
LEMMA MmsSame ==
  ASSUME SpacesSound, \A m \in Mms : MmInv(m), UNCHANGED mmVars, new' = new,
         \A m \in Mms : InUse(m) \/ (areas'[m] = areas[m] /\ exe'[m] = exe[m])
  PROVE  \A m \in Mms : MmInv(m)'
  BY DEF mmVars, MmInv, InUse, UserRefs

\* The variables a teardown of m changes have their types, and hold what they
\* held of every other mm.
TornDown(m) ==
  /\ areas' \in [Mms -> SUBSET DOMAIN Layout] /\ textOf' \in [Mms -> Files \cup {NoFile}]
  /\ exe' \in [Mms -> Files \cup {NoFile}] /\ count' \in [Mms -> Int]
  /\ fileRefs' \in [Files -> Int] /\ writeCount' \in [Files -> Int]
  /\ \A x \in Mms : x # m => areas'[x] = areas[x] /\ exe'[x] = exe[x] /\ count'[x] = count[x]
  /\ areas'[m] = {} /\ exe'[m] = NoFile

\* __mmput: the pages and the files of an mm are given back.
LEMMA TearDownEffect ==
  ASSUME SpacesSound, IInv, NEW m \in Mms, NEW g \in 0 .. 1, TearDown(m, g),
         \A q \in Procs : HeldFile(q)' = HeldFile(q) /\ DeniedFile(q)' = DeniedFile(q)
  PROVE  /\ TornDown(m) /\ count'[m] = count[m] + g - 1
         /\ PagesInv' /\ \A f \in Files : FileInv(f)'
<1>1. /\ Typed /\ PagesInv /\ \A f \in Files : FileInv(f)
      /\ areas \in [Mms -> SUBSET DOMAIN Layout] /\ textOf \in [Mms -> Files \cup {NoFile}]
      /\ exe \in [Mms -> Files \cup {NoFile}] /\ count \in [Mms -> Int]
      /\ fileRefs \in [Files -> Int] /\ writeCount \in [Files -> Int]
  BY DEF IInv, Typed
<1>2. /\ fileRefs' \in [Files -> Int] /\ writeCount' \in [Files -> Int]
      /\ \A f \in Files : /\ fileRefs'[f] = fileRefs[f] + (IF exe[m] = f THEN -1 ELSE 0)
                          /\ writeCount'[f] = writeCount[f] + (IF exe[m] = f THEN 1 ELSE 0)
  <2>1. /\ fileRefs' = Add(fileRefs, exe[m], -1) /\ writeCount' = Add(writeCount, exe[m], 1)
    BY DEF TearDown
  <2> QED
    BY <1>1, <2>1, AddIs
<1>3. TornDown(m) /\ count'[m] = count[m] + g - 1
  BY <1>1, <1>2 DEF TearDown, TornDown
<1>4. PagesInv'
  <2>1. areas' = [areas EXCEPT ![m] = @ \ areas[m]]
    BY <1>1 DEF TearDown
  <2> QED
    BY <1>1, <2>1, PagesUnlink DEF TearDown
<1>5. ASSUME NEW f \in Files PROVE FileInv(f)'
  <2>1. PICK p : p \in Procs
    BY DEF SpacesSound
  <2> DEFINE d == Gain(exe[m], exe'[m], f) + Gain(DeniedFile(p), DeniedFile(p)', f)
  <2>2. exe'[m] = NoFile /\ NoFile # f /\ \A y \in Mms : y # m => exe'[y] = exe[y]
    BY <1>3 DEF TornDown, SpacesSound
  <2>3. Gain(exe[m], exe'[m], f) = IF exe[m] = f THEN -1 ELSE 0
    BY <2>2 DEF Gain, One
  <2>4. Gain(DeniedFile(p), DeniedFile(p)', f) = 0 /\ Gain(HeldFile(p), HeldFile(p)', f) = 0
    BY <2>1 DEF Gain, One
  <2>5. d = IF exe[m] = f THEN -1 ELSE 0
    BY <2>3, <2>4
  <2>6. d \in Int /\ ~(d > 0)
    BY <2>5
  <2>7. writeCount'[f] = writeCount[f] - d
    BY <1>1, <1>2, <2>5
  <2>8. fileRefs'[f] = fileRefs[f] + Gain(exe[m], exe'[m], f)
                       + Gain(HeldFile(p), HeldFile(p)', f)
    BY <1>1, <1>2, <2>3, <2>4
  <2>9. d = Gain(exe[m], exe'[m], f) + Gain(DeniedFile(p), DeniedFile(p)', f)
    OBVIOUS
  <2> HIDE DEF d
  <2> QED
    BY <1>1, <2>1, <2>2, <2>6, <2>7, <2>8, <2>9, FileMove
<1> QED
  BY <1>3, <1>4, <1>5

\* The variables of an mm that is put have their types; if it is not the last
\* put, it keeps what it has.
Put(m) ==
  /\ users' \in [Mms -> Int] /\ count' \in [Mms -> Int]
  /\ areas' \in [Mms -> SUBSET DOMAIN Layout] /\ textOf' \in [Mms -> Files \cup {NoFile}]
  /\ exe' \in [Mms -> Files \cup {NoFile}]
  /\ fileRefs' \in [Files -> Int] /\ writeCount' \in [Files -> Int]
  /\ \A x \in Mms : UserRefs(x)' = 0 \/ (areas'[x] = areas[x] /\ exe'[x] = exe[x])

\* mmput of m by one who had a reference, and who grabs it if g is 1.
LEMMA MmputKeeps ==
  ASSUME SpacesSound, IInv, NEW m \in Mms, NEW g \in 0 .. 1, Mmput(m, g), users[m] >= 1,
         work' = work, oom' = oom,
         \A x \in Mms : /\ UserRefs(x)' = UserRefs(x) - One(x = m)
                        /\ Count(Procs, lazy', x) = Count(Procs, lazy, x) + g * One(x = m),
         \A q \in Procs : HeldFile(q)' = HeldFile(q) /\ DeniedFile(q)' = DeniedFile(q)
  PROVE  /\ Put(m) /\ \A x \in Mms : MmInv(x)'
         /\ PagesInv' /\ \A f \in Files : FileInv(f)'
<1>1. /\ Typed /\ PagesInv /\ \A x \in Mms : MmInv(x)
      /\ \A x \in Mms : users[x] \in Int /\ count[x] \in Int
      /\ users \in [Mms -> Int] /\ count \in [Mms -> Int]
      /\ \A x \in Mms : UserRefs(x) \in Nat /\ Count(Procs, lazy, x) \in Nat
      /\ users' = [users EXCEPT ![m] = @ - 1]
  BY RefsNat DEF IInv, Typed, Mmput
<1>2. /\ users' \in [Mms -> Int] /\ users'[m] = users[m] - 1
      /\ \A x \in Mms : x # m => users'[x] = users[x]
  BY <1>1
<1>3. \A x \in Mms : users'[x] = UserRefs(x)'
  <2>1. ASSUME NEW x \in Mms PROVE users'[x] = UserRefs(x)'
    <3>1. users[x] = UserRefs(x) /\ UserRefs(x)' = UserRefs(x) - One(x = m)
      BY <1>1 DEF MmInv
    <3> QED
      BY <1>1, <1>2, <3>1 DEF One
  <2> QED
    BY <2>1
<1>4. /\ InUse(m) /\ <<"mmput", m>> \notin work /\ <<"mmdrop", m>> \notin work
      /\ count[m] = 1 + Count(Procs, lazy, m) + One(m \in oom)
      /\ Count(Procs, lazy', m) = Count(Procs, lazy, m) + g
  <2>1. InUse(m) /\ <<"mmput", m>> \notin work
    <3>1. <<"mmput", m>> \in work => users[m] = 0
      BY <1>1 DEF MmInv
    <3> QED
      BY <1>1, <3>1 DEF InUse
  <2>2. count[m] = 1 + Count(Procs, lazy, m) + One(m \in oom)
    BY <1>1, <2>1 DEF MmInv, One
  <2>3. count[m] # 0
    BY <1>1, <2>2 DEF One
  <2>4. g * One(m = m) = g
    BY DEF One
  <2> QED
    BY <1>1, <2>1, <2>2, <2>3, <2>4 DEF MmInv
<1>5. ASSUME NEW x \in Mms, x # m, count'[x] = count[x], areas'[x] = areas[x], exe'[x] = exe[x]
      PROVE  MmInv(x)'
  <2>1. Count(Procs, lazy', x) = Count(Procs, lazy, x)
    BY <1>1, <1>5 DEF One
  <2>2. InUse(x)' <=> InUse(x)
    BY <1>2, <1>5 DEF InUse
  <2>3. MmInv(x) /\ users'[x] = users[x] /\ users'[x] = UserRefs(x)'
    BY <1>1, <1>2, <1>3, <1>5
  <2> QED
    BY <1>5, <2>1, <2>2, <2>3 DEF MmInv, One
<1>6. CASE users[m] = 1
  <2>1. TearDown(m, g)
    BY <1>6 DEF Mmput
  <2>2. /\ TornDown(m) /\ count'[m] = count[m] + g - 1
        /\ PagesInv' /\ \A f \in Files : FileInv(f)'
    BY <2>1, TearDownEffect
  <2>3. ~InUse(m)'
    BY <1>2, <1>4, <1>6 DEF InUse
  <2>4. count'[m] = Count(Procs, lazy', m) + One(m \in oom)
    BY <1>1, <1>4, <2>2 DEF One
  <2>5. MmInv(m)'
    BY <1>1, <1>2, <1>3, <1>4, <1>6, <2>2, <2>3, <2>4 DEF MmInv, TornDown, One
  <2>6. \A x \in Mms : MmInv(x)'
    BY <1>5, <2>2, <2>5 DEF TornDown
  <2>7. Put(m)
    BY <1>2, <1>3, <1>6, <2>2 DEF Put, TornDown
  <2> QED
    BY <2>2, <2>6, <2>7
<1>7. CASE users[m] # 1
  <2>1. /\ count' = [count EXCEPT ![m] = @ + g] /\ areas' = areas /\ textOf' = textOf
        /\ committed' = committed /\ exe' = exe /\ fileRefs' = fileRefs
        /\ writeCount' = writeCount
    BY <1>7 DEF Mmput, areaVars, fileVars
  <2>2. PagesInv' /\ \A f \in Files : FileInv(f)'
    <3>1. \A f \in Files : FileInv(f)
      BY DEF IInv
    <3> QED
      BY <1>1, <2>1, <3>1, FilesSame DEF PagesInv, Linked
  <2>3. /\ count' \in [Mms -> Int] /\ count'[m] = count[m] + g
        /\ \A x \in Mms : x # m => count'[x] = count[x]
    BY <1>1, <2>1
  <2>4. InUse(m)'
    BY <1>1, <1>2, <1>7 DEF InUse
  <2>5. count'[m] = 1 + Count(Procs, lazy', m) + One(m \in oom)
    BY <1>1, <1>4, <2>3 DEF One
  <2>6. MmInv(m)'
    BY <1>2, <1>3, <1>4, <2>4, <2>5 DEF MmInv, One
  <2>7. \A x \in Mms : MmInv(x)'
    BY <1>5, <2>1, <2>3, <2>6
  <2>8. Put(m)
    BY <1>1, <1>2, <2>1, <2>3 DEF Put, Typed
  <2> QED
    BY <2>2, <2>7, <2>8
<1> QED
  BY <1>6, <1>7

-----------------------------------------------------------------------------
(***************************************************************************)
(* The processes.                                                          *)
(***************************************************************************)
\* Nothing of q changes.
SameProc(q) ==
  /\ mmPc'[q] = mmPc[q] /\ mm'[q] = mm[q] /\ lazy'[q] = lazy[q] /\ pin'[q] = pin[q]
  /\ new'[q] = new[q] /\ old'[q] = old[q] /\ want'[q] = want[q] /\ mmArea'[q] = mmArea[q]

\* What q builds is left alone, and what it relies on while it does so.
Kept(q) ==
  /\ mmPc[q] \in Building => areas'[new[q]] = areas[new[q]] /\ exe'[new[q]] = exe[new[q]]
  /\ mmPc[q] \in Dup => mm[q] \in locked'
  /\ mmPc[q] \in {"dup_take", "dup_deny"} => Guarded(q)'

\* A step of the processes P, with the parts of the invariant put together.
LEMMA StepKeeps ==
  ASSUME IInv, NEW P \in SUBSET Procs,
         \A q \in Procs \ P : SameProc(q) /\ Kept(q),
         \A r \in P : PointInv(r)' /\ Private(r)',
         \A r \in P : \A q \in Procs \ P :
           mmPc[q] \in Building => mm'[r] # new[q] /\ pin'[r] # new[q] /\ new'[r] # new[q],
         \A r \in P : \A q \in Procs :
           q # r /\ mmPc'[r] \in Dup /\ mmPc'[q] \in Dup => mm'[r] # mm'[q],
         Typed', \A m \in Mms : MmInv(m)', PagesInv', \A f \in Files : FileInv(f)',
         mmWarned' = {}
  PROVE  IInv'
<1>1. ASSUME NEW q \in Procs \ P PROVE PointInv(q)'
  <2>1. PointInv(q) /\ SameProc(q) /\ Kept(q) /\ mmPc[q] \in SpacePoints
    BY DEF IInv, Typed
  <2> QED
    BY <2>1 DEF PointInv, SameProc, Kept, Building, Dup
<1>2. ASSUME NEW q \in Procs \ P PROVE Private(q)'
  <2>1. Private(q) /\ \A r \in Procs \ P : SameProc(r)
    BY DEF IInv
  <2> QED
    BY <2>1 DEF Private, SameProc
<1>3. LockInv'
  <2>1. SUFFICES ASSUME NEW p \in Procs, NEW q \in Procs, p # q, mmPc'[p] \in Dup,
                        mmPc'[q] \in Dup
                 PROVE  mm'[p] # mm'[q]
    BY DEF LockInv
  <2>2. CASE p \notin P /\ q \notin P
    BY <2>1, <2>2 DEF IInv, LockInv, SameProc
  <2> QED
    BY <2>1, <2>2
<1> QED
  BY <1>1, <1>2, <1>3 DEF IInv

\* q is left alone by a step that touches neither its lock nor what it builds,
\* and no thread that waits to release an old executable.
LEMMA KeptWhen ==
  ASSUME IInv, NEW q \in Procs, SameProc(q),
         mmPc[q] \in Building => areas'[new[q]] = areas[new[q]] /\ exe'[new[q]] = exe[new[q]],
         mmPc[q] \in Dup => mm[q] \in locked' /\ exe'[mm[q]] = exe[mm[q]],
         \A r \in Procs : mmPc[r] = "replace_allow" /\ mm[r] = mm[q] /\ mmPc[q] \in Dup =>
           mmPc'[r] = "replace_allow" /\ mm'[r] = mm[r] /\ old'[r] = old[r]
  PROVE  Kept(q)
<1>1. PointInv(q)
  BY DEF IInv
<1>2. ASSUME mmPc[q] \in {"dup_take", "dup_deny"} PROVE Guarded(q)'
  <2>1. Guarded(q) /\ mmPc[q] \in Dup
    BY <1>1, <1>2 DEF PointInv, Dup
  <2> QED
    BY <2>1 DEF Guarded, SameProc
<1> QED
  BY <1>2 DEF Kept

\* A process that does not change has the same part in a call.
LEMMA SameHeld ==
  ASSUME NEW q, SameProc(q)
  PROVE  HeldFile(q)' = HeldFile(q) /\ DeniedFile(q)' = DeniedFile(q)
  BY DEF SameProc, HeldFile, DeniedFile

\* A step of p within a call that changes no reference to an mm.
LEMMA CallStep ==
  ASSUME SpacesSound, IInv, NEW p \in Procs, UNCHANGED mmVars, new' = new,
         \A q \in Procs : q # p => SameProc(q) /\ Kept(q),
         Typed', PointInv(p)', mmPc'[p] \in Building => mmPc[p] \in Building,
         mmPc'[p] \in Dup => mmPc[p] \in Dup \/ mm[p] \notin locked,
         \A m \in Mms : InUse(m) \/ (areas'[m] = areas[m] /\ exe'[m] = exe[m]),
         PagesInv', \A f \in Files : FileInv(f)', mmWarned' = {}
  PROVE  IInv'
<1>1. mm' = mm /\ pin' = pin /\ lazy' = lazy
  BY DEF mmVars
<1>2. \A m \in Mms : MmInv(m)'
  BY MmsSame DEF IInv
<1>3. \A q \in Procs : PointInv(q) /\ Private(q)
  BY DEF IInv
<1>4. Private(p)'
  BY <1>1, <1>3 DEF Private
<1>5. ASSUME NEW q \in Procs, q # p, mmPc'[p] \in Dup, mmPc'[q] \in Dup
      PROVE  mm'[p] # mm'[q]
  <2>1. mmPc[q] \in Dup /\ mm[q] \in locked
    BY <1>3, <1>5 DEF SameProc, PointInv
  <2> QED
    BY <1>1, <1>5, <2>1 DEF IInv, LockInv
<1>6. ASSUME NEW q \in Procs, q # p, mmPc[q] \in Building
      PROVE  mm'[p] # new[q] /\ pin'[p] # new[q] /\ new'[p] # new[q]
  BY <1>1, <1>3, <1>6 DEF Private
<1> DEFINE P == {p}
<1>7. P \in SUBSET Procs /\ p \in P /\ \A q \in Procs \ P : q # p /\ SameProc(q) /\ Kept(q)
  OBVIOUS
<1>8. \A r \in P : r = p
  OBVIOUS
<1> HIDE DEF P
<1> QED
  BY <1>2, <1>4, <1>5, <1>6, <1>7, <1>8, StepKeeps

\* An mm that a process uses, pins or builds is in use.
LEMMA Referred ==
  ASSUME SpacesSound, IInv, NEW p \in Procs, NEW m \in Mms,
         mm[p] = m \/ pin[p] = m \/ new[p] = m
  PROVE  InUse(m) /\ users[m] >= 1 /\ <<"mmput", m>> \notin work
<1>1. UserRefs(m) \in Nat /\ UserRefs(m) >= 1
  BY RefsNat
<1>2. users[m] = UserRefs(m) /\ (<<"mmput", m>> \in work => users[m] = 0)
  BY DEF IInv, MmInv
<1> QED
  BY <1>1, <1>2 DEF InUse

\* The locks are taken, and the executable read.
LEMMA DupLockKeeps ==
  ASSUME SpacesSound, IInv, NEW p \in Procs, DupLock(p)
  PROVE  IInv'
<1>1. /\ Typed /\ PointInv(p) /\ UNCHANGED mmVars /\ UNCHANGED areaVars /\ UNCHANGED fileVars
      /\ new' = new /\ want' = want /\ mmArea' = mmArea /\ mmWarned' = mmWarned
      /\ mmPc[p] = "dup_lock" /\ mm[p] \notin locked /\ locked' = locked \cup {mm[p], new[p]}
      /\ old' = [old EXCEPT ![p] = exe[mm[p]]] /\ mmPc' = [mmPc EXCEPT ![p] = "dup_take"]
  BY DEF IInv, DupLock, MmGoto
<1>2. /\ mm' = mm /\ pin' = pin /\ lazy' = lazy /\ oom' = oom /\ work' = work
      /\ users' = users /\ count' = count /\ areas' = areas /\ textOf' = textOf
      /\ committed' = committed /\ exe' = exe /\ fileRefs' = fileRefs
      /\ writeCount' = writeCount
  BY <1>1 DEF mmVars, areaVars, fileVars
<1>3. mm[p] \in Mms /\ new[p] \in Mms /\ areas[new[p]] = {} /\ exe[new[p]] = NoFile
  BY <1>1 DEF PointInv, Building
<1>4. Typed'
  BY <1>1, <1>2, <1>3 DEF Typed, SpacePoints, Building, Dup
<1>5. ASSUME NEW q \in Procs, q # p PROVE SameProc(q) /\ Kept(q)
  <2>1. SameProc(q)
    BY <1>1, <1>2, <1>5 DEF Typed, SameProc
  <2>2. mmPc[q] \in Dup => mm[q] \in locked'
    BY <1>1 DEF IInv, PointInv
  <2>3. \A r \in Procs : mmPc[r] = "replace_allow" =>
          mmPc'[r] = "replace_allow" /\ mm'[r] = mm[r] /\ old'[r] = old[r]
    BY <1>1, <1>2 DEF Typed
  <2> QED
    BY <1>2, <2>1, <2>2, <2>3, KeptWhen
<1>6. mmPc'[p] = "dup_take" /\ old'[p] = exe[mm[p]]
  BY <1>1 DEF Typed
<1>7. PointInv(p)'
  <2>1. Guarded(p)'
    BY <1>2, <1>6 DEF Guarded
  <2> QED
    BY <1>1, <1>2, <1>3, <1>6, <2>1 DEF PointInv, Building, Dup, Wanting
<1>8. PagesInv' /\ mmWarned' = {} /\ \A f \in Files : FileInv(f)'
  <2>1. \A q \in Procs : HeldFile(q)' = HeldFile(q) /\ DeniedFile(q)' = DeniedFile(q)
    <3>1. HeldFile(p)' = HeldFile(p) /\ DeniedFile(p)' = DeniedFile(p)
      BY <1>1, <1>6 DEF HeldFile, DeniedFile
    <3> QED
      BY <1>5, <3>1, SameHeld
  <2>2. \A f \in Files : FileInv(f)'
    BY <1>2, <2>1, FilesSame DEF IInv
  <2> QED
    BY <1>1, <1>2, <2>2 DEF IInv, PagesInv, Linked
<1>9. mmPc[p] \in Building
  BY <1>1 DEF Building
<1> QED
  BY <1>1, <1>2, <1>4, <1>5, <1>7, <1>8, <1>9, CallStep

\* One process has another part in a call, and no executable changes.
LEMMA FileCall ==
  ASSUME SpacesSound, Typed, NEW f \in Files, FileInv(f), NEW p \in Procs, exe' = exe,
         \A q \in Procs : q # p => SameProc(q),
         fileRefs'[f] = fileRefs[f] + Gain(HeldFile(p), HeldFile(p)', f),
         writeCount'[f] = writeCount[f] - Gain(DeniedFile(p), DeniedFile(p)', f),
         Gain(DeniedFile(p), DeniedFile(p)', f) > 0 => writeCount[f] <= 0
  PROVE  FileInv(f)'
<1>1. PICK x : x \in Mms
  BY DEF SpacesSound
<1> DEFINE d == Gain(exe[x], exe'[x], f) + Gain(DeniedFile(p), DeniedFile(p)', f)
<1>2. Gain(exe[x], exe'[x], f) = 0 /\ Gain(DeniedFile(p), DeniedFile(p)', f) \in Int
  BY DEF Gain, One
<1>3. d = Gain(DeniedFile(p), DeniedFile(p)', f) /\ d \in Int
  BY <1>2
<1>4. fileRefs'[f] = fileRefs[f] + Gain(exe[x], exe'[x], f)
                     + Gain(HeldFile(p), HeldFile(p)', f)
  <2>1. fileRefs[f] \in Int
    BY DEF Typed
  <2> QED
    BY <1>2, <2>1
<1>5. \A q \in Procs : q # p => HeldFile(q)' = HeldFile(q) /\ DeniedFile(q)' = DeniedFile(q)
  BY SameHeld
<1>6. d = Gain(exe[x], exe'[x], f) + Gain(DeniedFile(p), DeniedFile(p)', f)
  OBVIOUS
<1>7. writeCount'[f] = writeCount[f] - d /\ (d > 0 => writeCount[f] <= 0)
  BY <1>3
<1> HIDE DEF d
<1> QED
  BY <1>1, <1>3, <1>4, <1>5, <1>6, <1>7, FileMove

\* A step of p that changes no area, no executable and no lock.
LEMMA FileStep ==
  ASSUME SpacesSound, IInv, NEW p \in Procs, UNCHANGED mmVars, UNCHANGED areaVars, exe' = exe,
         new' = new, locked' = locked, mmPc[p] # "replace_allow",
         \A q \in Procs : q # p => SameProc(q),
         Typed', PointInv(p)', mmPc'[p] \in Building => mmPc[p] \in Building,
         mmPc'[p] \in Dup => mmPc[p] \in Dup,
         \A f \in Files : FileInv(f)', mmWarned' = {}
  PROVE  IInv'
<1>1. mm' = mm /\ areas' = areas /\ committed' = committed
  BY DEF mmVars, areaVars
<1>2. ASSUME NEW q \in Procs, q # p PROVE Kept(q)
  <2>1. SameProc(q) /\ \A r \in Procs : r # p => SameProc(r)
    BY <1>2
  <2>2. mmPc[q] \in Dup => mm[q] \in locked'
    BY DEF IInv, PointInv
  <2>3. \A r \in Procs : mmPc[r] = "replace_allow" =>
          mmPc'[r] = "replace_allow" /\ mm'[r] = mm[r] /\ old'[r] = old[r]
    BY <2>1 DEF SameProc
  <2> QED
    BY <1>1, <2>1, <2>2, <2>3, KeptWhen
<1>3. PagesInv'
  BY <1>1 DEF IInv, PagesInv, Linked
<1> QED
  BY <1>1, <1>2, <1>3, CallStep

\* A signal comes before the lock.
LEMMA DupLockKilledKeeps ==
  ASSUME SpacesSound, IInv, NEW p \in Procs, DupLockKilled(p)
  PROVE  IInv'
<1>1. /\ Typed /\ PointInv(p) /\ UNCHANGED mmVars /\ UNCHANGED areaVars /\ UNCHANGED fileVars
      /\ new' = new /\ want' = want /\ mmArea' = mmArea /\ old' = old /\ mmWarned' = mmWarned
      /\ locked' = locked /\ mmPc[p] = "dup_lock" /\ mmPc' = [mmPc EXCEPT ![p] = "put"]
  BY DEF IInv, DupLockKilled, MmGoto, callVars
<1>2. /\ mm' = mm /\ pin' = pin /\ lazy' = lazy /\ oom' = oom /\ work' = work
      /\ users' = users /\ count' = count /\ areas' = areas /\ textOf' = textOf
      /\ exe' = exe /\ fileRefs' = fileRefs /\ writeCount' = writeCount
  BY <1>1 DEF mmVars, areaVars, fileVars
<1>3. Typed' /\ mmPc'[p] = "put"
  BY <1>1, <1>2 DEF Typed, SpacePoints
<1>4. \A q \in Procs : q # p => SameProc(q)
  BY <1>1, <1>2 DEF Typed, SameProc
<1>5. PointInv(p)'
  BY <1>1, <1>2, <1>3 DEF PointInv, Building, Dup, Wanting
<1>6. \A f \in Files : FileInv(f)'
  <2>1. HeldFile(p)' = HeldFile(p) /\ DeniedFile(p)' = DeniedFile(p)
    BY <1>1, <1>3 DEF HeldFile, DeniedFile
  <2>2. \A q \in Procs : HeldFile(q)' = HeldFile(q) /\ DeniedFile(q)' = DeniedFile(q)
    BY <1>4, <2>1, SameHeld
  <2> QED
    BY <1>2, <2>2, FilesSame DEF IInv
<1>7. mmPc'[p] \notin Building /\ mmPc'[p] \notin Dup /\ mmWarned' = {}
  BY <1>1, <1>3 DEF Building, Dup, IInv
<1> QED
  BY <1>1, <1>2, <1>3, <1>4, <1>5, <1>6, <1>7, FileStep

\* get_mm_exe_file takes a reference, or finds that there is none left.
LEMMA TakeOldEffect ==
  ASSUME SpacesSound, Typed, NEW p \in Procs, TakeOld(p)
  PROVE  /\ old' \in [Procs -> Files \cup {NoFile}] /\ fileRefs' \in [Files -> Int]
         /\ \A q \in Procs : q # p => old'[q] = old[q]
         /\ \A f \in Files : fileRefs'[f] = fileRefs[f] + One(old'[p] = f)
         /\ old[p] \in Files /\ fileRefs[old[p]] > 0 => old'[p] = old[p]
         /\ old[p] = NoFile => old'[p] = NoFile
<1>1. old \in [Procs -> Files \cup {NoFile}] /\ fileRefs \in [Files -> Int]
  BY DEF Typed
<1>2. CASE old[p] # NoFile /\ fileRefs[old[p]] > 0
  <2>1. fileRefs' = Add(fileRefs, old[p], 1) /\ old' = old
    BY <1>2 DEF TakeOld
  <2>2. /\ fileRefs' \in [Files -> Int]
        /\ \A f \in Files : fileRefs'[f] = fileRefs[f] + (IF old[p] = f THEN 1 ELSE 0)
    BY <1>1, <2>1, AddIs
  <2> QED
    BY <1>1, <2>1, <2>2 DEF One
<1>3. CASE ~(old[p] # NoFile /\ fileRefs[old[p]] > 0)
  <2>1. fileRefs' = fileRefs /\ old' = [old EXCEPT ![p] = NoFile]
    BY <1>3 DEF TakeOld
  <2>2. NoFile \notin Files
    BY DEF SpacesSound
  <2> QED
    BY <1>1, <1>3, <2>1, <2>2 DEF One
<1> QED
  BY <1>2, <1>3

\* An executable, and a file a call holds or denies, are counted.
LEMMA Counted ==
  ASSUME SpacesSound, IInv, NEW f \in Files
  PROVE  /\ \A m \in Mms : exe[m] = f => fileRefs[f] > 0 /\ writeCount[f] < 0
         /\ \A p \in Procs : HeldFile(p) = f => fileRefs[f] > 0
         /\ \A p \in Procs : DeniedFile(p) = f => writeCount[f] < 0
<1>1. /\ Count(Mms, exe, f) \in Nat /\ Count(Procs, Holders, f) \in Nat
      /\ Count(Procs, Deniers, f) \in Nat
      /\ \A m \in Mms : exe[m] = f => Count(Mms, exe, f) >= 1
      /\ \A p \in Procs : Holders[p] = f => Count(Procs, Holders, f) >= 1
      /\ \A p \in Procs : Deniers[p] = f => Count(Procs, Deniers, f) >= 1
  BY CountNat DEF SpacesSound
<1>2. \A p \in Procs : Holders[p] = HeldFile(p) /\ Deniers[p] = DeniedFile(p)
  BY DEF Holders, Deniers
<1>3. FileInv(f) /\ fileRefs[f] \in Int /\ writeCount[f] \in Int /\ One(f # Exe0) \in 0 .. 1
  BY DEF IInv, Typed, One
<1>4. /\ fileRefs[f] = One(f # Exe0) + Count(Mms, exe, f) + Count(Procs, Holders, f)
      /\ Count(Mms, exe, f) + Count(Procs, Deniers, f) > 0 =>
           writeCount[f] = -(Count(Mms, exe, f) + Count(Procs, Deniers, f))
  BY <1>3 DEF FileInv, DenyRefs
<1>5. ASSUME NEW m \in Mms, exe[m] = f PROVE fileRefs[f] > 0 /\ writeCount[f] < 0
  BY <1>1, <1>3, <1>4, <1>5
<1>6. ASSUME NEW p \in Procs, HeldFile(p) = f PROVE fileRefs[f] > 0
  BY <1>1, <1>2, <1>3, <1>4, <1>6
<1>7. ASSUME NEW p \in Procs, DeniedFile(p) = f PROVE writeCount[f] < 0
  BY <1>1, <1>2, <1>3, <1>4, <1>7
<1> QED
  BY <1>5, <1>6, <1>7

\* The executable dup_mmap has found is still referred to, and still denied.
LEMMA GuardedIsDenied ==
  ASSUME SpacesSound, IInv, NEW p \in Procs, Guarded(p), mm[p] \in Mms, old[p] # NoFile
  PROVE  old[p] \in Files /\ fileRefs[old[p]] > 0 /\ writeCount[old[p]] < 0
<1>1. old[p] \in Files
  BY DEF IInv, Typed
<1>2. CASE old[p] = exe[mm[p]]
  BY <1>1, <1>2, Counted
<1>3. ASSUME NEW q \in Procs, mmPc[q] = "replace_allow", old[q] = old[p]
      PROVE  fileRefs[old[p]] > 0 /\ writeCount[old[p]] < 0
  <2>1. HeldFile(q) = old[p] /\ DeniedFile(q) = old[p]
    BY <1>3 DEF HeldFile, DeniedFile
  <2> QED
    BY <1>1, <2>1, Counted
<1> QED
  BY <1>1, <1>2, <1>3 DEF Guarded

\* dup_mmap takes its reference to the executable, which cannot have gone.
LEMMA DupTakeExeKeeps ==
  ASSUME SpacesSound, IInv, NEW p \in Procs, DupTakeExe(p)
  PROVE  IInv'
<1>1. /\ Typed /\ PointInv(p) /\ UNCHANGED mmVars /\ UNCHANGED areaVars /\ exe' = exe
      /\ new' = new /\ want' = want /\ mmArea' = mmArea /\ locked' = locked
      /\ writeCount' = writeCount /\ TakeOld(p) /\ mmWarned = {}
      /\ mmPc[p] = "dup_take" /\ mmPc' = [mmPc EXCEPT ![p] = "dup_deny"]
  BY DEF IInv, DupTakeExe, MmGoto
<1>2. /\ mm' = mm /\ pin' = pin /\ lazy' = lazy /\ oom' = oom /\ work' = work
      /\ users' = users /\ count' = count /\ areas' = areas /\ textOf' = textOf
  BY <1>1 DEF mmVars, areaVars
<1>3. /\ old' \in [Procs -> Files \cup {NoFile}] /\ fileRefs' \in [Files -> Int]
      /\ \A q \in Procs : q # p => old'[q] = old[q]
      /\ \A f \in Files : fileRefs'[f] = fileRefs[f] + One(old'[p] = f)
      /\ old[p] \in Files /\ fileRefs[old[p]] > 0 => old'[p] = old[p]
      /\ old[p] = NoFile => old'[p] = NoFile
  BY <1>1, TakeOldEffect
<1>4. Guarded(p) /\ mm[p] \in Mms
  BY <1>1 DEF PointInv
<1>5. old'[p] = old[p]
  BY <1>3, <1>4, GuardedIsDenied
<1>6. mmWarned' = {}
  BY <1>1, <1>5 DEF DupTakeExe
<1>7. Typed' /\ mmPc'[p] = "dup_deny"
  BY <1>1, <1>2, <1>3 DEF Typed, SpacePoints, Building, Dup
<1>8. \A q \in Procs : q # p => SameProc(q)
  BY <1>1, <1>2, <1>3 DEF Typed, SameProc
<1>9. PointInv(p)'
  <2>1. \A q \in Procs : old'[q] = old[q]
    BY <1>3, <1>5
  <2>2. Guarded(p)'
    BY <1>1, <1>2, <1>4, <1>8, <2>1 DEF Guarded, SameProc
  <2> QED
    BY <1>1, <1>2, <1>7, <2>2 DEF PointInv, Building, Dup, Wanting
<1>10. ASSUME NEW f \in Files PROVE FileInv(f)'
  <2>1. /\ HeldFile(p) = NoFile /\ HeldFile(p)' = old'[p]
        /\ DeniedFile(p) = NoFile /\ DeniedFile(p)' = NoFile
    BY <1>1, <1>7 DEF HeldFile, DeniedFile
  <2>2. NoFile # f /\ FileInv(f) /\ fileRefs[f] \in Int /\ writeCount[f] \in Int
    BY <1>1 DEF SpacesSound, IInv, Typed
  <2>3. /\ fileRefs'[f] = fileRefs[f] + Gain(HeldFile(p), HeldFile(p)', f)
        /\ Gain(DeniedFile(p), DeniedFile(p)', f) = 0
    BY <1>3, <2>1, <2>2 DEF Gain, One
  <2>4. /\ writeCount'[f] = writeCount[f] - Gain(DeniedFile(p), DeniedFile(p)', f)
        /\ Gain(DeniedFile(p), DeniedFile(p)', f) > 0 => writeCount[f] <= 0
    BY <1>1, <2>2, <2>3
  <2> QED
    BY <1>1, <1>8, <2>2, <2>3, <2>4, FileCall
<1>11. mmPc[p] \in Building /\ mmPc[p] \in Dup /\ mmPc[p] # "replace_allow"
  BY <1>1 DEF Building, Dup
<1> QED
  BY <1>1, <1>6, <1>7, <1>8, <1>9, <1>10, <1>11, FileStep

\* replace_mm_exe_file begins, and reads the executable.
LEMMA ReplaceKeeps ==
  ASSUME SpacesSound, IInv, NEW p \in Procs, NEW g \in Files, Replace(p, g)
  PROVE  IInv'
<1>1. /\ Typed /\ PointInv(p) /\ UNCHANGED mmVars /\ UNCHANGED areaVars /\ UNCHANGED fileVars
      /\ new' = new /\ mmArea' = mmArea /\ locked' = locked /\ mmWarned' = mmWarned
      /\ want' = [want EXCEPT ![p] = g] /\ old' = [old EXCEPT ![p] = exe[mm[p]]]
      /\ mmPc[p] = "user" /\ mmPc' = [mmPc EXCEPT ![p] = "replace_take"]
  BY DEF IInv, Replace, MmGoto
<1>2. /\ mm' = mm /\ pin' = pin /\ lazy' = lazy /\ oom' = oom /\ work' = work
      /\ users' = users /\ count' = count /\ areas' = areas /\ textOf' = textOf
      /\ exe' = exe /\ fileRefs' = fileRefs /\ writeCount' = writeCount
  BY <1>1 DEF mmVars, areaVars, fileVars
<1>3. mm[p] \in Mms
  BY <1>1 DEF PointInv
<1>4. Typed' /\ mmPc'[p] = "replace_take" /\ want'[p] = g
  BY <1>1, <1>2, <1>3 DEF Typed, SpacePoints, Wanting
<1>5. \A q \in Procs : q # p => SameProc(q)
  BY <1>1, <1>2 DEF Typed, SameProc
<1>6. PointInv(p)'
  BY <1>1, <1>2, <1>4 DEF PointInv, Building, Dup, Wanting
<1>7. \A f \in Files : FileInv(f)'
  <2>1. HeldFile(p)' = HeldFile(p) /\ DeniedFile(p)' = DeniedFile(p)
    BY <1>1, <1>4 DEF HeldFile, DeniedFile
  <2>2. \A q \in Procs : HeldFile(q)' = HeldFile(q) /\ DeniedFile(q)' = DeniedFile(q)
    BY <1>5, <2>1, SameHeld
  <2> QED
    BY <1>2, <2>2, FilesSame DEF IInv
<1>8. /\ mmPc'[p] \notin Building /\ mmPc'[p] \notin Dup /\ mmWarned' = {}
      /\ mmPc[p] # "replace_allow"
  BY <1>1, <1>4 DEF Building, Dup, IInv
<1> QED
  BY <1>1, <1>2, <1>4, <1>5, <1>6, <1>7, <1>8, FileStep

\* replace_mm_exe_file takes its reference to the old executable, if it can.
LEMMA ReplaceTakeKeeps ==
  ASSUME SpacesSound, IInv, NEW p \in Procs, ReplaceTake(p)
  PROVE  IInv'
<1>1. /\ Typed /\ PointInv(p) /\ UNCHANGED mmVars /\ UNCHANGED areaVars /\ exe' = exe
      /\ new' = new /\ want' = want /\ mmArea' = mmArea /\ locked' = locked
      /\ writeCount' = writeCount /\ TakeOld(p) /\ mmWarned' = mmWarned
      /\ mmPc[p] = "replace_take" /\ mmPc' = [mmPc EXCEPT ![p] = "replace_check"]
  BY DEF IInv, ReplaceTake, MmGoto
<1>2. /\ mm' = mm /\ pin' = pin /\ lazy' = lazy /\ oom' = oom /\ work' = work
      /\ users' = users /\ count' = count /\ areas' = areas /\ textOf' = textOf
  BY <1>1 DEF mmVars, areaVars
<1>3. /\ old' \in [Procs -> Files \cup {NoFile}] /\ fileRefs' \in [Files -> Int]
      /\ \A q \in Procs : q # p => old'[q] = old[q]
      /\ \A f \in Files : fileRefs'[f] = fileRefs[f] + One(old'[p] = f)
  BY <1>1, TakeOldEffect
<1>4. Typed' /\ mmPc'[p] = "replace_check"
  BY <1>1, <1>2, <1>3 DEF Typed, SpacePoints, Wanting
<1>5. \A q \in Procs : q # p => SameProc(q)
  BY <1>1, <1>2, <1>3 DEF Typed, SameProc
<1>6. PointInv(p)'
  BY <1>1, <1>2, <1>4 DEF PointInv, Building, Dup, Wanting
<1>7. ASSUME NEW f \in Files PROVE FileInv(f)'
  <2>1. /\ HeldFile(p) = NoFile /\ HeldFile(p)' = old'[p]
        /\ DeniedFile(p) = NoFile /\ DeniedFile(p)' = NoFile
    BY <1>1, <1>4 DEF HeldFile, DeniedFile
  <2>2. NoFile # f /\ FileInv(f) /\ fileRefs[f] \in Int /\ writeCount[f] \in Int
    BY <1>1 DEF SpacesSound, IInv, Typed
  <2>3. /\ fileRefs'[f] = fileRefs[f] + Gain(HeldFile(p), HeldFile(p)', f)
        /\ Gain(DeniedFile(p), DeniedFile(p)', f) = 0
    BY <1>3, <2>1, <2>2 DEF Gain, One
  <2>4. /\ writeCount'[f] = writeCount[f] - Gain(DeniedFile(p), DeniedFile(p)', f)
        /\ Gain(DeniedFile(p), DeniedFile(p)', f) > 0 => writeCount[f] <= 0
    BY <1>1, <2>2, <2>3
  <2> QED
    BY <1>1, <1>5, <2>2, <2>3, <2>4, FileCall
<1>8. /\ mmPc'[p] \notin Building /\ mmPc'[p] \notin Dup /\ mmWarned' = {}
      /\ mmPc[p] # "replace_allow"
  BY <1>1, <1>4 DEF Building, Dup, IInv
<1> QED
  BY <1>1, <1>4, <1>5, <1>6, <1>7, <1>8, FileStep

\* It looks for mappings of the old executable, whose reference it drops.
LEMMA ReplaceCheckKeeps ==
  ASSUME SpacesSound, IInv, NEW p \in Procs, ReplaceCheck(p)
  PROVE  IInv'
<1> DEFINE busy == /\ old[p] # NoFile /\ textOf[mm[p]] = old[p]
                   /\ \E v \in areas[mm[p]] : Layout[v].text
<1>1. /\ Typed /\ PointInv(p) /\ UNCHANGED mmVars /\ UNCHANGED areaVars /\ exe' = exe
      /\ new' = new /\ mmArea' = mmArea /\ locked' = locked
      /\ writeCount' = writeCount /\ mmWarned' = mmWarned
      /\ fileRefs' = Add(fileRefs, old[p], -1) /\ old' = [old EXCEPT ![p] = NoFile]
      /\ want' = [want EXCEPT ![p] = IF busy THEN NoFile ELSE @]
      /\ mmPc[p] = "replace_check"
      /\ mmPc' = [mmPc EXCEPT ![p] = IF busy THEN "user" ELSE "replace_deny"]
  BY DEF IInv, ReplaceCheck, MmGoto
<1> HIDE DEF busy
<1>2. /\ mm' = mm /\ pin' = pin /\ lazy' = lazy /\ oom' = oom /\ work' = work
      /\ users' = users /\ count' = count /\ areas' = areas /\ textOf' = textOf
  BY <1>1 DEF mmVars, areaVars
<1>3. /\ fileRefs' \in [Files -> Int]
      /\ \A f \in Files : fileRefs'[f] = fileRefs[f] + (IF old[p] = f THEN -1 ELSE 0)
  BY <1>1, AddIs DEF Typed
<1>4. /\ mmPc' \in [Procs -> SpacePoints] /\ mmPc'[p] \in {"user", "replace_deny"}
      /\ mmPc'[p] = "replace_deny" => want'[p] = want[p]
  BY <1>1 DEF Typed, SpacePoints, Wanting
<1>5. Typed'
  BY <1>1, <1>2, <1>3, <1>4 DEF Typed
<1>6. \A q \in Procs : q # p => SameProc(q)
  BY <1>1, <1>2 DEF Typed, SameProc
<1>7. PointInv(p)'
  BY <1>1, <1>2, <1>4 DEF PointInv, Building, Dup, Wanting
<1>8. ASSUME NEW f \in Files PROVE FileInv(f)'
  <2>1. /\ HeldFile(p) = old[p] /\ HeldFile(p)' = NoFile
        /\ DeniedFile(p) = NoFile /\ DeniedFile(p)' = NoFile
    BY <1>1, <1>4 DEF HeldFile, DeniedFile
  <2>2. NoFile # f /\ FileInv(f) /\ fileRefs[f] \in Int /\ writeCount[f] \in Int
    BY <1>1 DEF SpacesSound, IInv, Typed
  <2>3. /\ fileRefs'[f] = fileRefs[f] + Gain(HeldFile(p), HeldFile(p)', f)
        /\ Gain(DeniedFile(p), DeniedFile(p)', f) = 0
    BY <1>3, <2>1, <2>2 DEF Gain, One
  <2>4. /\ writeCount'[f] = writeCount[f] - Gain(DeniedFile(p), DeniedFile(p)', f)
        /\ Gain(DeniedFile(p), DeniedFile(p)', f) > 0 => writeCount[f] <= 0
    BY <1>1, <2>2, <2>3
  <2> QED
    BY <1>1, <1>6, <2>2, <2>3, <2>4, FileCall
<1>9. /\ mmPc'[p] \notin Building /\ mmPc'[p] \notin Dup /\ mmWarned' = {}
      /\ mmPc[p] # "replace_allow"
  BY <1>1, <1>4 DEF Building, Dup, IInv
<1> QED
  BY <1>1, <1>5, <1>6, <1>7, <1>8, <1>9, FileStep

\* It denies the new file to writers and counts it, or fails.
LEMMA ReplaceDenyKeeps ==
  ASSUME SpacesSound, IInv, NEW p \in Procs, ReplaceDeny(p)
  PROVE  IInv'
<1>1. /\ Typed /\ PointInv(p) /\ UNCHANGED mmVars /\ UNCHANGED areaVars /\ exe' = exe
      /\ new' = new /\ mmArea' = mmArea /\ locked' = locked /\ old' = old
      /\ mmWarned' = mmWarned /\ mmPc[p] = "replace_deny"
  BY DEF IInv, ReplaceDeny, MmGoto
<1>2. /\ mm' = mm /\ pin' = pin /\ lazy' = lazy /\ oom' = oom /\ work' = work
      /\ users' = users /\ count' = count /\ areas' = areas /\ textOf' = textOf
  BY <1>1 DEF mmVars, areaVars
<1>3. want[p] \in Files
  BY <1>1 DEF PointInv, Wanting
<1>4. CASE writeCount[want[p]] > 0
  <2>1. /\ mmPc' = [mmPc EXCEPT ![p] = "user"] /\ want' = [want EXCEPT ![p] = NoFile]
        /\ fileRefs' = fileRefs /\ writeCount' = writeCount
    BY <1>4 DEF ReplaceDeny, MmGoto
  <2>2. Typed' /\ mmPc'[p] = "user"
    BY <1>1, <1>2, <2>1 DEF Typed, SpacePoints
  <2>3. \A q \in Procs : q # p => SameProc(q)
    BY <1>1, <1>2, <2>1 DEF Typed, SameProc
  <2>4. PointInv(p)'
    BY <1>1, <1>2, <2>2 DEF PointInv, Building, Dup, Wanting
  <2>5. \A f \in Files : FileInv(f)'
    <3>1. HeldFile(p)' = HeldFile(p) /\ DeniedFile(p)' = DeniedFile(p)
      BY <1>1, <2>2 DEF HeldFile, DeniedFile
    <3>2. \A q \in Procs : HeldFile(q)' = HeldFile(q) /\ DeniedFile(q)' = DeniedFile(q)
      BY <2>3, <3>1, SameHeld
    <3> QED
      BY <1>1, <2>1, <3>2, FilesSame DEF IInv
  <2>6. /\ mmPc'[p] \notin Building /\ mmPc'[p] \notin Dup /\ mmWarned' = {}
        /\ mmPc[p] # "replace_allow"
    BY <1>1, <2>2 DEF Building, Dup, IInv
  <2> QED
    BY <1>1, <2>2, <2>3, <2>4, <2>5, <2>6, FileStep
<1>5. CASE ~(writeCount[want[p]] > 0)
  <2>1. /\ mmPc' = [mmPc EXCEPT ![p] = "replace_xchg"] /\ want' = want
        /\ fileRefs' = Add(fileRefs, want[p], 1) /\ writeCount' = Add(writeCount, want[p], -1)
    BY <1>5 DEF ReplaceDeny, MmGoto
  <2>2. /\ fileRefs' \in [Files -> Int] /\ writeCount' \in [Files -> Int]
        /\ \A f \in Files : /\ fileRefs'[f] = fileRefs[f] + (IF want[p] = f THEN 1 ELSE 0)
                            /\ writeCount'[f] = writeCount[f] + (IF want[p] = f THEN -1 ELSE 0)
    <3>1. fileRefs \in [Files -> Int] /\ writeCount \in [Files -> Int]
      BY <1>1 DEF Typed
    <3> QED
      BY <2>1, <3>1, AddIs
  <2>3. Typed' /\ mmPc'[p] = "replace_xchg"
    BY <1>1, <1>2, <2>1, <2>2 DEF Typed, SpacePoints, Wanting
  <2>4. \A q \in Procs : q # p => SameProc(q)
    BY <1>1, <1>2, <2>1 DEF Typed, SameProc
  <2>5. PointInv(p)'
    BY <1>1, <1>2, <1>3, <2>1, <2>3 DEF PointInv, Building, Dup, Wanting
  <2>6. ASSUME NEW f \in Files PROVE FileInv(f)'
    <3>1. /\ HeldFile(p) = NoFile /\ HeldFile(p)' = want[p]
          /\ DeniedFile(p) = NoFile /\ DeniedFile(p)' = want[p]
      BY <1>1, <2>1, <2>3 DEF HeldFile, DeniedFile
    <3>2. NoFile # f /\ FileInv(f) /\ fileRefs[f] \in Int /\ writeCount[f] \in Int
      BY <1>1 DEF SpacesSound, IInv, Typed
    <3>3. /\ fileRefs'[f] = fileRefs[f] + Gain(HeldFile(p), HeldFile(p)', f)
          /\ Gain(DeniedFile(p), DeniedFile(p)', f) = (IF want[p] = f THEN 1 ELSE 0)
      BY <2>2, <3>1, <3>2 DEF Gain, One
    <3>4. /\ writeCount'[f] = writeCount[f] - Gain(DeniedFile(p), DeniedFile(p)', f)
          /\ Gain(DeniedFile(p), DeniedFile(p)', f) > 0 => writeCount[f] <= 0
      BY <1>5, <2>2, <3>2, <3>3
    <3> QED
      BY <1>1, <2>4, <3>2, <3>3, <3>4, FileCall
  <2>7. /\ mmPc'[p] \notin Building /\ mmPc'[p] \notin Dup /\ mmWarned' = {}
        /\ mmPc[p] # "replace_allow"
    BY <1>1, <2>3 DEF Building, Dup, IInv
  <2> QED
    BY <1>1, <2>3, <2>4, <2>5, <2>6, <2>7, FileStep
<1> QED
  BY <1>4, <1>5

\* A step in dup_mmap that changes only the mm being built leaves q alone.
LEMMA BuildKept ==
  ASSUME IInv, NEW p \in Procs, mmPc[p] \in Building, NEW q \in Procs, q # p, mm' = mm,
         \A r \in Procs : r # p => SameProc(r),
         \A m \in Mms : m # new[p] => areas'[m] = areas[m] /\ exe'[m] = exe[m],
         mmPc[q] \in Dup => mm[q] \in locked'
  PROVE  Kept(q)
<1>1. Private(p) /\ PointInv(q) /\ SameProc(q)
  BY DEF IInv
<1>2. mmPc[q] \in Building => new[q] \in Mms /\ new[q] # new[p]
  BY <1>1 DEF PointInv, Private
<1>3. mmPc[q] \in Dup => mm[q] \in Mms /\ mm[q] # new[p]
  BY <1>1 DEF PointInv, Private, Dup
<1>4. \A r \in Procs : mmPc[r] = "replace_allow" =>
        mmPc'[r] = "replace_allow" /\ mm'[r] = mm[r] /\ old'[r] = old[r]
  <2>1. mmPc[p] # "replace_allow"
    BY DEF Building, Dup
  <2> QED
    BY <2>1 DEF SameProc
<1> QED
  BY <1>1, <1>2, <1>3, <1>4, KeptWhen

\* The locks of p are not those of another thread in dup_mmap.
LEMMA UnlockKept ==
  ASSUME IInv, NEW p \in Procs, mmPc[p] \in Dup, NEW q \in Procs, q # p, mmPc[q] \in Dup,
         DupUnlock(p)
  PROVE  mm[q] \in locked'
<1>1. mm[q] # mm[p]
  BY DEF IInv, LockInv
<1>2. mm[q] # new[p]
  BY DEF IInv, Private, Building
<1>3. mm[q] \in locked
  BY DEF IInv, PointInv
<1> QED
  BY <1>1, <1>2, <1>3 DEF DupUnlock

\* The new mm has the executable, which is denied once more.
LEMMA DupDenyExeKeeps ==
  ASSUME SpacesSound, IInv, NEW p \in Procs, DupDenyExe(p)
  PROVE  IInv'
<1>1. /\ Typed /\ PointInv(p) /\ UNCHANGED mmVars /\ areas' = areas /\ committed' = committed
      /\ new' = new /\ want' = want /\ mmArea' = mmArea /\ locked' = locked
      /\ fileRefs' = fileRefs /\ mmWarned = {}
      /\ exe' = [exe EXCEPT ![new[p]] = old[p]] /\ old' = [old EXCEPT ![p] = NoFile]
      /\ textOf' = [textOf EXCEPT ![new[p]] = textOf[mm[p]]]
      /\ mmPc[p] = "dup_deny" /\ mmPc' = [mmPc EXCEPT ![p] = "dup_area"]
  BY DEF IInv, DupDenyExe, MmGoto
<1>2. /\ mm' = mm /\ pin' = pin /\ lazy' = lazy /\ oom' = oom /\ work' = work
      /\ users' = users /\ count' = count
  BY <1>1 DEF mmVars
<1>3. /\ Guarded(p) /\ mm[p] \in Mms /\ new[p] \in Mms /\ areas[new[p]] = {}
      /\ exe[new[p]] = NoFile /\ mmPc[p] \in Building /\ mmPc[p] \in Dup
  BY <1>1 DEF PointInv, Building, Dup
<1>4. old[p] # NoFile => old[p] \in Files /\ writeCount[old[p]] < 0
  BY <1>3, GuardedIsDenied
<1>5. writeCount' = Add(writeCount, old[p], -1) /\ mmWarned' = {}
  <2>1. ~(old[p] # NoFile /\ writeCount[old[p]] > 0)
    BY <1>1, <1>4 DEF Typed
  <2> QED
    BY <1>1, <2>1 DEF DupDenyExe
<1>6. /\ writeCount' \in [Files -> Int]
      /\ \A f \in Files : writeCount'[f] = writeCount[f] + (IF old[p] = f THEN -1 ELSE 0)
  <2>1. writeCount \in [Files -> Int]
    BY <1>1 DEF Typed
  <2> QED
    BY <1>5, <2>1, AddIs
<1>7. Typed' /\ mmPc'[p] = "dup_area" /\ exe'[new[p]] = old[p]
  BY <1>1, <1>2, <1>3, <1>6 DEF Typed, SpacePoints, Building, Dup
<1>8. /\ \A q \in Procs : q # p => SameProc(q)
      /\ \A m \in Mms : m # new[p] => areas'[m] = areas[m] /\ exe'[m] = exe[m]
  BY <1>1, <1>2 DEF Typed, SameProc
<1>9. ASSUME NEW q \in Procs, q # p PROVE Kept(q)
  <2>1. mmPc[q] \in Dup => mm[q] \in locked'
    BY <1>1 DEF IInv, PointInv
  <2> QED
    BY <1>2, <1>3, <1>8, <1>9, <2>1, BuildKept
<1>10. PointInv(p)'
  BY <1>1, <1>2, <1>3, <1>7 DEF PointInv, Building, Dup, Wanting
<1>11. ASSUME NEW f \in Files PROVE FileInv(f)'
  <2> DEFINE x == new[p]
             d == Gain(exe[x], exe'[x], f) + Gain(DeniedFile(p), DeniedFile(p)', f)
  <2>1. /\ HeldFile(p) = old[p] /\ HeldFile(p)' = NoFile
        /\ DeniedFile(p) = NoFile /\ DeniedFile(p)' = NoFile
    BY <1>1, <1>7 DEF HeldFile, DeniedFile
  <2>2. NoFile # f /\ FileInv(f) /\ fileRefs[f] \in Int /\ writeCount[f] \in Int
    BY <1>1 DEF SpacesSound, IInv, Typed
  <2>3. /\ Gain(exe[x], exe'[x], f) = (IF old[p] = f THEN 1 ELSE 0)
        /\ Gain(HeldFile(p), HeldFile(p)', f) = (IF old[p] = f THEN -1 ELSE 0)
        /\ Gain(DeniedFile(p), DeniedFile(p)', f) = 0
    BY <1>3, <1>7, <2>1, <2>2 DEF Gain, One
  <2>4. fileRefs'[f] = fileRefs[f] + Gain(exe[x], exe'[x], f)
                       + Gain(HeldFile(p), HeldFile(p)', f)
    BY <1>1, <2>2, <2>3
  <2>5. d = (IF old[p] = f THEN 1 ELSE 0) /\ d \in Int
    BY <2>3
  <2>6. writeCount'[f] = writeCount[f] - d /\ (d > 0 => writeCount[f] <= 0)
    BY <1>4, <1>6, <2>2, <2>5
  <2>7. \A q \in Procs : q # p => HeldFile(q)' = HeldFile(q) /\ DeniedFile(q)' = DeniedFile(q)
    BY <1>8, SameHeld
  <2>8. /\ d = Gain(exe[x], exe'[x], f) + Gain(DeniedFile(p), DeniedFile(p)', f)
        /\ x \in Mms /\ \A y \in Mms : y # x => exe'[y] = exe[y]
    BY <1>3, <1>8
  <2> HIDE DEF d, x
  <2> QED
    BY <1>1, <2>2, <2>4, <2>5, <2>6, <2>7, <2>8, FileMove
<1>12. \A m \in Mms : InUse(m) \/ (areas'[m] = areas[m] /\ exe'[m] = exe[m])
  <2>1. InUse(new[p])
    BY <1>3, Referred
  <2> QED
    BY <1>8, <2>1
<1>13. PagesInv'
  BY <1>1 DEF IInv, PagesInv, Linked
<1> QED
  BY <1>1, <1>3, <1>5, <1>7, <1>8, <1>9, <1>10, <1>11, <1>12, <1>13, CallStep

\* An area of the mm of p is linked in the mm p builds, and charged.
LEMMA LinkArea ==
  ASSUME SpacesSound, IInv, NEW p \in Procs, mmPc[p] = "dup_area", mmArea[p] \in DOMAIN Layout,
         areas' = [areas EXCEPT ![new[p]] = @ \cup {mmArea[p]}],
         committed' = committed + Pages(mmArea[p])
  PROVE  PagesInv'
<1> DEFINE V == {mmArea[p]}
<1>1. new[p] \in Mms /\ \A v \in areas[new[p]] : v < mmArea[p]
  BY DEF IInv, PointInv, Building, Dup
<1>2. mmArea[p] \in Int
  BY DEF IInv, Typed
<1>3. V \cap areas[new[p]] = {} /\ V \in SUBSET DOMAIN Layout
  BY <1>1, <1>2
<1>4. SumPages(V) = Pages(mmArea[p])
  BY AreaPages
<1>5. Typed /\ PagesInv
  BY DEF IInv
<1>6. areas' = [areas EXCEPT ![new[p]] = @ \cup V] /\ committed' = committed + SumPages(V)
  BY <1>4
<1> HIDE DEF V
<1> QED
  BY <1>1, <1>3, <1>5, <1>6, PagesLink

\* No area or one area is linked in the mm that p builds.
LEMMA BuildStep ==
  ASSUME SpacesSound, IInv, NEW p \in Procs, mmPc[p] = "dup_area", UNCHANGED mmVars,
         UNCHANGED fileVars, textOf' = textOf, UNCHANGED <<new, old, want>>, mmWarned' = mmWarned,
         mmPc'[p] \in {"dup_area", "put"}, \A q \in Procs : q # p => SameProc(q),
         mmPc' \in [Procs -> SpacePoints], mmArea' \in [Procs -> 1 .. Len(Layout) + 1],
         locked' \subseteq Mms, \A q \in Procs : q # p /\ mmPc[q] \in Dup => mm[q] \in locked',
         NEW b \in BOOLEAN, b => mmArea[p] \in DOMAIN Layout,
         areas' = IF b THEN [areas EXCEPT ![new[p]] = @ \cup {mmArea[p]}] ELSE areas,
         committed' = IF b THEN committed + Pages(mmArea[p]) ELSE committed,
         mmPc'[p] = "dup_area" => mmArea'[p] = mmArea[p] + 1 /\ mm[p] \in locked'
  PROVE  IInv'
<1>1. /\ mm' = mm /\ pin' = pin /\ lazy' = lazy /\ oom' = oom /\ work' = work
      /\ users' = users /\ count' = count /\ exe' = exe /\ fileRefs' = fileRefs
      /\ writeCount' = writeCount /\ new' = new /\ old' = old /\ want' = want
  BY DEF mmVars, fileVars
<1>2. /\ Typed /\ PointInv(p) /\ mm[p] \in Mms /\ new[p] \in Mms /\ mmArea[p] \in Int
      /\ mmPc[p] \in Building /\ mmPc[p] \in Dup /\ \A v \in areas[new[p]] : v < mmArea[p]
  BY DEF IInv, Typed, PointInv, Building, Dup
<1>3. /\ areas' \in [Mms -> SUBSET DOMAIN Layout]
      /\ \A m \in Mms : m # new[p] => areas'[m] = areas[m]
      /\ areas'[new[p]] \subseteq areas[new[p]] \cup {mmArea[p]}
  <2>1. areas \in [Mms -> SUBSET DOMAIN Layout]
    BY <1>2 DEF Typed
  <2>2. CASE b
    BY <1>2, <2>1, <2>2
  <2>3. CASE ~b
    BY <1>2, <2>1, <2>3
  <2> QED
    BY <2>2, <2>3
<1>4. Typed'
  BY <1>1, <1>2, <1>3 DEF Typed
<1>5. \A m \in Mms : m # new[p] => areas'[m] = areas[m] /\ exe'[m] = exe[m]
  BY <1>1, <1>3
<1>6. ASSUME NEW q \in Procs, q # p PROVE Kept(q)
  BY <1>1, <1>2, <1>5, <1>6, BuildKept
<1>7. \A v \in areas'[new[p]] : v < mmArea[p] + 1
  <2>1. \A v \in DOMAIN Layout : v \in Int
    BY DEF SpacesSound
  <2>2. areas'[new[p]] \subseteq DOMAIN Layout
    BY <1>2, <1>3
  <2> QED
    BY <1>2, <1>3, <2>1, <2>2
<1>8. PointInv(p)'
  <2>1. CASE mmPc'[p] = "put"
    BY <1>1, <1>2, <2>1 DEF PointInv, Building, Dup, Wanting
  <2>2. CASE mmPc'[p] = "dup_area"
    BY <1>1, <1>2, <1>7, <2>2 DEF PointInv, Building, Dup, Wanting
  <2> QED
    BY <2>1, <2>2
<1>9. PagesInv'
  <2>1. CASE b
    BY <2>1, LinkArea
  <2>2. CASE ~b
    BY <2>2 DEF IInv, PagesInv, Linked
  <2> QED
    BY <2>1, <2>2
<1>10. \A f \in Files : FileInv(f)'
  <2>1. HeldFile(p)' = HeldFile(p) /\ DeniedFile(p)' = DeniedFile(p)
    BY DEF HeldFile, DeniedFile
  <2>2. \A q \in Procs : HeldFile(q)' = HeldFile(q) /\ DeniedFile(q)' = DeniedFile(q)
    BY <2>1, SameHeld
  <2> QED
    BY <1>1, <2>2, FilesSame DEF IInv
<1>11. \A m \in Mms : InUse(m) \/ (areas'[m] = areas[m] /\ exe'[m] = exe[m])
  <2>1. InUse(new[p])
    BY <1>2, Referred
  <2> QED
    BY <1>5, <2>1
<1>12. mmWarned' = {}
  BY DEF IInv
<1> QED
  BY <1>1, <1>2, <1>4, <1>6, <1>8, <1>9, <1>10, <1>11, <1>12, CallStep

\* An area is copied, or passed over.
LEMMA CopyAreaKeeps ==
  ASSUME SpacesSound, IInv, NEW p \in Procs, CopyArea(p)
  PROVE  IInv'
<1> DEFINE b == Copied(p)
<1>1. /\ Typed /\ mmPc[p] = "dup_area" /\ mmArea[p] \in DOMAIN Layout /\ UNCHANGED mmVars
      /\ UNCHANGED fileVars /\ textOf' = textOf /\ UNCHANGED <<new, old, want>>
      /\ mmWarned' = mmWarned /\ locked' = locked /\ mmPc' = mmPc
      /\ mmArea' = [mmArea EXCEPT ![p] = @ + 1]
      /\ areas' = IF b THEN [areas EXCEPT ![new[p]] = @ \cup {mmArea[p]}] ELSE areas
      /\ committed' = IF b THEN committed + Pages(mmArea[p]) ELSE committed
      /\ b \in BOOLEAN
  BY DEF IInv, CopyArea, Copied
<1> HIDE DEF b
<1>2. mm' = mm /\ pin' = pin /\ lazy' = lazy
  BY <1>1 DEF mmVars
<1>3. DOMAIN Layout = 1 .. Len(Layout) /\ Len(Layout) \in Nat
  BY DEF SpacesSound
<1>4. mmArea' \in [Procs -> 1 .. Len(Layout) + 1] /\ mmArea'[p] = mmArea[p] + 1
  BY <1>1, <1>3 DEF Typed
<1>5. \A q \in Procs : q # p => SameProc(q)
  BY <1>1, <1>2 DEF Typed, SameProc
<1>6. /\ mmPc' \in [Procs -> SpacePoints] /\ locked' \subseteq Mms
      /\ \A q \in Procs : mmPc[q] \in Dup => mm[q] \in locked'
      /\ mmPc[p] \in Dup
  BY <1>1 DEF IInv, Typed, PointInv, Dup
<1> QED
  BY <1>1, <1>4, <1>5, <1>6, BuildStep

\* An area fails, linked or not, and both locks are released.
LEMMA FailAreaKeeps ==
  ASSUME SpacesSound, IInv, NEW p \in Procs, NEW linked \in BOOLEAN, FailArea(p, linked)
  PROVE  IInv'
<1>1. /\ Typed /\ mmPc[p] = "dup_area" /\ mmArea[p] \in DOMAIN Layout /\ UNCHANGED mmVars
      /\ UNCHANGED fileVars /\ textOf' = textOf /\ UNCHANGED <<new, old, want>>
      /\ mmWarned' = mmWarned /\ DupUnlock(p) /\ mmPc' = [mmPc EXCEPT ![p] = "put"]
      /\ areas' = IF linked THEN [areas EXCEPT ![new[p]] = @ \cup {mmArea[p]}] ELSE areas
      /\ committed' = IF linked THEN committed + Pages(mmArea[p]) ELSE committed
  BY DEF IInv, FailArea, MmGoto
<1>2. mm' = mm /\ pin' = pin /\ lazy' = lazy
  BY <1>1 DEF mmVars
<1>3. mmArea' = [mmArea EXCEPT ![p] = 1] /\ locked' = locked \ {mm[p], new[p]}
  BY <1>1 DEF DupUnlock
<1>4. Len(Layout) \in Nat
  BY DEF SpacesSound
<1>5. mmArea' \in [Procs -> 1 .. Len(Layout) + 1] /\ locked' \subseteq Mms
  BY <1>1, <1>3, <1>4 DEF Typed
<1>6. \A q \in Procs : q # p => SameProc(q)
  BY <1>1, <1>2, <1>3 DEF Typed, SameProc
<1>7. mmPc' \in [Procs -> SpacePoints] /\ mmPc'[p] = "put" /\ mmPc[p] \in Dup
  BY <1>1 DEF Typed, SpacePoints, Dup
<1>8. \A q \in Procs : q # p /\ mmPc[q] \in Dup => mm[q] \in locked'
  BY <1>1, <1>7, UnlockKept
<1> QED
  BY <1>1, <1>5, <1>6, <1>7, <1>8, BuildStep

\* A stage after the last area fails, and both locks are released.
LEMMA DupLateFailKeeps ==
  ASSUME SpacesSound, IInv, NEW p \in Procs, DupLateFail(p)
  PROVE  IInv'
<1> DEFINE b == FALSE
<1>1. /\ Typed /\ mmPc[p] = "dup_area" /\ UNCHANGED mmVars
      /\ UNCHANGED fileVars /\ textOf' = textOf /\ UNCHANGED <<new, old, want>>
      /\ mmWarned' = mmWarned /\ DupUnlock(p) /\ mmPc' = [mmPc EXCEPT ![p] = "put"]
      /\ areas' = IF b THEN [areas EXCEPT ![new[p]] = @ \cup {mmArea[p]}] ELSE areas
      /\ committed' = IF b THEN committed + Pages(mmArea[p]) ELSE committed
      /\ b \in BOOLEAN /\ ~b
  BY DEF IInv, DupLateFail, MmGoto, areaVars
<1> HIDE DEF b
<1>2. mm' = mm /\ pin' = pin /\ lazy' = lazy
  BY <1>1 DEF mmVars
<1>3. mmArea' = [mmArea EXCEPT ![p] = 1] /\ locked' = locked \ {mm[p], new[p]}
  BY <1>1 DEF DupUnlock
<1>4. Len(Layout) \in Nat
  BY DEF SpacesSound
<1>5. mmArea' \in [Procs -> 1 .. Len(Layout) + 1] /\ locked' \subseteq Mms
  BY <1>1, <1>3, <1>4 DEF Typed
<1>6. \A q \in Procs : q # p => SameProc(q)
  BY <1>1, <1>2, <1>3 DEF Typed, SameProc
<1>7. mmPc' \in [Procs -> SpacePoints] /\ mmPc'[p] = "put" /\ mmPc[p] \in Dup
  BY <1>1 DEF Typed, SpacePoints, Dup
<1>8. \A q \in Procs : q # p /\ mmPc[q] \in Dup => mm[q] \in locked'
  BY <1>1, <1>7, UnlockKept
<1> QED
  BY <1>1, <1>5, <1>6, <1>7, <1>8, BuildStep

\* An area of the mm of p is unmapped.
LEMMA UnmapKeeps ==
  ASSUME SpacesSound, IInv, NEW p \in Procs, NEW v \in DOMAIN Layout, Unmap(p, v)
  PROVE  IInv'
<1> DEFINE V == {v}
<1>1. /\ Typed /\ PointInv(p) /\ UNCHANGED mmVars /\ UNCHANGED fileVars /\ textOf' = textOf
      /\ new' = new /\ old' = old /\ want' = want /\ mmArea' = mmArea /\ locked' = locked
      /\ mmPc' = mmPc /\ mmWarned' = mmWarned /\ mmPc[p] = "user" /\ v \in areas[mm[p]]
      /\ areas' = [areas EXCEPT ![mm[p]] = @ \ V] /\ committed' = committed - Pages(v)
  BY DEF IInv, Unmap, callVars
<1>2. /\ mm' = mm /\ pin' = pin /\ lazy' = lazy /\ oom' = oom /\ work' = work
      /\ users' = users /\ count' = count /\ exe' = exe /\ fileRefs' = fileRefs
      /\ writeCount' = writeCount
  BY <1>1 DEF mmVars, fileVars
<1>3. mm[p] \in Mms
  BY <1>1 DEF PointInv
<1>4. PagesInv'
  <2>1. SumPages(V) = Pages(v)
    BY AreaPages
  <2>2. Typed /\ PagesInv /\ V \in SUBSET areas[mm[p]] /\ committed' = committed - SumPages(V)
    BY <1>1, <2>1 DEF IInv
  <2> HIDE DEF V
  <2> QED
    BY <1>1, <1>3, <2>2, PagesUnlink
<1>5. /\ areas' \in [Mms -> SUBSET DOMAIN Layout]
      /\ \A m \in Mms : m # mm[p] => areas'[m] = areas[m]
  <2>1. areas \in [Mms -> SUBSET DOMAIN Layout]
    BY <1>1 DEF Typed
  <2> QED
    BY <1>1, <1>3, <2>1
<1> HIDE DEF V
<1>6. Typed'
  BY <1>1, <1>2, <1>5 DEF Typed
<1>7. \A q \in Procs : SameProc(q)
  BY <1>1, <1>2 DEF SameProc
<1>8. ASSUME NEW q \in Procs PROVE Kept(q)
  <2>1. PointInv(q) /\ Private(q)
    BY DEF IInv
  <2>2. mmPc[q] \in Building => new[q] \in Mms /\ new[q] # mm[p]
    BY <2>1 DEF PointInv, Private
  <2>3. mmPc[q] \in Dup => mm[q] \in locked'
    BY <1>1, <2>1 DEF PointInv
  <2> QED
    BY <1>1, <1>2, <1>5, <1>7, <2>2, <2>3, KeptWhen
<1>9. PointInv(p)'
  BY <1>1, <1>2 DEF PointInv, Building, Dup, Wanting
<1>10. \A f \in Files : FileInv(f)'
  BY <1>2, <1>7, SameHeld, FilesSame DEF IInv
<1>11. \A m \in Mms : InUse(m) \/ (areas'[m] = areas[m] /\ exe'[m] = exe[m])
  <2>1. InUse(mm[p])
    BY <1>3, Referred
  <2> QED
    BY <1>2, <1>5, <2>1
<1>12. mmWarned' = {} /\ mmPc'[p] \notin Building /\ mmPc'[p] \notin Dup
  BY <1>1 DEF IInv, Building, Dup
<1> QED
  BY <1>1, <1>4, <1>6, <1>7, <1>8, <1>9, <1>10, <1>11, <1>12, CallStep

\* The executable is exchanged; what was there is still denied.
LEMMA ReplaceXchgKeeps ==
  ASSUME SpacesSound, IInv, NEW p \in Procs, ReplaceXchg(p)
  PROVE  IInv'
<1> DEFINE x == mm[p]
<1>1. /\ Typed /\ PointInv(p) /\ UNCHANGED mmVars /\ UNCHANGED areaVars
      /\ fileRefs' = fileRefs /\ writeCount' = writeCount
      /\ new' = new /\ mmArea' = mmArea /\ locked' = locked /\ mmWarned' = mmWarned
      /\ exe' = [exe EXCEPT ![x] = want[p]] /\ old' = [old EXCEPT ![p] = exe[x]]
      /\ want' = [want EXCEPT ![p] = NoFile]
      /\ mmPc[p] = "replace_xchg" /\ mmPc' = [mmPc EXCEPT ![p] = "replace_allow"]
  BY DEF IInv, ReplaceXchg, MmGoto
<1>2. /\ mm' = mm /\ pin' = pin /\ lazy' = lazy /\ oom' = oom /\ work' = work
      /\ users' = users /\ count' = count /\ areas' = areas /\ textOf' = textOf
      /\ committed' = committed
  BY <1>1 DEF mmVars, areaVars
<1>3. x \in Mms /\ want[p] \in Files
  BY <1>1 DEF PointInv, Wanting
<1>4. /\ Typed' /\ mmPc'[p] = "replace_allow" /\ exe'[x] = want[p] /\ old'[p] = exe[x]
      /\ \A m \in Mms : m # x => exe'[m] = exe[m]
  BY <1>1, <1>2, <1>3 DEF Typed, SpacePoints
<1>5. \A q \in Procs : q # p => SameProc(q)
  BY <1>1, <1>2 DEF Typed, SameProc
<1>6. ASSUME NEW q \in Procs, q # p PROVE Kept(q)
  <2>1. PointInv(q) /\ Private(q) /\ SameProc(q)
    BY <1>5, <1>6 DEF IInv
  <2>2. mmPc[q] \in Building => areas'[new[q]] = areas[new[q]] /\ exe'[new[q]] = exe[new[q]]
    BY <1>2, <1>4, <2>1 DEF PointInv, Private
  <2>3. mmPc[q] \in Dup => mm[q] \in locked' /\ mm[q] \in Mms
    BY <1>1, <2>1 DEF PointInv, Dup
  <2>4. ASSUME mmPc[q] \in {"dup_take", "dup_deny"} PROVE Guarded(q)'
    <3>1. Guarded(q) /\ mm[q] \in Mms /\ old'[q] = old[q] /\ mm'[q] = mm[q]
      BY <2>1, <2>4 DEF PointInv, SameProc
    <3>2. CASE old[q] = NoFile
      BY <3>1, <3>2 DEF Guarded
    <3>3. CASE old[q] = exe[mm[q]]
      <4>1. CASE mm[q] = x
        BY <1>2, <1>4, <3>1, <3>3, <4>1 DEF Guarded
      <4>2. CASE mm[q] # x
        BY <1>4, <3>1, <3>3, <4>2 DEF Guarded
      <4> QED
        BY <4>1, <4>2
    <3>4. ASSUME NEW r \in Procs, mmPc[r] = "replace_allow", mm[r] = mm[q], old[r] = old[q]
          PROVE  Guarded(q)'
      <4>1. mmPc'[r] = "replace_allow" /\ mm'[r] = mm[r] /\ old'[r] = old[r]
        BY <1>1, <1>5, <3>4 DEF SameProc
      <4> QED
        BY <3>1, <3>4, <4>1 DEF Guarded
    <3> QED
      BY <3>1, <3>2, <3>3, <3>4 DEF Guarded
  <2> QED
    BY <2>2, <2>3, <2>4 DEF Kept
<1>7. PointInv(p)'
  BY <1>1, <1>2, <1>4 DEF PointInv, Building, Dup, Wanting
<1>8. ASSUME NEW f \in Files PROVE FileInv(f)'
  <2> DEFINE d == Gain(exe[x], exe'[x], f) + Gain(DeniedFile(p), DeniedFile(p)', f)
  <2>1. /\ HeldFile(p) = want[p] /\ HeldFile(p)' = exe[x]
        /\ DeniedFile(p) = want[p] /\ DeniedFile(p)' = exe[x]
    BY <1>1, <1>4 DEF HeldFile, DeniedFile
  <2>2. NoFile # f /\ FileInv(f) /\ fileRefs[f] \in Int /\ writeCount[f] \in Int
    BY <1>1 DEF SpacesSound, IInv, Typed
  <2>3. /\ Gain(exe[x], exe'[x], f) = One(want[p] = f) - One(exe[x] = f)
        /\ Gain(HeldFile(p), HeldFile(p)', f) = One(exe[x] = f) - One(want[p] = f)
        /\ Gain(DeniedFile(p), DeniedFile(p)', f) = One(exe[x] = f) - One(want[p] = f)
        /\ One(want[p] = f) \in Int /\ One(exe[x] = f) \in Int
    BY <1>4, <2>1 DEF Gain, One
  <2>4. fileRefs'[f] = fileRefs[f] + Gain(exe[x], exe'[x], f)
                       + Gain(HeldFile(p), HeldFile(p)', f)
    BY <1>1, <2>2, <2>3
  <2>5. d = 0 /\ d \in Int
    BY <2>3
  <2>6. writeCount'[f] = writeCount[f] - d /\ (d > 0 => writeCount[f] <= 0)
    BY <1>1, <2>2, <2>5
  <2>7. \A q \in Procs : q # p => HeldFile(q)' = HeldFile(q) /\ DeniedFile(q)' = DeniedFile(q)
    BY <1>5, SameHeld
  <2>8. d = Gain(exe[x], exe'[x], f) + Gain(DeniedFile(p), DeniedFile(p)', f)
    OBVIOUS
  <2> HIDE DEF d, x
  <2> QED
    BY <1>1, <1>3, <1>4, <2>2, <2>4, <2>5, <2>6, <2>7, <2>8, FileMove
<1>9. \A m \in Mms : InUse(m) \/ (areas'[m] = areas[m] /\ exe'[m] = exe[m])
  <2>1. InUse(x)
    BY <1>3, Referred
  <2> QED
    BY <1>2, <1>4, <2>1
<1>10. PagesInv' /\ mmWarned' = {} /\ mmPc'[p] \notin Building /\ mmPc'[p] \notin Dup
  BY <1>1, <1>2, <1>4 DEF IInv, PagesInv, Linked, Building, Dup
<1> QED
  BY <1>1, <1>4, <1>5, <1>6, <1>7, <1>8, <1>9, <1>10, CallStep

\* The former executable is released, when no thread is in dup_mmap.
LEMMA ReplaceAllowKeeps ==
  ASSUME SpacesSound, IInv, NEW p \in Procs, ReplaceAllow(p)
  PROVE  IInv'
<1>1. /\ Typed /\ PointInv(p) /\ UNCHANGED mmVars /\ UNCHANGED areaVars /\ exe' = exe
      /\ new' = new /\ mmArea' = mmArea /\ locked' = locked /\ want' = want
      /\ mmWarned' = mmWarned /\ mm[p] \notin locked /\ old' = [old EXCEPT ![p] = NoFile]
      /\ fileRefs' = Add(fileRefs, old[p], -1) /\ writeCount' = Add(writeCount, old[p], 1)
      /\ mmPc[p] = "replace_allow" /\ mmPc' = [mmPc EXCEPT ![p] = "user"]
  BY DEF IInv, ReplaceAllow, MmGoto
<1>2. /\ mm' = mm /\ pin' = pin /\ lazy' = lazy /\ oom' = oom /\ work' = work
      /\ users' = users /\ count' = count /\ areas' = areas /\ textOf' = textOf
      /\ committed' = committed
  BY <1>1 DEF mmVars, areaVars
<1>3. /\ fileRefs' \in [Files -> Int] /\ writeCount' \in [Files -> Int]
      /\ \A f \in Files : /\ fileRefs'[f] = fileRefs[f] + (IF old[p] = f THEN -1 ELSE 0)
                          /\ writeCount'[f] = writeCount[f] + (IF old[p] = f THEN 1 ELSE 0)
  <2>1. fileRefs \in [Files -> Int] /\ writeCount \in [Files -> Int]
    BY <1>1 DEF Typed
  <2> QED
    BY <1>1, <2>1, AddIs
<1>4. Typed' /\ mmPc'[p] = "user"
  BY <1>1, <1>2, <1>3 DEF Typed, SpacePoints
<1>5. \A q \in Procs : q # p => SameProc(q)
  BY <1>1, <1>2 DEF Typed, SameProc
<1>6. ASSUME NEW q \in Procs, q # p PROVE Kept(q)
  <2>1. PointInv(q) /\ SameProc(q)
    BY <1>5, <1>6 DEF IInv
  <2>2. mmPc[q] \in Dup => mm[q] \in locked
    BY <2>1 DEF PointInv
  <2>3. \A r \in Procs : mmPc[r] = "replace_allow" /\ mm[r] = mm[q] /\ mmPc[q] \in Dup =>
          mmPc'[r] = "replace_allow" /\ mm'[r] = mm[r] /\ old'[r] = old[r]
    BY <1>1, <1>5, <2>2 DEF SameProc
  <2> QED
    BY <1>1, <1>2, <2>1, <2>2, <2>3, KeptWhen
<1>7. PointInv(p)'
  BY <1>1, <1>2, <1>4 DEF PointInv, Building, Dup, Wanting
<1>8. ASSUME NEW f \in Files PROVE FileInv(f)'
  <2>1. /\ HeldFile(p) = old[p] /\ HeldFile(p)' = NoFile
        /\ DeniedFile(p) = old[p] /\ DeniedFile(p)' = NoFile
    BY <1>1, <1>4 DEF HeldFile, DeniedFile
  <2>2. NoFile # f /\ FileInv(f) /\ fileRefs[f] \in Int /\ writeCount[f] \in Int
    BY <1>1 DEF SpacesSound, IInv, Typed
  <2>3. /\ fileRefs'[f] = fileRefs[f] + Gain(HeldFile(p), HeldFile(p)', f)
        /\ Gain(DeniedFile(p), DeniedFile(p)', f) = (IF old[p] = f THEN -1 ELSE 0)
    BY <1>3, <2>1, <2>2 DEF Gain, One
  <2>4. /\ writeCount'[f] = writeCount[f] - Gain(DeniedFile(p), DeniedFile(p)', f)
        /\ Gain(DeniedFile(p), DeniedFile(p)', f) > 0 => writeCount[f] <= 0
    BY <1>3, <2>2, <2>3
  <2> QED
    BY <1>1, <1>5, <2>2, <2>3, <2>4, FileCall
<1>9. PagesInv' /\ mmWarned' = {} /\ mmPc'[p] \notin Building /\ mmPc'[p] \notin Dup
  BY <1>1, <1>2, <1>4 DEF IInv, PagesInv, Linked, Building, Dup
<1> QED
  BY <1>1, <1>2, <1>4, <1>5, <1>6, <1>7, <1>8, <1>9, CallStep

\* Someone opens a file for writing, or closes it.
LEMMA WriterKeeps ==
  ASSUME SpacesSound, IInv, NEW g \in Files, OpenWrite(g) \/ CloseWrite(g)
  PROVE  IInv'
<1>1. /\ Typed /\ UNCHANGED mmVars /\ UNCHANGED areaVars /\ exe' = exe /\ fileRefs' = fileRefs
      /\ new' = new /\ old' = old /\ want' = want /\ mmArea' = mmArea /\ locked' = locked
      /\ mmPc' = mmPc /\ mmWarned' = mmWarned
  BY DEF IInv, OpenWrite, CloseWrite, callVars
<1>2. /\ mm' = mm /\ pin' = pin /\ lazy' = lazy /\ oom' = oom /\ work' = work
      /\ users' = users /\ count' = count /\ areas' = areas /\ textOf' = textOf
      /\ committed' = committed
  BY <1>1 DEF mmVars, areaVars
<1>3. /\ writeCount' \in [Files -> Int] /\ \A f \in Files : f # g => writeCount'[f] = writeCount[f]
      /\ writeCount[g] \in {0, 1} /\ writeCount'[g] \in {0, 1}
  BY <1>1 DEF Typed, OpenWrite, CloseWrite
<1>4. Typed'
  BY <1>1, <1>2, <1>3 DEF Typed
<1>5. \A q \in Procs : SameProc(q) /\ Kept(q)
  <2>1. \A q \in Procs : SameProc(q)
    BY <1>1, <1>2 DEF SameProc
  <2>2. \A q \in Procs : PointInv(q)
    BY DEF IInv
  <2>3. \A q \in Procs : mmPc[q] \in {"dup_take", "dup_deny"} => Guarded(q)'
    BY <1>1, <1>2, <2>2 DEF PointInv, Guarded
  <2> QED
    BY <1>1, <1>2, <2>1, <2>2, <2>3 DEF Kept, PointInv
<1>6. ASSUME NEW f \in Files PROVE FileInv(f)'
  <2>1. Holders' = Holders /\ Deniers' = Deniers
    BY <1>1, <1>2 DEF Holders, Deniers, HeldFile, DeniedFile
  <2>2. DenyRefs(f)' = DenyRefs(f) /\ FileInv(f)
    BY <1>1, <2>1 DEF DenyRefs, IInv
  <2>3. CASE f # g
    BY <1>1, <1>3, <2>1, <2>2, <2>3 DEF FileInv
  <2>4. CASE f = g
    <3>1. DenyRefs(f) \in Nat
      BY CountNat DEF DenyRefs, SpacesSound
    <3>2. DenyRefs(f) = 0
      BY <1>3, <2>2, <2>4, <3>1 DEF FileInv
    <3> QED
      BY <1>1, <1>3, <2>1, <2>2, <2>4, <3>2 DEF FileInv
  <2> QED
    BY <2>3, <2>4
<1>7. \A m \in Mms : MmInv(m)'
  <2>1. \A m \in Mms : InUse(m) \/ (areas'[m] = areas[m] /\ exe'[m] = exe[m])
    BY <1>1, <1>2
  <2> QED
    BY <1>1, <2>1, MmsSame DEF IInv
<1>8. PagesInv' /\ mmWarned' = {}
  BY <1>1, <1>2 DEF IInv, PagesInv, Linked
<1> DEFINE P == {}
<1>9. P \in SUBSET Procs /\ \A q \in P : FALSE
  OBVIOUS
<1> HIDE DEF P
<1> QED
  BY <1>4, <1>5, <1>6, <1>7, <1>8, <1>9, StepKeeps

-----------------------------------------------------------------------------
(***************************************************************************)
(* The steps that change a reference.                                      *)
(***************************************************************************)
\* Who is referred to after a step is counted after it.
LEMMA StillReferred ==
  ASSUME SpacesSound, NEW q \in Procs, NEW x, mm'[q] = x \/ pin'[q] = x \/ new'[q] = x
  PROVE  UserRefs(x)' # 0
<1>1. /\ Count(Procs, mm', x) \in Nat /\ Count(Procs, pin', x) \in Nat
      /\ Count(Procs, new', x) \in Nat
  BY CountNat DEF SpacesSound
<1>2. /\ mm'[q] = x => Count(Procs, mm', x) >= 1
      /\ pin'[q] = x => Count(Procs, pin', x) >= 1
      /\ new'[q] = x => Count(Procs, new', x) >= 1
  <2>1. \A s \in Procs : mm'[s] = x => Count(Procs, mm', x) >= 1
    BY CountNat DEF SpacesSound
  <2>2. \A s \in Procs : pin'[s] = x => Count(Procs, pin', x) >= 1
    BY CountNat DEF SpacesSound
  <2>3. \A s \in Procs : new'[s] = x => Count(Procs, new', x) >= 1
    BY CountNat DEF SpacesSound
  <2> QED
    BY <2>1, <2>2, <2>3
<1>3. UserRefs(x)' = Count(Procs, mm', x) + Count(Procs, pin', x) + Count(Procs, new', x)
  BY DEF UserRefs
<1>4. \A a, b, c \in Nat : a >= 1 \/ b >= 1 \/ c >= 1 => a + b + c # 0
  OBVIOUS
<1>5. \/ Count(Procs, mm', x) >= 1 \/ Count(Procs, pin', x) >= 1
      \/ Count(Procs, new', x) >= 1
  BY <1>2
<1> QED
  BY <1>1, <1>3, <1>4, <1>5, Zenon

\* A process that goes on is left alone when an mm is put.
LEMMA PutKept ==
  ASSUME SpacesSound, IInv, NEW q \in Procs, mm'[q] = mm[q], new'[q] = new[q], old'[q] = old[q],
         locked' = locked,
         \A x \in Mms : UserRefs(x)' = 0 \/ (areas'[x] = areas[x] /\ exe'[x] = exe[x]),
         \A r \in Procs : mmPc[r] = "replace_allow" =>
           mmPc'[r] = "replace_allow" /\ mm'[r] = mm[r] /\ old'[r] = old[r]
  PROVE  Kept(q)
<1>1. PointInv(q)
  BY DEF IInv
<1>2. ASSUME mmPc[q] \in Building
      PROVE  areas'[new[q]] = areas[new[q]] /\ exe'[new[q]] = exe[new[q]]
  <2>1. new[q] \in Mms
    BY <1>1, <1>2 DEF PointInv
  <2>2. UserRefs(new[q])' # 0
    BY StillReferred
  <2> QED
    BY <2>1, <2>2
<1>3. ASSUME mmPc[q] \in {"dup_take", "dup_deny"} PROVE Guarded(q)'
  <2>1. Guarded(q) /\ mm[q] \in Mms
    BY <1>1, <1>3 DEF PointInv
  <2>2. UserRefs(mm[q])' # 0
    BY StillReferred
  <2>3. exe'[mm[q]] = exe[mm[q]]
    BY <2>1, <2>2
  <2> QED
    BY <2>1, <2>3 DEF Guarded
<1> QED
  BY <1>1, <1>2, <1>3 DEF Kept, PointInv

\* A step of p that may drop references, and changes nothing of a mm that
\* still has some.
LEMMA DropStep ==
  ASSUME SpacesSound, IInv, NEW p \in Procs, \A q \in Procs : q # p => SameProc(q),
         locked' = locked, mmWarned' = mmWarned, old' = old, want' = want, mmArea' = mmArea,
         mm'[p] \in {mm[p], NoMm}, pin'[p] \in {pin[p], NoMm}, new'[p] \in {new[p], NoMm},
         \/ mmPc'[p] = mmPc[p] /\ mm'[p] = mm[p] /\ new'[p] = new[p] /\ lazy'[p] = lazy[p]
         \/ mmPc'[p] \notin Building /\ mmPc[p] # "replace_allow" /\ PointInv(p)',
         \A x \in Mms : UserRefs(x)' = 0 \/ (areas'[x] = areas[x] /\ exe'[x] = exe[x]),
         Typed', \A x \in Mms : MmInv(x)', PagesInv', \A f \in Files : FileInv(f)'
  PROVE  IInv'
<1>1. \A q \in Procs : PointInv(q) /\ Private(q)
  BY DEF IInv
<1>2. \A r \in Procs : mmPc[r] = "replace_allow" =>
        mmPc'[r] = "replace_allow" /\ mm'[r] = mm[r] /\ old'[r] = old[r]
  BY DEF SameProc
<1>3. ASSUME NEW q \in Procs, q # p PROVE Kept(q)
  <2>1. mm'[q] = mm[q] /\ new'[q] = new[q] /\ old'[q] = old[q]
    BY <1>3 DEF SameProc
  <2> QED
    BY <1>2, <2>1, PutKept
<1>4. PointInv(p)'
  <2>1. CASE mmPc'[p] = mmPc[p] /\ mm'[p] = mm[p] /\ new'[p] = new[p] /\ lazy'[p] = lazy[p]
    <3>1. Kept(p) /\ PointInv(p)
      BY <1>1, <1>2, <2>1, PutKept
    <3> QED
      BY <2>1, <3>1 DEF PointInv, Kept, Building, Dup
  <2> QED
    BY <2>1
<1>5. NoMm \notin Mms
  BY DEF SpacesSound
<1>6. ASSUME NEW q \in Procs, mmPc[q] \in Building
      PROVE  /\ new[q] \in Mms /\ mm'[p] # new[q] /\ pin'[p] # new[q]
             /\ q # p => new'[p] # new[q]
  <2>1. new[q] \in Mms /\ mm[p] # new[q] /\ pin[p] # new[q] /\ (q # p => new[p] # new[q])
    BY <1>1, <1>6 DEF PointInv, Private
  <2> QED
    BY <1>5, <2>1
<1>7. Private(p)'
  <2>1. SUFFICES ASSUME mmPc'[p] \in Building PROVE Private(p)'
    BY DEF Private
  <2>2. mmPc[p] \in Building /\ new'[p] = new[p]
    BY <2>1
  <2> QED
    BY <1>1, <1>6, <2>2 DEF Private, SameProc
<1>8. ASSUME NEW q \in Procs, q # p, mmPc'[p] \in Dup, mmPc'[q] \in Dup
      PROVE  mm'[p] # mm'[q]
  <2>1. mmPc[p] \in Dup /\ mm'[p] = mm[p] /\ mmPc[q] \in Dup /\ mm'[q] = mm[q]
    BY <1>8 DEF SameProc, Building
  <2> QED
    BY <1>8, <2>1 DEF IInv, LockInv
<1>9. mmWarned' = {}
  BY DEF IInv
<1> DEFINE P == {p}
<1>10. /\ P \in SUBSET Procs /\ p \in P /\ \A q \in Procs \ P : q # p /\ SameProc(q) /\ Kept(q)
       /\ \A r \in P : r = p
  BY <1>3
<1> HIDE DEF P
<1> QED
  BY <1>4, <1>6, <1>7, <1>8, <1>9, <1>10, StepKeeps

\* exit_mm.
LEMMA ExitMmKeeps ==
  ASSUME SpacesSound, IInv, NEW p \in Procs, ExitMm(p)
  PROVE  IInv'
<1> DEFINE m == mm[p]
<1>1. /\ Typed /\ PointInv(p) /\ mmPc[p] = "user" /\ pin[p] = NoMm
      /\ lazy' = [lazy EXCEPT ![p] = m] /\ mm' = [mm EXCEPT ![p] = NoMm] /\ Mmput(m, 1)
      /\ mmPc' = [mmPc EXCEPT ![p] = "exited"] /\ pin' = pin /\ oom' = oom /\ work' = work
      /\ locked' = locked /\ new' = new /\ old' = old /\ want' = want /\ mmArea' = mmArea
      /\ mmWarned' = mmWarned
  BY DEF IInv, ExitMm, MmGoto, callVars
<1>2. m \in Mms /\ new[p] = NoMm /\ lazy[p] = NoMm
  BY <1>1 DEF PointInv, Building, Dup
<1>3. mm'[p] = NoMm /\ lazy'[p] = m /\ mmPc'[p] = "exited" /\ pin'[p] = pin[p] /\ new'[p] = new[p]
  BY <1>1 DEF Typed
<1>4. \A q \in Procs : q # p => SameProc(q)
  BY <1>1 DEF Typed, SameProc
<1>5. \A q \in Procs : HeldFile(q)' = HeldFile(q) /\ DeniedFile(q)' = DeniedFile(q)
  <2>1. HeldFile(p)' = HeldFile(p) /\ DeniedFile(p)' = DeniedFile(p)
    BY <1>1, <1>3 DEF HeldFile, DeniedFile
  <2> QED
    BY <1>4, <2>1, SameHeld
<1>6. users[m] >= 1
  BY <1>2, Referred
<1>7. ASSUME NEW x \in Mms
      PROVE  /\ UserRefs(x)' = UserRefs(x) - One(x = m)
             /\ Count(Procs, lazy', x) = Count(Procs, lazy, x) + 1 * One(x = m)
  <2>1. /\ UserRefs(x)' = UserRefs(x) + Gain(mm[p], mm'[p], x) + Gain(pin[p], pin'[p], x)
                          + Gain(new[p], new'[p], x)
        /\ Count(Procs, lazy', x) = Count(Procs, lazy, x) + Gain(lazy[p], lazy'[p], x)
    BY <1>4, RefsMove DEF SameProc
  <2>2. UserRefs(x) \in Nat /\ Count(Procs, lazy, x) \in Nat /\ NoMm # x
    BY RefsNat DEF SpacesSound
  <2>3. /\ Gain(mm[p], mm'[p], x) = -One(x = m) /\ Gain(pin[p], pin'[p], x) = 0
        /\ Gain(new[p], new'[p], x) = 0 /\ Gain(lazy[p], lazy'[p], x) = One(x = m)
        /\ One(x = m) \in Int
    BY <1>2, <1>3, <2>2 DEF Gain, One
  <2> QED
    BY <2>1, <2>2, <2>3
<1> HIDE DEF m
<1>8. Put(m) /\ (\A x \in Mms : MmInv(x)') /\ PagesInv' /\ \A f \in Files : FileInv(f)'
  <2>1. 1 \in 0 .. 1
    OBVIOUS
  <2> QED
    BY <1>1, <1>2, <1>5, <1>6, <1>7, <2>1, MmputKeeps
<1>9. Typed'
  BY <1>1, <1>2, <1>8 DEF Typed, Put, SpacePoints
<1>10. PointInv(p)'
  BY <1>1, <1>2, <1>3 DEF PointInv, Building, Dup, Wanting
<1>11. mmPc'[p] \notin Building /\ mmPc[p] # "replace_allow"
  BY <1>1, <1>3 DEF Building, Dup
<1> QED
  BY <1>1, <1>3, <1>4, <1>8, <1>9, <1>10, <1>11, DropStep DEF Put

\* mmput of a pinned mm.
LEMMA PutPinKeeps ==
  ASSUME SpacesSound, IInv, NEW p \in Procs, PutPin(p)
  PROVE  IInv'
<1> DEFINE m == pin[p]
<1>1. /\ Typed /\ m # NoMm /\ pin' = [pin EXCEPT ![p] = NoMm] /\ Mmput(m, 0)
      /\ mm' = mm /\ lazy' = lazy /\ mmPc' = mmPc /\ oom' = oom /\ work' = work
      /\ locked' = locked /\ new' = new /\ old' = old /\ want' = want /\ mmArea' = mmArea
      /\ mmWarned' = mmWarned
  BY DEF IInv, PutPin, callVars
<1>2. m \in Mms /\ pin'[p] = NoMm
  BY <1>1 DEF Typed
<1>3. \A q \in Procs : q # p => SameProc(q)
  BY <1>1 DEF Typed, SameProc
<1>4. \A q \in Procs : HeldFile(q)' = HeldFile(q) /\ DeniedFile(q)' = DeniedFile(q)
  BY <1>1 DEF HeldFile, DeniedFile
<1>5. users[m] >= 1
  BY <1>2, Referred
<1>6. ASSUME NEW x \in Mms
      PROVE  /\ UserRefs(x)' = UserRefs(x) - One(x = m)
             /\ Count(Procs, lazy', x) = Count(Procs, lazy, x) + 0 * One(x = m)
  <2>1. /\ UserRefs(x)' = UserRefs(x) + Gain(mm[p], mm'[p], x) + Gain(pin[p], pin'[p], x)
                          + Gain(new[p], new'[p], x)
    BY <1>3, RefsMove DEF SameProc
  <2>2. UserRefs(x) \in Nat /\ Count(Procs, lazy, x) \in Nat /\ NoMm # x
    BY RefsNat DEF SpacesSound
  <2>3. /\ Gain(mm[p], mm'[p], x) = 0 /\ Gain(pin[p], pin'[p], x) = -One(x = m)
        /\ Gain(new[p], new'[p], x) = 0 /\ One(x = m) \in Int
    BY <1>1, <1>2, <2>2 DEF Gain, One
  <2> QED
    BY <1>1, <2>1, <2>2, <2>3
<1> HIDE DEF m
<1>7. Put(m) /\ (\A x \in Mms : MmInv(x)') /\ PagesInv' /\ \A f \in Files : FileInv(f)'
  BY <1>1, <1>2, <1>4, <1>5, <1>6, MmputKeeps
<1>8. Typed'
  BY <1>1, <1>2, <1>7 DEF Typed, Put
<1> QED
  BY <1>1, <1>2, <1>3, <1>7, <1>8, DropStep DEF Put

\* mmput of the mm in hand.
LEMMA PutNewKeeps ==
  ASSUME SpacesSound, IInv, NEW p \in Procs, PutNew(p)
  PROVE  IInv'
<1> DEFINE m == new[p]
<1>1. /\ Typed /\ PointInv(p) /\ mmPc[p] = "put" /\ new' = [new EXCEPT ![p] = NoMm]
      /\ Mmput(m, 0) /\ mmPc' = [mmPc EXCEPT ![p] = "user"]
      /\ mm' = mm /\ lazy' = lazy /\ pin' = pin /\ oom' = oom /\ work' = work
      /\ locked' = locked /\ old' = old /\ want' = want /\ mmArea' = mmArea
      /\ mmWarned' = mmWarned
  BY DEF IInv, PutNew, MmGoto
<1>2. m \in Mms /\ new'[p] = NoMm /\ mmPc'[p] = "user"
  BY <1>1 DEF Typed, PointInv
<1>3. \A q \in Procs : q # p => SameProc(q)
  BY <1>1 DEF Typed, SameProc
<1>4. \A q \in Procs : HeldFile(q)' = HeldFile(q) /\ DeniedFile(q)' = DeniedFile(q)
  <2>1. HeldFile(p)' = HeldFile(p) /\ DeniedFile(p)' = DeniedFile(p)
    BY <1>1, <1>2 DEF HeldFile, DeniedFile
  <2> QED
    BY <1>3, <2>1, SameHeld
<1>5. users[m] >= 1
  BY <1>2, Referred
<1>6. ASSUME NEW x \in Mms
      PROVE  /\ UserRefs(x)' = UserRefs(x) - One(x = m)
             /\ Count(Procs, lazy', x) = Count(Procs, lazy, x) + 0 * One(x = m)
  <2>1. /\ UserRefs(x)' = UserRefs(x) + Gain(mm[p], mm'[p], x) + Gain(pin[p], pin'[p], x)
                          + Gain(new[p], new'[p], x)
    BY <1>3, RefsMove DEF SameProc
  <2>2. UserRefs(x) \in Nat /\ Count(Procs, lazy, x) \in Nat /\ NoMm # x
    BY RefsNat DEF SpacesSound
  <2>3. /\ Gain(mm[p], mm'[p], x) = 0 /\ Gain(pin[p], pin'[p], x) = 0
        /\ Gain(new[p], new'[p], x) = -One(x = m) /\ One(x = m) \in Int
    BY <1>1, <1>2, <2>2 DEF Gain, One
  <2> QED
    BY <1>1, <2>1, <2>2, <2>3
<1> HIDE DEF m
<1>7. Put(m) /\ (\A x \in Mms : MmInv(x)') /\ PagesInv' /\ \A f \in Files : FileInv(f)'
  BY <1>1, <1>2, <1>4, <1>5, <1>6, MmputKeeps
<1>8. Typed'
  BY <1>1, <1>2, <1>7 DEF Typed, Put, SpacePoints
<1>9. PointInv(p)'
  BY <1>1, <1>2 DEF PointInv, Building, Dup, Wanting
<1>10. mmPc'[p] \notin Building /\ mmPc[p] # "replace_allow"
  BY <1>1, <1>2 DEF Building, Dup
<1> QED
  BY <1>1, <1>2, <1>3, <1>7, <1>8, <1>9, <1>10, DropStep DEF Put

\* mmput_async: the last user queues the teardown.
LEMMA PutPinAsyncKeeps ==
  ASSUME SpacesSound, IInv, NEW p \in Procs, PutPinAsync(p)
  PROVE  IInv'
<1> DEFINE m == pin[p]
<1>1. /\ Typed /\ m # NoMm /\ pin' = [pin EXCEPT ![p] = NoMm]
      /\ users' = [users EXCEPT ![m] = @ - 1]
      /\ work' = IF users[m] = 1 THEN work \cup {<<"mmput", m>>} ELSE work
      /\ mm' = mm /\ lazy' = lazy /\ mmPc' = mmPc /\ oom' = oom /\ count' = count
      /\ UNCHANGED areaVars /\ UNCHANGED fileVars
      /\ locked' = locked /\ new' = new /\ old' = old /\ want' = want /\ mmArea' = mmArea
      /\ mmWarned' = mmWarned
  BY DEF IInv, PutPinAsync, callVars
<1>2. /\ areas' = areas /\ textOf' = textOf /\ committed' = committed
      /\ exe' = exe /\ fileRefs' = fileRefs /\ writeCount' = writeCount
  BY <1>1 DEF areaVars, fileVars
<1>3. m \in Mms /\ pin'[p] = NoMm
  BY <1>1 DEF Typed
<1>4. \A q \in Procs : q # p => SameProc(q)
  BY <1>1 DEF Typed, SameProc
<1>5. users[m] >= 1 /\ <<"mmput", m>> \notin work
  BY <1>3, Referred
<1>6. ASSUME NEW x \in Mms PROVE UserRefs(x)' = UserRefs(x) - One(x = m)
  <2>1. /\ UserRefs(x)' = UserRefs(x) + Gain(mm[p], mm'[p], x) + Gain(pin[p], pin'[p], x)
                          + Gain(new[p], new'[p], x)
    BY <1>4, RefsMove DEF SameProc
  <2>2. UserRefs(x) \in Nat /\ NoMm # x
    BY RefsNat DEF SpacesSound
  <2>3. /\ Gain(mm[p], mm'[p], x) = 0 /\ Gain(pin[p], pin'[p], x) = -One(x = m)
        /\ Gain(new[p], new'[p], x) = 0 /\ One(x = m) \in Int
    BY <1>1, <1>3, <2>2 DEF Gain, One
  <2> QED
    BY <2>1, <2>2, <2>3
<1> HIDE DEF m
<1>7. /\ users' \in [Mms -> Int] /\ users[m] \in Int /\ users'[m] = users[m] - 1
      /\ \A x \in Mms : x # m => users'[x] = users[x]
      /\ work' \subseteq {"mmput", "mmdrop"} \X Mms
      /\ \A x \in Mms : /\ <<"mmdrop", x>> \in work' <=> <<"mmdrop", x>> \in work
                        /\ x # m => (<<"mmput", x>> \in work' <=> <<"mmput", x>> \in work)
      /\ <<"mmput", m>> \in work' <=> users[m] = 1
  BY <1>1, <1>3, <1>5 DEF Typed
<1>8. ASSUME NEW x \in Mms PROVE MmInv(x)'
  <2>1. MmInv(x) /\ UserRefs(x) \in Nat
    BY RefsNat DEF IInv
  <2>2. CASE x # m
    <3>1. UserRefs(x)' = UserRefs(x) /\ (InUse(x)' <=> InUse(x)) /\ users'[x] = users[x]
      <4>1. One(x = m) = 0
        BY <2>2 DEF One
      <4>2. UserRefs(x)' = UserRefs(x)
        BY <1>6, <2>1, <4>1
      <4> QED
        BY <1>7, <2>2, <4>2 DEF InUse
    <3> QED
      BY <1>1, <1>2, <1>7, <2>1, <2>2, <3>1 DEF MmInv, One
  <2>3. CASE x = m
    <3>1. InUse(x) /\ InUse(x)'
      BY <1>5, <1>7, <2>3 DEF InUse
    <3>2. users'[x] = UserRefs(x)' /\ (<<"mmput", x>> \in work' => users'[x] = 0)
      BY <1>6, <1>7, <2>1, <2>3 DEF MmInv, One
    <3> QED
      BY <1>1, <1>2, <1>7, <2>1, <3>1, <3>2 DEF MmInv, One
  <2> QED
    BY <2>2, <2>3
<1>9. PagesInv' /\ \A f \in Files : FileInv(f)'
  <2>1. \A q \in Procs : HeldFile(q)' = HeldFile(q) /\ DeniedFile(q)' = DeniedFile(q)
    BY <1>1 DEF HeldFile, DeniedFile
  <2>2. PagesInv'
    BY <1>2 DEF IInv, PagesInv, Linked
  <2> QED
    BY <1>2, <2>1, <2>2, FilesSame DEF IInv
<1>10. Typed'
  BY <1>1, <1>2, <1>3, <1>7 DEF Typed
<1> QED
  BY <1>1, <1>2, <1>3, <1>4, <1>8, <1>9, <1>10, DropStep

\* The scheduler drops the mm of an exited task.
LEMMA DropLazyKeeps ==
  ASSUME SpacesSound, IInv, NEW p \in Procs, DropLazy(p)
  PROVE  IInv'
<1> DEFINE m == lazy[p]
<1>1. /\ Typed /\ PointInv(p) /\ mmPc[p] = "exited" /\ count' = [count EXCEPT ![m] = @ - 1]
      /\ lazy' = [lazy EXCEPT ![p] = NoMm] /\ mmPc' = [mmPc EXCEPT ![p] = "none"]
      /\ mm' = mm /\ pin' = pin /\ users' = users /\ oom' = oom /\ work' = work
      /\ UNCHANGED areaVars /\ UNCHANGED fileVars
      /\ locked' = locked /\ new' = new /\ old' = old /\ want' = want /\ mmArea' = mmArea
      /\ mmWarned' = mmWarned
  BY DEF IInv, DropLazy, MmGoto, callVars
<1>2. /\ areas' = areas /\ textOf' = textOf /\ committed' = committed
      /\ exe' = exe /\ fileRefs' = fileRefs /\ writeCount' = writeCount
  BY <1>1 DEF areaVars, fileVars
<1>3. m \in Mms /\ lazy'[p] = NoMm /\ mmPc'[p] = "none"
  BY <1>1 DEF Typed, PointInv
<1>4. \A q \in Procs : q # p => SameProc(q)
  BY <1>1 DEF Typed, SameProc
<1>5. ASSUME NEW x \in Mms
      PROVE  /\ UserRefs(x)' = UserRefs(x)
             /\ Count(Procs, lazy', x) = Count(Procs, lazy, x) - One(x = m)
  <2>1. Count(Procs, lazy', x) = Count(Procs, lazy, x) + Gain(lazy[p], lazy'[p], x)
    BY <1>4, RefsMove DEF SameProc
  <2>2. Count(Procs, lazy, x) \in Nat /\ NoMm # x
    BY RefsNat DEF SpacesSound
  <2>3. Gain(lazy[p], lazy'[p], x) = -One(x = m) /\ One(x = m) \in Int
    BY <1>3, <2>2 DEF Gain, One
  <2>4. UserRefs(x)' = UserRefs(x)
    BY <1>1 DEF UserRefs
  <2> QED
    BY <2>1, <2>2, <2>3, <2>4
<1>6. Count(Procs, lazy, m) >= 1
  BY <1>3, CountNat DEF SpacesSound
<1> HIDE DEF m
<1>7. /\ count' \in [Mms -> Int] /\ count[m] \in Int /\ count'[m] = count[m] - 1
      /\ \A x \in Mms : x # m => count'[x] = count[x]
  BY <1>1, <1>3 DEF Typed
<1>8. ASSUME NEW x \in Mms PROVE MmInv(x)'
  <2>1. MmInv(x) /\ Count(Procs, lazy, x) \in Nat /\ (InUse(x)' <=> InUse(x))
    BY <1>1, RefsNat DEF IInv, InUse
  <2>2. CASE x # m
    <3>1. Count(Procs, lazy', x) = Count(Procs, lazy, x) /\ count'[x] = count[x]
      BY <1>5, <1>7, <2>1, <2>2 DEF One
    <3> QED
      BY <1>1, <1>2, <1>5, <2>1, <3>1 DEF MmInv, One
  <2>3. CASE x = m
    <3>1. Count(Procs, lazy', x) = Count(Procs, lazy, x) - 1 /\ count'[x] = count[x] - 1
      BY <1>5, <1>7, <2>3 DEF One
    <3>2. count[x] # 0 /\ <<"mmdrop", x>> \notin work
      BY <1>6, <2>1, <2>3 DEF MmInv, One
    <3>3. count'[x] = One(InUse(x)') + Count(Procs, lazy', x) + One(x \in oom')
      BY <1>1, <2>1, <3>1 DEF MmInv, One
    <3> QED
      BY <1>1, <1>2, <1>5, <2>1, <3>2, <3>3 DEF MmInv, One
  <2> QED
    BY <2>2, <2>3
<1>9. PagesInv' /\ \A f \in Files : FileInv(f)'
  <2>1. HeldFile(p)' = HeldFile(p) /\ DeniedFile(p)' = DeniedFile(p)
    BY <1>1, <1>3 DEF HeldFile, DeniedFile
  <2>2. \A q \in Procs : HeldFile(q)' = HeldFile(q) /\ DeniedFile(q)' = DeniedFile(q)
    BY <1>4, <2>1, SameHeld
  <2>3. PagesInv'
    BY <1>2 DEF IInv, PagesInv, Linked
  <2> QED
    BY <1>2, <2>2, <2>3, FilesSame DEF IInv
<1>10. Typed'
  BY <1>1, <1>2, <1>3, <1>7 DEF Typed, SpacePoints
<1>11. PointInv(p)' /\ mmPc'[p] \notin Building /\ mmPc[p] # "replace_allow"
  BY <1>1, <1>3 DEF PointInv, Building, Dup, Wanting
<1> QED
  BY <1>1, <1>2, <1>3, <1>4, <1>8, <1>9, <1>10, <1>11, DropStep

\* No process takes part in a step.
LEMMA QuietStep ==
  ASSUME SpacesSound, IInv, mm' = mm, lazy' = lazy, pin' = pin, mmPc' = mmPc, locked' = locked,
         new' = new, old' = old, want' = want, mmArea' = mmArea, mmWarned' = mmWarned,
         \A x \in Mms : UserRefs(x) = 0 \/ (areas'[x] = areas[x] /\ exe'[x] = exe[x]),
         Typed', \A x \in Mms : MmInv(x)', PagesInv', \A f \in Files : FileInv(f)'
  PROVE  IInv'
<1>1. \A x \in Mms : UserRefs(x)' = UserRefs(x)
  BY DEF UserRefs
<1>2. \A q \in Procs : SameProc(q)
  BY DEF SameProc
<1>3. PICK p : p \in Procs
  BY DEF SpacesSound
<1> QED
  BY <1>1, <1>2, <1>3, DropStep

\* mmput_async_fn.
LEMMA MmputAsyncFnKeeps ==
  ASSUME SpacesSound, IInv, NEW m \in Mms, MmputAsyncFn(m)
  PROVE  IInv'
<1>1. /\ Typed /\ <<"mmput", m>> \in work /\ work' = work \ {<<"mmput", m>>} /\ TearDown(m, 0)
      /\ mm' = mm /\ lazy' = lazy /\ pin' = pin /\ users' = users /\ oom' = oom /\ mmPc' = mmPc
      /\ locked' = locked /\ new' = new /\ old' = old /\ want' = want /\ mmArea' = mmArea
      /\ mmWarned' = mmWarned
  BY DEF IInv, MmputAsyncFn, callVars
<1>2. \A q \in Procs : HeldFile(q)' = HeldFile(q) /\ DeniedFile(q)' = DeniedFile(q)
  BY <1>1 DEF HeldFile, DeniedFile
<1>3. /\ TornDown(m) /\ count'[m] = count[m] - 1 /\ PagesInv' /\ \A f \in Files : FileInv(f)'
  <2>1. 0 \in 0 .. 1 /\ count[m] \in Int
    BY <1>1 DEF Typed
  <2>2. /\ TornDown(m) /\ count'[m] = count[m] + 0 - 1
        /\ PagesInv' /\ \A f \in Files : FileInv(f)'
    BY <1>1, <1>2, <2>1, TearDownEffect
  <2> QED
    BY <2>1, <2>2
<1>4. /\ MmInv(m) /\ users[m] = 0 /\ InUse(m) /\ UserRefs(m) = 0
  BY <1>1 DEF IInv, MmInv, InUse
<1>5. \A x \in Mms : UserRefs(x)' = UserRefs(x)
  BY <1>1 DEF UserRefs
<1>6. /\ \A x \in Mms : <<"mmdrop", x>> \in work' <=> <<"mmdrop", x>> \in work
      /\ \A x \in Mms : x # m => (<<"mmput", x>> \in work' <=> <<"mmput", x>> \in work)
      /\ <<"mmput", m>> \notin work' /\ work' \subseteq {"mmput", "mmdrop"} \X Mms
  BY <1>1 DEF Typed
<1>7. ASSUME NEW x \in Mms, x # m PROVE MmInv(x)'
  <2>1. /\ MmInv(x) /\ (InUse(x)' <=> InUse(x)) /\ areas'[x] = areas[x] /\ exe'[x] = exe[x]
        /\ count'[x] = count[x]
    BY <1>1, <1>3, <1>6, <1>7 DEF IInv, InUse, TornDown
  <2> QED
    BY <1>1, <1>5, <1>6, <1>7, <2>1 DEF MmInv, One
<1>8. MmInv(m)'
  <2>1. ~InUse(m)'
    BY <1>1, <1>4, <1>6 DEF InUse
  <2>2. Count(Procs, lazy, m) \in Nat
    BY RefsNat
  <2>3. /\ count[m] = 1 + Count(Procs, lazy, m) + One(m \in oom) /\ One(m \in oom) \in 0 .. 1
        /\ <<"mmdrop", m>> \in work => count[m] = 0
    BY <1>4 DEF MmInv, One
  <2>4. <<"mmdrop", m>> \notin work' /\ count'[m] = 0 + Count(Procs, lazy, m) + One(m \in oom)
    BY <1>3, <1>6, <2>2, <2>3
  <2> QED
    BY <1>1, <1>3, <1>4, <1>5, <1>6, <2>1, <2>4 DEF MmInv, One, TornDown
<1>9. Typed'
  BY <1>1, <1>3, <1>6 DEF Typed, TornDown
<1> QED
  BY <1>1, <1>3, <1>4, <1>7, <1>8, <1>9, QuietStep DEF TornDown

\* The counters and the work change; nothing else does.
LEMMA CountStep ==
  ASSUME SpacesSound, IInv, mm' = mm, lazy' = lazy, pin' = pin, users' = users, mmPc' = mmPc,
         locked' = locked, UNCHANGED callVars, mmWarned' = mmWarned, UNCHANGED areaVars,
         UNCHANGED fileVars, count' \in [Mms -> Int], oom' \subseteq Mms,
         work' \subseteq {"mmput", "mmdrop"} \X Mms, \A x \in Mms : MmInv(x)'
  PROVE  IInv'
<1>1. /\ new' = new /\ old' = old /\ want' = want /\ mmArea' = mmArea
      /\ areas' = areas /\ textOf' = textOf /\ committed' = committed
      /\ exe' = exe /\ fileRefs' = fileRefs /\ writeCount' = writeCount
  BY DEF callVars, areaVars, fileVars
<1>2. \A q \in Procs : HeldFile(q)' = HeldFile(q) /\ DeniedFile(q)' = DeniedFile(q)
  BY <1>1 DEF HeldFile, DeniedFile
<1>3. PagesInv'
  BY <1>1 DEF IInv, PagesInv, Linked
<1>4. \A f \in Files : FileInv(f)'
  BY <1>1, <1>2, FilesSame DEF IInv
<1>5. Typed'
  BY <1>1 DEF IInv, Typed
<1> QED
  BY <1>1, <1>3, <1>4, <1>5, QuietStep

\* The OOM killer counts the mm of a victim.
LEMMA MarkOomKeeps ==
  ASSUME SpacesSound, IInv, NEW p \in Procs, MarkOom(p)
  PROVE  IInv'
<1> DEFINE m == mm[p]
<1>1. /\ Typed /\ m # NoMm /\ m \notin oom /\ oom' = oom \cup {m}
      /\ count' = [count EXCEPT ![m] = @ + 1] /\ mm' = mm /\ lazy' = lazy /\ pin' = pin
      /\ users' = users /\ work' = work /\ mmPc' = mmPc /\ locked' = locked
      /\ UNCHANGED callVars /\ mmWarned' = mmWarned /\ UNCHANGED areaVars /\ UNCHANGED fileVars
  BY DEF IInv, MarkOom
<1>2. m \in Mms
  BY <1>1 DEF Typed
<1>3. InUse(m)
  BY <1>2, Referred
<1> HIDE DEF m
<1>4. /\ count' \in [Mms -> Int] /\ count'[m] = count[m] + 1
      /\ \A x \in Mms : x # m => count'[x] = count[x]
      /\ oom' \subseteq Mms /\ work' \subseteq {"mmput", "mmdrop"} \X Mms
  BY <1>1, <1>2 DEF Typed
<1>5. ASSUME NEW x \in Mms PROVE MmInv(x)'
  <2>1. /\ MmInv(x) /\ (InUse(x)' <=> InUse(x)) /\ UserRefs(x)' = UserRefs(x)
        /\ areas' = areas /\ exe' = exe /\ Count(Procs, lazy, x) \in Nat
    BY <1>1, RefsNat DEF IInv, InUse, UserRefs, areaVars, fileVars, callVars
  <2>2. CASE x # m
    BY <1>1, <1>4, <2>1, <2>2 DEF MmInv, One
  <2>3. CASE x = m
    <3>1. /\ count[x] = 1 + Count(Procs, lazy, x) + 0 /\ (<<"mmdrop", x>> \in work => count[x] = 0)
      BY <1>1, <1>3, <2>1, <2>3 DEF MmInv, One
    <3>2. /\ <<"mmdrop", x>> \notin work /\ count'[x] = 1 + Count(Procs, lazy, x) + 1
      BY <1>4, <2>1, <2>3, <3>1
    <3>3. InUse(x)' /\ x \in oom'
      BY <1>1, <1>3, <2>1, <2>3
    <3> QED
      BY <1>1, <2>1, <3>2, <3>3 DEF MmInv, One
  <2> QED
    BY <2>2, <2>3
<1> QED
  BY <1>1, <1>4, <1>5, CountStep

\* The count of a victim's mm is dropped, and its free queued if it was the last.
LEMMA FreeSignalKeeps ==
  ASSUME SpacesSound, IInv, NEW m \in Mms, FreeSignal(m)
  PROVE  IInv'
<1>1. /\ Typed /\ m \in oom /\ oom' = oom \ {m} /\ count' = [count EXCEPT ![m] = @ - 1]
      /\ work' = IF count[m] = 1 THEN work \cup {<<"mmdrop", m>>} ELSE work
      /\ mm' = mm /\ lazy' = lazy /\ pin' = pin
      /\ users' = users /\ mmPc' = mmPc /\ locked' = locked
      /\ UNCHANGED callVars /\ mmWarned' = mmWarned /\ UNCHANGED areaVars /\ UNCHANGED fileVars
  BY DEF IInv, FreeSignal
<1>2. /\ count' \in [Mms -> Int] /\ count[m] \in Int /\ count'[m] = count[m] - 1
      /\ \A x \in Mms : x # m => count'[x] = count[x]
      /\ oom' \subseteq Mms /\ work' \subseteq {"mmput", "mmdrop"} \X Mms
      /\ \A x \in Mms : /\ <<"mmput", x>> \in work' <=> <<"mmput", x>> \in work
                        /\ x # m => (<<"mmdrop", x>> \in work' <=> <<"mmdrop", x>> \in work)
      /\ <<"mmdrop", m>> \in work' => <<"mmdrop", m>> \in work \/ count[m] = 1
  BY <1>1 DEF Typed
<1>3. ASSUME NEW x \in Mms PROVE MmInv(x)'
  <2>1. /\ MmInv(x) /\ (InUse(x)' <=> InUse(x)) /\ UserRefs(x)' = UserRefs(x)
        /\ areas' = areas /\ exe' = exe /\ Count(Procs, lazy, x) \in Nat
    BY <1>1, <1>2, RefsNat DEF IInv, InUse, UserRefs, areaVars, fileVars, callVars
  <2>2. CASE x # m
    BY <1>1, <1>2, <2>1, <2>2 DEF MmInv, One
  <2>3. CASE x = m
    <3>1. /\ count[x] = One(InUse(x)) + Count(Procs, lazy, x) + 1
          /\ (<<"mmdrop", x>> \in work => count[x] = 0) /\ One(InUse(x)) \in 0 .. 1
      BY <1>1, <2>1, <2>3 DEF MmInv, One
    <3>2. /\ <<"mmdrop", x>> \in work' => count'[x] = 0
          /\ count'[x] = One(InUse(x)) + Count(Procs, lazy, x) + 0
      BY <1>2, <2>1, <2>3, <3>1
    <3>3. x \notin oom' /\ One(InUse(x)') = One(InUse(x))
      BY <1>1, <2>1, <2>3 DEF One
    <3> QED
      BY <1>1, <1>2, <2>1, <3>2, <3>3 DEF MmInv, One
  <2> QED
    BY <2>2, <2>3
<1> QED
  BY <1>1, <1>2, <1>3, CountStep

\* mmdrop_async_fn.
LEMMA MmdropAsyncFnKeeps ==
  ASSUME SpacesSound, IInv, NEW m \in Mms, MmdropAsyncFn(m)
  PROVE  IInv'
<1>1. /\ Typed /\ work' = work \ {<<"mmdrop", m>>} /\ count' = count /\ oom' = oom
      /\ mm' = mm /\ lazy' = lazy /\ pin' = pin
      /\ users' = users /\ mmPc' = mmPc /\ locked' = locked
      /\ UNCHANGED callVars /\ mmWarned' = mmWarned /\ UNCHANGED areaVars /\ UNCHANGED fileVars
  BY DEF IInv, MmdropAsyncFn
<1>2. /\ count' \in [Mms -> Int] /\ oom' \subseteq Mms
      /\ work' \subseteq {"mmput", "mmdrop"} \X Mms
      /\ \A x \in Mms : /\ <<"mmput", x>> \in work' <=> <<"mmput", x>> \in work
                        /\ <<"mmdrop", x>> \in work' => <<"mmdrop", x>> \in work
  BY <1>1 DEF Typed
<1>3. ASSUME NEW x \in Mms PROVE MmInv(x)'
  <2>1. /\ MmInv(x) /\ (InUse(x)' <=> InUse(x)) /\ UserRefs(x)' = UserRefs(x)
        /\ areas' = areas /\ exe' = exe
    BY <1>1, <1>2 DEF IInv, InUse, UserRefs, areaVars, fileVars, callVars
  <2> QED
    BY <1>1, <1>2, <2>1 DEF MmInv, One
<1> QED
  BY <1>1, <1>2, <1>3, CountStep

\* A process has one more reference, to an mm that another one uses.
LEMMA GainRef ==
  ASSUME SpacesSound, IInv, NEW r \in Procs, NEW q \in Procs, NEW m \in Mms, mm[q] = m,
         users' = [users EXCEPT ![m] = @ + 1], count' = count, oom' = oom, work' = work,
         UNCHANGED areaVars, UNCHANGED fileVars, locked' = locked, mmWarned' = mmWarned,
         \A s \in Procs : s # r => SameProc(s), mmPc[r] \in {"none", "user"}, mmPc'[r] = "user",
         \/ pin[r] = NoMm /\ pin'[r] = m /\ mm'[r] = mm[r]
         \/ mm[r] = NoMm /\ mm'[r] = m /\ pin'[r] = pin[r],
         new' = new, lazy' = lazy, old' = old, want' = want, mmArea' = mmArea,
         mm' \in [Procs -> Mms \cup {NoMm}], pin' \in [Procs -> Mms \cup {NoMm}],
         mmPc' \in [Procs -> SpacePoints], PointInv(r)'
  PROVE  IInv'
<1>1. /\ Typed /\ areas' = areas /\ textOf' = textOf /\ committed' = committed
      /\ exe' = exe /\ fileRefs' = fileRefs /\ writeCount' = writeCount
      /\ \A s \in Procs : PointInv(s) /\ Private(s)
  BY DEF IInv, areaVars, fileVars
<1>2. users[m] >= 1 /\ InUse(m) /\ <<"mmput", m>> \notin work
  BY Referred
<1>3. ASSUME NEW x \in Mms PROVE UserRefs(x)' = UserRefs(x) + One(x = m)
  <2>1. /\ UserRefs(x)' = UserRefs(x) + Gain(mm[r], mm'[r], x) + Gain(pin[r], pin'[r], x)
                          + Gain(new[r], new'[r], x)
    BY RefsMove DEF SameProc
  <2>2. UserRefs(x) \in Nat /\ NoMm # x
    BY RefsNat DEF SpacesSound
  <2>3. /\ Gain(mm[r], mm'[r], x) + Gain(pin[r], pin'[r], x) = One(x = m)
        /\ Gain(mm[r], mm'[r], x) \in Int /\ Gain(pin[r], pin'[r], x) \in Int
        /\ Gain(new[r], new'[r], x) = 0
    BY <2>2 DEF Gain, One
  <2>4. One(x = m) \in Int
    BY DEF One
  <2> QED
    BY <2>1, <2>2, <2>3, <2>4
<1>4. /\ users' \in [Mms -> Int] /\ users[m] \in Int /\ users'[m] = users[m] + 1
      /\ \A x \in Mms : x # m => users'[x] = users[x]
  BY <1>1 DEF Typed
<1>5. ASSUME NEW x \in Mms PROVE MmInv(x)'
  <2>1. MmInv(x) /\ UserRefs(x) \in Nat
    BY RefsNat DEF IInv
  <2>2. InUse(x)' <=> InUse(x)
    BY <1>2, <1>4 DEF InUse
  <2>3. users'[x] = UserRefs(x)' /\ (<<"mmput", x>> \in work => users'[x] = 0)
    <3>1. CASE x = m
      BY <1>2, <1>3, <1>4, <2>1, <3>1 DEF MmInv, One
    <3>2. CASE x # m
      <4>1. One(x = m) = 0
        BY <3>2 DEF One
      <4>2. UserRefs(x)' = UserRefs(x)
        BY <1>3, <2>1, <4>1
      <4> QED
        BY <1>4, <2>1, <3>2, <4>2 DEF MmInv
    <3> QED
      BY <3>1, <3>2
  <2> QED
    BY <1>1, <2>1, <2>2, <2>3 DEF MmInv, One
<1>6. \A f \in Files : FileInv(f)'
  <2>1. HeldFile(r)' = HeldFile(r) /\ DeniedFile(r)' = DeniedFile(r)
    BY DEF HeldFile, DeniedFile
  <2>2. \A s \in Procs : HeldFile(s)' = HeldFile(s) /\ DeniedFile(s)' = DeniedFile(s)
    BY <2>1, SameHeld
  <2> QED
    BY <1>1, <2>2, FilesSame DEF IInv
<1>7. PagesInv' /\ mmWarned' = {}
  BY <1>1 DEF IInv, PagesInv, Linked
<1>8. Typed'
  BY <1>1, <1>4 DEF Typed
<1>9. ASSUME NEW s \in Procs, s # r PROVE Kept(s)
  <2>1. SameProc(s) /\ (mmPc[s] \in Dup => mm[s] \in locked')
    BY <1>1, <1>9 DEF PointInv
  <2>2. \A t \in Procs : mmPc[t] = "replace_allow" =>
          mmPc'[t] = "replace_allow" /\ mm'[t] = mm[t] /\ old'[t] = old[t]
    BY DEF SameProc
  <2> QED
    BY <1>1, <2>1, <2>2, KeptWhen
<1>10. /\ mmPc'[r] \notin Building /\ mmPc'[r] \notin Dup
  BY DEF Building, Dup
<1>11. ASSUME NEW s \in Procs, s # r, mmPc[s] \in Building
       PROVE  mm'[r] # new[s] /\ pin'[r] # new[s] /\ new'[r] # new[s]
  BY <1>1, <1>11 DEF Private
<1>12. Private(r)'
  BY <1>10 DEF Private
<1> DEFINE P == {r}
<1>13. /\ P \in SUBSET Procs /\ r \in P /\ \A s \in Procs \ P : s # r /\ SameProc(s) /\ Kept(s)
       /\ \A s \in P : s = r
  BY <1>9
<1> HIDE DEF P
<1> QED
  BY <1>5, <1>6, <1>7, <1>8, <1>10, <1>11, <1>12, <1>13, StepKeeps

\* get_task_mm.
LEMMA GetTaskMmKeeps ==
  ASSUME SpacesSound, IInv, NEW p \in Procs, NEW q \in Procs, GetTaskMm(p, q)
  PROVE  IInv'
<1> DEFINE m == mm[q]
<1>1. /\ Typed /\ PointInv(p) /\ mmPc[p] = "user" /\ pin[p] = NoMm /\ m # NoMm
      /\ pin' = [pin EXCEPT ![p] = m] /\ users' = [users EXCEPT ![m] = @ + 1]
      /\ count' = count /\ oom' = oom /\ work' = work /\ mm' = mm /\ lazy' = lazy
      /\ UNCHANGED areaVars /\ UNCHANGED fileVars /\ locked' = locked /\ mmPc' = mmPc
      /\ new' = new /\ old' = old /\ want' = want /\ mmArea' = mmArea /\ mmWarned' = mmWarned
  BY DEF IInv, GetTaskMm, callVars
<1>2. m \in Mms /\ mm[q] = m
  BY <1>1 DEF Typed
<1> HIDE DEF m
<1>3. /\ mm' \in [Procs -> Mms \cup {NoMm}] /\ pin' \in [Procs -> Mms \cup {NoMm}]
      /\ mmPc' \in [Procs -> SpacePoints] /\ pin'[p] = m /\ mm'[p] = mm[p]
  BY <1>1, <1>2 DEF Typed
<1>4. \A s \in Procs : s # p => SameProc(s)
  BY <1>1 DEF Typed, SameProc
<1>5. PointInv(p)' /\ mmPc'[p] = "user"
  BY <1>1, <1>3 DEF PointInv, Building, Dup, Wanting
<1> QED
  BY <1>1, <1>2, <1>3, <1>4, <1>5, GainRef

\* CLONE_VM.
LEMMA CloneVmKeeps ==
  ASSUME SpacesSound, IInv, NEW p \in Procs, NEW q \in Procs, CloneVm(p, q)
  PROVE  IInv'
<1> DEFINE m == mm[p]
<1>1. /\ Typed /\ PointInv(p) /\ PointInv(q) /\ mmPc[p] = "user" /\ mmPc[q] = "none"
      /\ mm' = [mm EXCEPT ![q] = m] /\ users' = [users EXCEPT ![m] = @ + 1]
      /\ mmPc' = [mmPc EXCEPT ![q] = "user"]
      /\ count' = count /\ oom' = oom /\ work' = work /\ pin' = pin /\ lazy' = lazy
      /\ UNCHANGED areaVars /\ UNCHANGED fileVars /\ locked' = locked
      /\ new' = new /\ old' = old /\ want' = want /\ mmArea' = mmArea /\ mmWarned' = mmWarned
  BY DEF IInv, CloneVm, MmGoto, callVars
<1>2. m \in Mms /\ mm[p] = m /\ mm[q] = NoMm
  BY <1>1 DEF PointInv
<1> HIDE DEF m
<1>3. /\ mm' \in [Procs -> Mms \cup {NoMm}] /\ pin' \in [Procs -> Mms \cup {NoMm}]
      /\ mmPc' \in [Procs -> SpacePoints] /\ mm'[q] = m /\ pin'[q] = pin[q]
      /\ mmPc'[q] = "user"
  BY <1>1, <1>2 DEF Typed, SpacePoints
<1>4. \A s \in Procs : s # q => SameProc(s)
  BY <1>1 DEF Typed, SameProc
<1>5. PointInv(q)'
  BY <1>1, <1>2, <1>3 DEF PointInv, Building, Dup, Wanting
<1> QED
  BY <1>1, <1>2, <1>3, <1>4, <1>5, GainRef

\* An unused mm is empty, and nobody has a reference to it.
LEMMA UnusedMm ==
  ASSUME SpacesSound, IInv, NEW m \in Mms, Unused(m)
  PROVE  /\ UserRefs(m) = 0 /\ Count(Procs, lazy, m) = 0 /\ m \notin oom
         /\ areas[m] = {} /\ exe[m] = NoFile
         /\ <<"mmput", m>> \notin work /\ <<"mmdrop", m>> \notin work
         /\ \A q \in Procs : mm[q] # m /\ pin[q] # m /\ new[q] # m
<1>1. MmInv(m) /\ users[m] = 0 /\ count[m] = 0 /\ \A w \in work : w[2] # m
  BY DEF IInv, Unused
<1>2. <<"mmput", m>> \notin work /\ <<"mmdrop", m>> \notin work
  BY <1>1
<1>3. UserRefs(m) = 0 /\ ~InUse(m) /\ areas[m] = {} /\ exe[m] = NoFile
  BY <1>1, <1>2 DEF MmInv, InUse
<1>4. Count(Procs, lazy, m) = 0 /\ m \notin oom
  <2>1. Count(Procs, lazy, m) \in Nat
    BY RefsNat
  <2>2. 0 = 0 + Count(Procs, lazy, m) + One(m \in oom) /\ One(m \in oom) \in 0 .. 1
    BY <1>1, <1>3 DEF MmInv, One
  <2>3. Count(Procs, lazy, m) = 0 /\ One(m \in oom) = 0
    BY <2>1, <2>2
  <2> QED
    BY <2>3 DEF One
<1>5. \A q \in Procs : mm[q] # m /\ pin[q] # m /\ new[q] # m
  BY <1>3, RefsNat
<1> QED
  BY <1>2, <1>3, <1>4, <1>5

\* mm_init: p has the only reference to a new mm.
LEMMA MmInitKeeps ==
  ASSUME SpacesSound, IInv, NEW m \in Mms, MmInit(m), oom' = oom, work' = work, lazy' = lazy,
         \A x \in Mms : UserRefs(x)' = UserRefs(x) + One(x = m),
         \A x \in Mms : x # m => areas'[x] = areas[x] /\ exe'[x] = exe[x]
  PROVE  /\ users' \in [Mms -> Int] /\ count' \in [Mms -> Int]
         /\ \A x \in Mms : MmInv(x)'
<1>1. /\ Unused(m) /\ users' = [users EXCEPT ![m] = 1] /\ count' = [count EXCEPT ![m] = 1]
      /\ Typed
  BY DEF MmInit, IInv
<1>2. /\ users' \in [Mms -> Int] /\ count' \in [Mms -> Int] /\ users'[m] = 1 /\ count'[m] = 1
      /\ \A x \in Mms : x # m => users'[x] = users[x] /\ count'[x] = count[x]
  BY <1>1 DEF Typed
<1>3. ASSUME NEW x \in Mms, x # m PROVE MmInv(x)'
  <2>1. MmInv(x) /\ UserRefs(x) \in Nat /\ (InUse(x)' <=> InUse(x))
    BY <1>2, <1>3, RefsNat DEF IInv, InUse
  <2>2. One(x = m) = 0
    BY <1>3 DEF One
  <2>3. UserRefs(x)' = UserRefs(x)
    BY <2>1, <2>2
  <2> QED
    BY <1>2, <1>3, <2>1, <2>3 DEF MmInv, One
<1>4. MmInv(m)'
  <2>1. /\ UserRefs(m) = 0 /\ Count(Procs, lazy, m) = 0 /\ m \notin oom
        /\ <<"mmput", m>> \notin work /\ <<"mmdrop", m>> \notin work
    BY <1>1, UnusedMm
  <2>2. UserRefs(m)' = 1 /\ InUse(m)'
    BY <1>2, <2>1 DEF One, InUse
  <2> QED
    BY <1>2, <2>1, <2>2 DEF MmInv, One
<1> QED
  BY <1>2, <1>3, <1>4

\* execve: the process has a new mm, and the old one in hand.
LEMMA ExecKeeps ==
  ASSUME SpacesSound, IInv, NEW p \in Procs, NEW m \in Mms, NEW g \in Files, Exec(p, m, g)
  PROVE  IInv'
<1> DEFINE V == DOMAIN Layout
<1>1. /\ Typed /\ PointInv(p) /\ mmPc[p] = "user" /\ pin[p] = NoMm /\ writeCount[g] <= 0
      /\ MmInit(m) /\ fileRefs' = Add(fileRefs, g, 1) /\ writeCount' = Add(writeCount, g, -1)
      /\ exe' = [exe EXCEPT ![m] = g] /\ textOf' = [textOf EXCEPT ![m] = g]
      /\ areas' = [areas EXCEPT ![m] = V] /\ committed' = committed + SumPages(V)
      /\ mm' = [mm EXCEPT ![p] = m] /\ new' = [new EXCEPT ![p] = mm[p]]
      /\ mmPc' = [mmPc EXCEPT ![p] = "put"] /\ lazy' = lazy /\ pin' = pin /\ oom' = oom
      /\ work' = work /\ locked' = locked /\ old' = old /\ want' = want /\ mmArea' = mmArea
      /\ mmWarned' = mmWarned
  BY DEF IInv, Exec, MmGoto
<1>2. /\ areas[m] = {} /\ exe[m] = NoFile
      /\ \A q \in Procs : mm[q] # m /\ pin[q] # m /\ new[q] # m
  BY <1>1, UnusedMm DEF MmInit
<1>3. /\ mm[p] \in Mms /\ new[p] = NoMm
  BY <1>1 DEF PointInv, Building, Dup
<1>4. /\ mm'[p] = m /\ new'[p] = mm[p] /\ pin'[p] = pin[p] /\ mmPc'[p] = "put"
      /\ \A q \in Procs : q # p => SameProc(q)
  BY <1>1 DEF Typed, SameProc
<1>5. ASSUME NEW x \in Mms PROVE UserRefs(x)' = UserRefs(x) + One(x = m)
  <2>1. /\ UserRefs(x)' = UserRefs(x) + Gain(mm[p], mm'[p], x) + Gain(pin[p], pin'[p], x)
                          + Gain(new[p], new'[p], x)
    BY <1>4, RefsMove DEF SameProc
  <2>2. UserRefs(x) \in Nat /\ NoMm # x
    BY RefsNat DEF SpacesSound
  <2>3. /\ Gain(mm[p], mm'[p], x) = One(x = m) - One(mm[p] = x) /\ Gain(pin[p], pin'[p], x) = 0
        /\ Gain(new[p], new'[p], x) = One(mm[p] = x)
        /\ One(x = m) \in Int /\ One(mm[p] = x) \in Int
    BY <1>3, <1>4, <2>2 DEF Gain, One
  <2> QED
    BY <2>1, <2>2, <2>3
<1>6. /\ areas' \in [Mms -> SUBSET DOMAIN Layout] /\ exe' \in [Mms -> Files \cup {NoFile}]
      /\ textOf' \in [Mms -> Files \cup {NoFile}] /\ exe'[m] = g
      /\ \A x \in Mms : x # m => areas'[x] = areas[x] /\ exe'[x] = exe[x]
  BY <1>1 DEF Typed
<1>7. /\ users' \in [Mms -> Int] /\ count' \in [Mms -> Int] /\ \A x \in Mms : MmInv(x)'
  BY <1>1, <1>5, <1>6, MmInitKeeps
<1>8. /\ fileRefs' \in [Files -> Int] /\ writeCount' \in [Files -> Int]
      /\ \A f \in Files : /\ fileRefs'[f] = fileRefs[f] + (IF g = f THEN 1 ELSE 0)
                          /\ writeCount'[f] = writeCount[f] + (IF g = f THEN -1 ELSE 0)
  <2>1. fileRefs \in [Files -> Int] /\ writeCount \in [Files -> Int]
    BY <1>1 DEF Typed
  <2> QED
    BY <1>1, <2>1, AddIs
<1>9. Typed'
  BY <1>1, <1>3, <1>6, <1>7, <1>8 DEF Typed, SpacePoints
<1>10. PagesInv'
  <2>1. areas \in [Mms -> SUBSET DOMAIN Layout] /\ PagesInv
    BY <1>1 DEF Typed, IInv
  <2>2. /\ areas' = [areas EXCEPT ![m] = @ \cup V] /\ V \in SUBSET DOMAIN Layout
        /\ V \cap areas[m] = {}
    BY <1>1, <1>2, <2>1
  <2> HIDE DEF V
  <2> QED
    BY <1>1, <2>1, <2>2, PagesLink
<1>11. ASSUME NEW f \in Files PROVE FileInv(f)'
  <2> DEFINE d == Gain(exe[m], exe'[m], f) + Gain(DeniedFile(p), DeniedFile(p)', f)
  <2>1. /\ HeldFile(p) = NoFile /\ HeldFile(p)' = NoFile
        /\ DeniedFile(p) = NoFile /\ DeniedFile(p)' = NoFile
    BY <1>1, <1>4 DEF HeldFile, DeniedFile
  <2>2. NoFile # f /\ FileInv(f) /\ fileRefs[f] \in Int /\ writeCount[f] \in Int
    BY <1>1 DEF SpacesSound, IInv, Typed
  <2>3. /\ Gain(exe[m], exe'[m], f) = (IF g = f THEN 1 ELSE 0)
        /\ Gain(HeldFile(p), HeldFile(p)', f) = 0 /\ Gain(DeniedFile(p), DeniedFile(p)', f) = 0
    BY <1>2, <1>6, <2>1, <2>2 DEF Gain, One
  <2>4. fileRefs'[f] = fileRefs[f] + Gain(exe[m], exe'[m], f)
                       + Gain(HeldFile(p), HeldFile(p)', f)
    BY <1>8, <2>2, <2>3
  <2>5. d = (IF g = f THEN 1 ELSE 0) /\ d \in Int
    BY <2>3
  <2>6. writeCount'[f] = writeCount[f] - d /\ (d > 0 => writeCount[f] <= 0)
    BY <1>1, <1>8, <2>2, <2>5
  <2>7. \A q \in Procs : q # p => HeldFile(q)' = HeldFile(q) /\ DeniedFile(q)' = DeniedFile(q)
    BY <1>4, SameHeld
  <2>8. /\ d = Gain(exe[m], exe'[m], f) + Gain(DeniedFile(p), DeniedFile(p)', f)
        /\ \A y \in Mms : y # m => exe'[y] = exe[y]
    BY <1>6
  <2> HIDE DEF d
  <2> QED
    BY <1>1, <2>2, <2>4, <2>5, <2>6, <2>7, <2>8, FileMove
<1>12. ASSUME NEW q \in Procs, q # p PROVE Kept(q)
  <2>1. SameProc(q) /\ PointInv(q) /\ mm[q] # m /\ new[q] # m
    BY <1>2, <1>4, <1>12 DEF IInv
  <2>2. mmPc[q] \in Building => new[q] \in Mms
    BY <2>1 DEF PointInv
  <2>3. mmPc[q] \in Dup => mm[q] \in locked' /\ mm[q] \in Mms
    BY <1>1, <2>1 DEF PointInv, Dup
  <2>4. \A r \in Procs : mmPc[r] = "replace_allow" =>
          mmPc'[r] = "replace_allow" /\ mm'[r] = mm[r] /\ old'[r] = old[r]
    BY <1>1, <1>4 DEF SameProc
  <2> QED
    BY <1>6, <2>1, <2>2, <2>3, <2>4, KeptWhen
<1>13. PointInv(p)' /\ mmPc'[p] \notin Building /\ mmPc'[p] \notin Dup
  BY <1>1, <1>3, <1>4 DEF PointInv, Building, Dup, Wanting
<1>14. ASSUME NEW q \in Procs, q # p, mmPc[q] \in Building
       PROVE  mm'[p] # new[q] /\ pin'[p] # new[q] /\ new'[p] # new[q]
  BY <1>2, <1>4, <1>14 DEF IInv, Private
<1>15. Private(p)' /\ mmWarned' = {}
  BY <1>1, <1>13 DEF Private, IInv
<1> DEFINE P == {p}
<1>16. /\ P \in SUBSET Procs /\ p \in P /\ \A q \in Procs \ P : q # p /\ SameProc(q) /\ Kept(q)
       /\ \A r \in P : r = p
  BY <1>4, <1>12
<1> HIDE DEF P
<1> QED
  BY <1>7, <1>9, <1>10, <1>11, <1>13, <1>14, <1>15, <1>16, StepKeeps

\* dup_mm begins with an mm that nobody else sees.
LEMMA DupMmKeeps ==
  ASSUME SpacesSound, IInv, NEW p \in Procs, NEW m \in Mms, DupMm(p, m)
  PROVE  IInv'
<1>1. /\ Typed /\ PointInv(p) /\ mmPc[p] = "user" /\ MmInit(m)
      /\ new' = [new EXCEPT ![p] = m] /\ mmPc' = [mmPc EXCEPT ![p] = "dup_lock"]
      /\ mm' = mm /\ lazy' = lazy /\ pin' = pin /\ oom' = oom
      /\ UNCHANGED areaVars /\ UNCHANGED fileVars
      /\ work' = work /\ locked' = locked /\ old' = old /\ want' = want /\ mmArea' = mmArea
      /\ mmWarned' = mmWarned
  BY DEF IInv, DupMm, MmGoto
<1>2. /\ areas' = areas /\ textOf' = textOf /\ committed' = committed
      /\ exe' = exe /\ fileRefs' = fileRefs /\ writeCount' = writeCount
  BY <1>1 DEF areaVars, fileVars
<1>3. /\ areas[m] = {} /\ exe[m] = NoFile
      /\ \A q \in Procs : mm[q] # m /\ pin[q] # m /\ new[q] # m
  BY <1>1, UnusedMm DEF MmInit
<1>4. new[p] = NoMm
  BY <1>1 DEF PointInv, Building, Dup
<1>5. /\ new'[p] = m /\ mmPc'[p] = "dup_lock" /\ \A q \in Procs : q # p => SameProc(q)
  BY <1>1 DEF Typed, SameProc
<1>6. ASSUME NEW x \in Mms PROVE UserRefs(x)' = UserRefs(x) + One(x = m)
  <2>1. /\ UserRefs(x)' = UserRefs(x) + Gain(mm[p], mm'[p], x) + Gain(pin[p], pin'[p], x)
                          + Gain(new[p], new'[p], x)
    BY <1>5, <1>1, RefsMove DEF SameProc
  <2>2. UserRefs(x) \in Nat /\ NoMm # x
    BY RefsNat DEF SpacesSound
  <2>3. /\ Gain(mm[p], mm'[p], x) = 0 /\ Gain(pin[p], pin'[p], x) = 0
        /\ Gain(new[p], new'[p], x) = One(x = m) /\ One(x = m) \in Int
    BY <1>1, <1>4, <1>5, <2>2 DEF Gain, One
  <2> QED
    BY <2>1, <2>2, <2>3
<1>7. /\ users' \in [Mms -> Int] /\ count' \in [Mms -> Int] /\ \A x \in Mms : MmInv(x)'
  BY <1>1, <1>2, <1>6, MmInitKeeps
<1>8. Typed'
  BY <1>1, <1>2, <1>7 DEF Typed, SpacePoints, Building
<1>9. PagesInv' /\ mmWarned' = {}
  BY <1>1, <1>2 DEF IInv, PagesInv, Linked
<1>10. \A f \in Files : FileInv(f)'
  <2>1. HeldFile(p)' = HeldFile(p) /\ DeniedFile(p)' = DeniedFile(p)
    BY <1>1, <1>5 DEF HeldFile, DeniedFile
  <2>2. \A s \in Procs : HeldFile(s)' = HeldFile(s) /\ DeniedFile(s)' = DeniedFile(s)
    BY <1>5, <2>1, SameHeld
  <2> QED
    BY <1>2, <2>2, FilesSame DEF IInv
<1>11. ASSUME NEW q \in Procs, q # p PROVE Kept(q)
  <2>1. SameProc(q) /\ PointInv(q)
    BY <1>5, <1>11 DEF IInv
  <2>2. mmPc[q] \in Dup => mm[q] \in locked'
    BY <1>1, <2>1 DEF PointInv
  <2>3. \A r \in Procs : mmPc[r] = "replace_allow" =>
          mmPc'[r] = "replace_allow" /\ mm'[r] = mm[r] /\ old'[r] = old[r]
    BY <1>1, <1>5 DEF SameProc
  <2> QED
    BY <1>2, <2>1, <2>2, <2>3, KeptWhen
<1>12. PointInv(p)' /\ mmPc'[p] \notin Dup
  BY <1>1, <1>2, <1>3, <1>5 DEF PointInv, Building, Dup, Wanting
<1>13. Private(p)'
  BY <1>1, <1>3, <1>5 DEF Private, SameProc
<1>14. ASSUME NEW q \in Procs, q # p, mmPc[q] \in Building
       PROVE  mm'[p] # new[q] /\ pin'[p] # new[q] /\ new'[p] # new[q]
  BY <1>1, <1>3, <1>5, <1>14 DEF IInv, Private
<1> DEFINE P == {p}
<1>15. /\ P \in SUBSET Procs /\ p \in P /\ \A q \in Procs \ P : q # p /\ SameProc(q) /\ Kept(q)
       /\ \A r \in P : r = p
  BY <1>5, <1>11
<1> HIDE DEF P
<1> QED
  BY <1>7, <1>8, <1>9, <1>10, <1>12, <1>13, <1>14, <1>15, StepKeeps

\* dup_mm is done: the reference of p becomes that of the child.
LEMMA DupDoneKeeps ==
  ASSUME SpacesSound, IInv, NEW p \in Procs, NEW q \in Procs, DupDone(p, q)
  PROVE  IInv'
<1> DEFINE m == new[p]
<1>1. /\ Typed /\ PointInv(p) /\ PointInv(q) /\ mmPc[p] = "dup_area" /\ mmPc[q] = "none"
      /\ mm' = [mm EXCEPT ![q] = m] /\ new' = [new EXCEPT ![p] = NoMm] /\ DupUnlock(p)
      /\ mmPc' = [mmPc EXCEPT ![p] = "user", ![q] = "user"]
      /\ lazy' = lazy /\ pin' = pin /\ users' = users /\ count' = count /\ oom' = oom
      /\ work' = work /\ UNCHANGED areaVars /\ UNCHANGED fileVars
      /\ old' = old /\ want' = want /\ mmWarned' = mmWarned
  BY DEF IInv, DupDone
<1>2. /\ areas' = areas /\ textOf' = textOf /\ committed' = committed
      /\ exe' = exe /\ fileRefs' = fileRefs /\ writeCount' = writeCount
  BY <1>1 DEF areaVars, fileVars
<1>3. /\ p # q /\ m \in Mms /\ mm[p] \in Mms /\ mm[q] = NoMm /\ mmPc[p] \in Dup
      /\ mmPc[p] \in Building
  BY <1>1 DEF PointInv, Building, Dup
<1>4. /\ mm'[q] = m /\ new'[p] = NoMm /\ mmPc'[p] = "user" /\ mmPc'[q] = "user"
      /\ mm'[p] = mm[p] /\ new'[q] = new[q]
      /\ \A s \in Procs : s # q => mm'[s] = mm[s]
      /\ \A s \in Procs : s # p => new'[s] = new[s]
      /\ \A s \in Procs : s # p /\ s # q => mmPc'[s] = mmPc[s]
  BY <1>1, <1>3 DEF Typed
<1>5. mmArea' = [mmArea EXCEPT ![p] = 1] /\ locked' = locked \ {mm[p], m}
  BY <1>1 DEF DupUnlock
<1>6. \A s \in Procs : s # p /\ s # q => SameProc(s)
  BY <1>1, <1>4, <1>5 DEF Typed, SameProc
<1>7. ASSUME NEW x \in Mms PROVE UserRefs(x)' = UserRefs(x)
  <2>1. /\ Count(Procs, mm, x) \in Nat /\ Count(Procs, pin, x) \in Nat
        /\ Count(Procs, new, x) \in Nat
    BY CountNat DEF SpacesSound
  <2>2. Count(Procs, mm', x) = Count(Procs, mm, x) + One(mm'[q] = x) - One(mm[q] = x)
    BY <1>4, Recount DEF SpacesSound
  <2>3. Count(Procs, new', x) = Count(Procs, new, x) + One(new'[p] = x) - One(new[p] = x)
    BY <1>4, Recount DEF SpacesSound
  <2>4. NoMm # x
    BY DEF SpacesSound
  <2>5. /\ One(mm[q] = x) = 0 /\ One(new'[p] = x) = 0 /\ One(mm'[q] = x) = One(new[p] = x)
        /\ One(new[p] = x) \in Int
    BY <1>3, <1>4, <2>4 DEF One
  <2>6. UserRefs(x)' = Count(Procs, mm', x) + Count(Procs, pin, x) + Count(Procs, new', x)
    BY <1>1 DEF UserRefs
  <2> QED
    BY <2>1, <2>2, <2>3, <2>5, <2>6 DEF UserRefs
<1> HIDE DEF m
<1>8. ASSUME NEW x \in Mms PROVE MmInv(x)'
  <2>1. MmInv(x) /\ (InUse(x)' <=> InUse(x))
    BY <1>1 DEF IInv, InUse
  <2> QED
    BY <1>1, <1>2, <1>7, <2>1 DEF MmInv, One
<1>9. Typed'
  <2>1. Len(Layout) \in Nat
    BY DEF SpacesSound
  <2> QED
    BY <1>1, <1>2, <1>3, <1>5, <2>1 DEF Typed, SpacePoints
<1>10. PagesInv' /\ mmWarned' = {}
  BY <1>1, <1>2 DEF IInv, PagesInv, Linked
<1>11. \A f \in Files : FileInv(f)'
  <2>1. /\ HeldFile(p)' = HeldFile(p) /\ DeniedFile(p)' = DeniedFile(p)
        /\ HeldFile(q)' = HeldFile(q) /\ DeniedFile(q)' = DeniedFile(q)
    BY <1>1, <1>4 DEF HeldFile, DeniedFile
  <2>2. \A s \in Procs : HeldFile(s)' = HeldFile(s) /\ DeniedFile(s)' = DeniedFile(s)
    BY <1>6, <2>1, SameHeld
  <2> QED
    BY <1>2, <2>2, FilesSame DEF IInv
<1>12. ASSUME NEW s \in Procs, s # p, s # q PROVE Kept(s)
  <2>1. SameProc(s)
    BY <1>6, <1>12
  <2>2. mmPc[s] \in Dup => mm[s] \in locked'
    BY <1>1, <1>3, <1>12, UnlockKept
  <2>3. \A r \in Procs : mmPc[r] = "replace_allow" =>
          mmPc'[r] = "replace_allow" /\ mm'[r] = mm[r] /\ old'[r] = old[r]
    BY <1>1, <1>6 DEF SameProc
  <2> QED
    BY <1>2, <2>1, <2>2, <2>3, KeptWhen
<1>13. PointInv(p)' /\ PointInv(q)'
  BY <1>1, <1>2, <1>3, <1>4 DEF PointInv, Building, Dup, Wanting
<1>14. /\ mmPc'[p] \notin Building /\ mmPc'[p] \notin Dup
       /\ mmPc'[q] \notin Building /\ mmPc'[q] \notin Dup
  BY <1>4 DEF Building, Dup
<1>15. Private(p)' /\ Private(q)'
  BY <1>14 DEF Private
<1>16. ASSUME NEW s \in Procs, s # p, s # q, mmPc[s] \in Building
       PROVE  /\ mm'[p] # new[s] /\ pin'[p] # new[s] /\ new'[p] # new[s]
              /\ mm'[q] # new[s] /\ pin'[q] # new[s] /\ new'[q] # new[s]
  <2>1. new[s] \in Mms /\ NoMm \notin Mms /\ Private(s)
    BY <1>16 DEF IInv, PointInv, SpacesSound
  <2>2. m # new[s]
    BY <1>16, <2>1 DEF Private, m
  <2> QED
    BY <1>1, <1>4, <1>16, <2>1, <2>2 DEF Private
<1> DEFINE P == {p, q}
<1>17. /\ P \in SUBSET Procs
       /\ \A s \in Procs \ P : s # p /\ s # q /\ SameProc(s) /\ Kept(s)
       /\ \A r \in P : r = p \/ r = q
  BY <1>6, <1>12
<1>18. /\ \A r \in P : PointInv(r)' /\ Private(r)' /\ mmPc'[r] \notin Dup
       /\ \A r \in P : \A s \in Procs \ P :
            mmPc[s] \in Building => mm'[r] # new[s] /\ pin'[r] # new[s] /\ new'[r] # new[s]
  BY <1>13, <1>14, <1>15, <1>16
<1> HIDE DEF P
<1> QED
  BY <1>8, <1>9, <1>10, <1>11, <1>17, <1>18, StepKeeps

-----------------------------------------------------------------------------
(***************************************************************************)
(* The theorems.                                                           *)
(***************************************************************************)
\* Exactly one of those counted, or none.
LEMMA CountOne ==
  ASSUME NEW S, NEW f, NEW x, NEW s \in S, f[s] = x, \A t \in S : t # s => f[t] # x
  PROVE  Count(S, f, x) = 1
<1>1. {t \in S : f[t] = x} = {s}
  OBVIOUS
<1>2. Cardinality({s}) = 1
  BY FS_Singleton, Zenon
<1> QED
  BY <1>1, <1>2, Zenon DEF Count

\* None is counted.
LEMMA CountNone ==
  ASSUME NEW S, NEW f, NEW x, \A t \in S : f[t] # x
  PROVE  Count(S, f, x) = 0
<1>1. {t \in S : f[t] = x} = {}
  OBVIOUS
<1>2. Cardinality({}) = 0
  BY FS_EmptySet
<1> QED
  BY <1>1, <1>2, Zenon DEF Count

\* The invariant holds initially.
LEMMA InitInv ==
  ASSUME SpacesSound, SpaceInit
  PROVE  IInv
<1> DEFINE p0 == CHOOSE p \in Procs : TRUE
           m0 == CHOOSE m \in Mms : TRUE
<1>1. p0 \in Procs /\ m0 \in Mms
  BY DEF SpacesSound
<1>2. /\ mm = [p \in Procs |-> IF p = p0 THEN m0 ELSE NoMm]
      /\ pin = [p \in Procs |-> NoMm] /\ lazy = [p \in Procs |-> NoMm]
      /\ users = [m \in Mms |-> IF m = m0 THEN 1 ELSE 0]
      /\ count = [m \in Mms |-> IF m = m0 THEN 1 ELSE 0]
      /\ areas = [m \in Mms |-> IF m = m0 THEN DOMAIN Layout ELSE {}]
      /\ textOf = [m \in Mms |-> IF m = m0 THEN Exe0 ELSE NoFile]
      /\ committed = SumPages(DOMAIN Layout)
      /\ exe = [m \in Mms |-> IF m = m0 THEN Exe0 ELSE NoFile]
      /\ fileRefs = [f \in Files |-> 1]
      /\ writeCount = [f \in Files |-> IF f = Exe0 THEN -1 ELSE 0]
      /\ mmPc = [p \in Procs |-> IF p = p0 THEN "user" ELSE "none"]
      /\ new = [p \in Procs |-> NoMm] /\ old = [p \in Procs |-> NoFile]
      /\ want = [p \in Procs |-> NoFile] /\ mmArea = [p \in Procs |-> 1]
      /\ locked = {} /\ work = {} /\ oom = {} /\ mmWarned = {}
  BY DEF SpaceInit
<1> HIDE DEF p0, m0
<1>3. NoMm \notin Mms /\ NoFile \notin Files /\ Exe0 \in Files /\ Len(Layout) \in Nat
  BY DEF SpacesSound
<1>4. Typed
  BY <1>1, <1>2, <1>3 DEF Typed, SpacePoints
<1>5. ASSUME NEW m \in Mms PROVE MmInv(m)
  <2>1. /\ Count(Procs, pin, m) = 0 /\ Count(Procs, new, m) = 0 /\ Count(Procs, lazy, m) = 0
    BY <1>2, <1>3, CountNone
  <2>2. Count(Procs, mm, m) = IF m = m0 THEN 1 ELSE 0
    <3>1. CASE m = m0
      BY <1>1, <1>2, <1>3, <3>1, CountOne
    <3>2. CASE m # m0
      BY <1>1, <1>2, <1>3, <3>2, CountNone
    <3> QED
      BY <3>1, <3>2
  <2> QED
    BY <1>2, <2>1, <2>2 DEF MmInv, UserRefs, InUse, One
<1>6. PagesInv
  <2> DEFINE C == ChargedPages(DOMAIN Layout)
  <2>1. \A m \in Mms : m # m0 => areas[m] = {}
    BY <1>2
  <2>2. areas[m0] = DOMAIN Layout /\ ChargedPages({}) = {}
    BY <1>1, <1>2 DEF ChargedPages
  <2>3. Linked = {m0} \X C
    BY <1>1, <2>1, <2>2 DEF Linked
  <2>4. IsFiniteSet(C) /\ SumPages(DOMAIN Layout) \in Nat
    BY PagesFinite
  <2>5. IsFiniteSet({m0}) /\ Cardinality({m0}) = 1
    BY FS_Singleton, Zenon
  <2>6. Cardinality({m0} \X C) = Cardinality({m0}) * Cardinality(C)
    BY <2>4, <2>5, FS_Product
  <2>7. Cardinality(C) = SumPages(DOMAIN Layout)
    BY DEF SumPages
  <2>8. Cardinality({m0} \X C) = SumPages(DOMAIN Layout)
    BY <2>4, <2>5, <2>6, <2>7
  <2> QED
    BY <1>2, <2>3, <2>8 DEF PagesInv
<1>7. ASSUME NEW f \in Files PROVE FileInv(f)
  <2>1. \A p \in Procs : Holders[p] = NoFile /\ Deniers[p] = NoFile
    BY <1>2 DEF Holders, Deniers, HeldFile, DeniedFile
  <2>2. Count(Procs, Holders, f) = 0 /\ Count(Procs, Deniers, f) = 0
    BY <1>3, <2>1, CountNone
  <2>3. Count(Mms, exe, f) = IF f = Exe0 THEN 1 ELSE 0
    <3>1. CASE f = Exe0
      BY <1>1, <1>2, <1>3, <3>1, CountOne
    <3>2. CASE f # Exe0
      BY <1>1, <1>2, <1>3, <3>2, CountNone
    <3> QED
      BY <3>1, <3>2
  <2> QED
    BY <1>2, <2>2, <2>3 DEF FileInv, DenyRefs, One
<1>8. \A p \in Procs : PointInv(p) /\ Private(p)
  BY <1>1, <1>2 DEF PointInv, Private, Building, Dup, Wanting
<1>9. LockInv
  BY <1>2 DEF LockInv, Dup
<1> QED
  BY <1>2, <1>4, <1>5, <1>6, <1>7, <1>8, <1>9 DEF IInv

\* Nothing happens.
LEMMA StutterKeeps ==
  ASSUME SpacesSound, IInv, UNCHANGED spaceVars
  PROVE  IInv'
<1>1. /\ UNCHANGED mmVars /\ UNCHANGED areaVars /\ UNCHANGED fileVars /\ UNCHANGED callVars
      /\ locked' = locked /\ mmPc' = mmPc /\ mmWarned' = mmWarned
  BY DEF spaceVars
<1>2. /\ mm' = mm /\ lazy' = lazy /\ pin' = pin /\ users' = users /\ count' = count
      /\ oom' = oom /\ work' = work
  BY <1>1 DEF mmVars
<1>3. \A x \in Mms : MmInv(x)'
  <2>1. new' = new /\ areas' = areas /\ exe' = exe
    BY <1>1 DEF callVars, areaVars, fileVars
  <2> QED
    BY <1>1, <2>1, MmsSame DEF IInv
<1>4. /\ count' \in [Mms -> Int] /\ oom' \subseteq Mms
      /\ work' \subseteq {"mmput", "mmdrop"} \X Mms
  BY <1>2 DEF IInv, Typed
<1> QED
  BY <1>1, <1>2, <1>3, <1>4, CountStep

\* Every step keeps the invariant.
LEMMA NextKeeps ==
  ASSUME SpacesSound, IInv, [SpaceNext]_spaceVars
  PROVE  IInv'
<1>1. ASSUME NEW p \in Procs,
             \/ ExitMm(p) \/ DropLazy(p) \/ PutPin(p) \/ PutPinAsync(p) \/ MarkOom(p)
             \/ PutNew(p)
      PROVE  IInv'
  BY <1>1, ExitMmKeeps, DropLazyKeeps, PutPinKeeps, PutPinAsyncKeeps, MarkOomKeeps, PutNewKeeps
<1>2. ASSUME NEW p \in Procs,
             \/ DupLock(p) \/ DupLockKilled(p) \/ DupTakeExe(p) \/ DupDenyExe(p)
             \/ CopyArea(p) \/ DupLateFail(p)
      PROVE  IInv'
  BY <1>2, DupLockKeeps, DupLockKilledKeeps, DupTakeExeKeeps, DupDenyExeKeeps, CopyAreaKeeps,
     DupLateFailKeeps
<1>3. ASSUME NEW p \in Procs,
             \/ ReplaceTake(p) \/ ReplaceCheck(p) \/ ReplaceDeny(p) \/ ReplaceXchg(p)
             \/ ReplaceAllow(p)
      PROVE  IInv'
  BY <1>3, ReplaceTakeKeeps, ReplaceCheckKeeps, ReplaceDenyKeeps, ReplaceXchgKeeps,
     ReplaceAllowKeeps
<1>4. ASSUME NEW p \in Procs, NEW q \in Procs, GetTaskMm(p, q) \/ CloneVm(p, q) \/ DupDone(p, q)
      PROVE  IInv'
  BY <1>4, GetTaskMmKeeps, CloneVmKeeps, DupDoneKeeps
<1>5. ASSUME NEW p \in Procs, NEW m \in Mms, DupMm(p, m) \/ \E f \in Files : Exec(p, m, f)
      PROVE  IInv'
  BY <1>5, DupMmKeeps, ExecKeeps
<1>6. ASSUME NEW p \in Procs, NEW linked \in BOOLEAN, FailArea(p, linked) PROVE IInv'
  BY <1>6, FailAreaKeeps
<1>7. ASSUME NEW p \in Procs, NEW v \in DOMAIN Layout, Unmap(p, v) PROVE IInv'
  BY <1>7, UnmapKeeps
<1>8. ASSUME NEW p \in Procs, NEW f \in Files, Replace(p, f) PROVE IInv'
  BY <1>8, ReplaceKeeps
<1>9. ASSUME NEW m \in Mms, MmputAsyncFn(m) \/ FreeSignal(m) \/ MmdropAsyncFn(m) PROVE IInv'
  BY <1>9, MmputAsyncFnKeeps, FreeSignalKeeps, MmdropAsyncFnKeeps
<1>10. ASSUME NEW f \in Files, OpenWrite(f) \/ CloseWrite(f) PROVE IInv'
  BY <1>10, WriterKeeps
<1>11. CASE UNCHANGED spaceVars
  BY <1>11, StutterKeeps
<1>12. CASE SpaceNext
  BY <1>1, <1>2, <1>3, <1>4, <1>5, <1>6, <1>7, <1>8, <1>9, <1>10, <1>12, Zenon DEF SpaceNext
<1> QED
  BY <1>11, <1>12

\* In every reachable state of any number of processes, mms, files and areas
\* the inductive invariant holds.
THEOREM SpaceInvariance == SpaceSpec => []IInv
<1>1. SpaceInit => IInv
  BY InitInv, SpacesHold
<1>2. IInv /\ [SpaceNext]_spaceVars => IInv'
  BY NextKeeps, SpacesHold
<1> QED
  BY <1>1, <1>2, PTL DEF SpaceSpec

\* A work item of an mm is queued for one function at a time.
LEMMA OneWork ==
  ASSUME SpacesSound, IInv, NEW m \in Mms
  PROVE  Cardinality({w \in work : w[2] = m}) <= 1
<1> DEFINE W == {w \in work : w[2] = m}
<1>1. \A w \in W : w = <<"mmput", m>> \/ w = <<"mmdrop", m>>
  BY DEF IInv, Typed
<1>2. <<"mmput", m>> \in work => <<"mmdrop", m>> \notin work
  <2>1. MmInv(m) /\ Count(Procs, lazy, m) \in Nat
    BY RefsNat DEF IInv
  <2> QED
    BY <2>1 DEF MmInv, InUse, One
<1>3. PICK v : W \subseteq {v}
  BY <1>1, <1>2
<1>4. IsFiniteSet({v}) /\ Cardinality({v}) = 1
  BY FS_Singleton, Zenon
<1> HIDE DEF W
<1>5. Cardinality(W) <= Cardinality({v}) /\ Cardinality(W) \in Nat
  BY <1>3, <1>4, FS_Subset, FS_CardinalityType
<1> QED
  BY <1>4, <1>5 DEF W

\* mm_users and mm_count are exact in every reachable state, whatever fails
\* on the way, the charged pages are those of the areas that are linked, and
\* async_put_work is never queued twice.
THEOREM MmIsExact == SpaceSpec => []MmExact
<1>1. ASSUME IInv PROVE MmExact
  <2>1. SpacesSound
    BY SpacesHold
  <2>2. ASSUME NEW m \in Mms
        PROVE  /\ users[m] = Count(Procs, mm, m) + Count(Procs, pin, m) + Count(Procs, new, m)
               /\ count[m] = (IF users[m] > 0 \/ <<"mmput", m>> \in work THEN 1 ELSE 0)
                             + Count(Procs, lazy, m) + (IF m \in oom THEN 1 ELSE 0)
               /\ Cardinality({w \in work : w[2] = m}) <= 1
               /\ <<"mmdrop", m>> \in work => count[m] = 0 /\ areas[m] = {}
    <3>1. MmInv(m) /\ Count(Procs, lazy, m) \in Nat
      BY <1>1, <2>1, RefsNat DEF IInv
    <3>2. Cardinality({w \in work : w[2] = m}) <= 1
      BY <1>1, <2>1, OneWork
    <3>3. /\ users[m] = Count(Procs, mm, m) + Count(Procs, pin, m) + Count(Procs, new, m)
          /\ count[m] = (IF users[m] > 0 \/ <<"mmput", m>> \in work THEN 1 ELSE 0)
                        + Count(Procs, lazy, m) + (IF m \in oom THEN 1 ELSE 0)
      BY <3>1 DEF MmInv, UserRefs, One, InUse
    <3>4. ASSUME <<"mmdrop", m>> \in work PROVE count[m] = 0 /\ areas[m] = {}
      BY <3>1, <3>4 DEF MmInv, One
    <3> QED
      BY <3>2, <3>3, <3>4
  <2>3. committed = Cardinality(UNION {{m} \X ChargedPages(areas[m]) : m \in Mms})
    BY <1>1 DEF IInv, PagesInv, Linked
  <2> QED
    BY <2>2, <2>3 DEF MmExact, Count
<1> QED
  BY <1>1, SpaceInvariance, PTL

\* The type invariant of the address spaces; that mm_users, mm_count and the
\* references of a file are never negative, that no put comes twice, needs the
\* whole inductive invariant.
THEOREM SpaceTypesAreKept == SpaceSpec => []SpaceTypeOK
<1>1. ASSUME IInv PROVE SpaceTypeOK
  <2>1. SpacesSound /\ Typed
    BY <1>1, SpacesHold DEF IInv
  <2>2. ASSUME NEW m \in Mms PROVE users[m] \in Nat /\ count[m] \in Nat
    <3>1. MmInv(m) /\ UserRefs(m) \in Nat /\ Count(Procs, lazy, m) \in Nat
      BY <1>1, <2>1, RefsNat DEF IInv
    <3> QED
      BY <3>1 DEF MmInv, One
  <2>3. ASSUME NEW f \in Files PROVE fileRefs[f] \in Nat
    <3>1. Count(Mms, exe, f) \in Nat /\ Count(Procs, Holders, f) \in Nat /\ FileInv(f)
      BY <1>1, <2>1, CountNat DEF SpacesSound, IInv
    <3> QED
      BY <3>1 DEF FileInv, One
  <2>4. committed \in Nat
    BY <1>1, <2>1, LinkedFinite, FS_CardinalityType DEF IInv, PagesInv
  <2>5. users \in [Mms -> Nat] /\ count \in [Mms -> Nat] /\ fileRefs \in [Files -> Nat]
    BY <2>1, <2>2, <2>3 DEF Typed
  <2> QED
    BY <2>1, <2>4, <2>5 DEF Typed, SpaceTypeOK
<1> QED
  BY <1>1, SpaceInvariance, PTL

\* The executable of a program is denied to writers exactly once for each
\* exe_file and each replacement on its way, and dup_mm_exe_file never fails.
THEOREM ExeIsNotWritten == SpaceSpec => []ExeNotWritten
<1>1. ASSUME IInv PROVE ExeNotWritten
  <2>1. SpacesSound /\ mmWarned = {}
    BY <1>1, SpacesHold DEF IInv
  <2>2. ASSUME NEW f \in Files
        PROVE  LET inMm == Cardinality({m \in Mms : exe[m] = f})
                   inCall == Cardinality({p \in Procs : mmPc[p] = "replace_xchg" /\ want[p] = f})
                             + Cardinality({p \in Procs : mmPc[p] = "replace_allow" /\ old[p] = f})
               IN  inMm + inCall > 0 => writeCount[f] = -(inMm + inCall)
    <3> DEFINE A == {p \in Procs : mmPc[p] = "replace_xchg" /\ want[p] = f}
               B == {p \in Procs : mmPc[p] = "replace_allow" /\ old[p] = f}
    <3>1. NoFile # f /\ IsFiniteSet(Procs) /\ FileInv(f)
      BY <1>1, <2>1 DEF SpacesSound, IInv
    <3>2. {p \in Procs : Deniers[p] = f} = A \cup B
      BY <3>1 DEF Deniers, DeniedFile
    <3>3. A \cap B = {}
      OBVIOUS
    <3>4. IsFiniteSet(A) /\ IsFiniteSet(B)
      BY <3>1, FS_Subset
    <3> HIDE DEF A, B
    <3>5. /\ Cardinality(A \cup B) = Cardinality(A) + Cardinality(B) - Cardinality(A \cap B)
          /\ Cardinality(A) \in Nat /\ Cardinality(B) \in Nat
      BY <3>4, FS_Union, FS_CardinalityType
    <3>6. Cardinality({}) = 0
      BY FS_EmptySet
    <3>7. Cardinality(A \cap B) = 0
      BY <3>3, <3>6, Zenon
    <3>8. Count(Procs, Deniers, f) = Cardinality(A \cup B)
      BY <3>2, Zenon DEF Count
    <3>9. Count(Procs, Deniers, f) = Cardinality(A) + Cardinality(B)
      BY <3>5, <3>7, <3>8
    <3>10. /\ DenyRefs(f) = Count(Mms, exe, f) + (Cardinality(A) + Cardinality(B))
           /\ DenyRefs(f) > 0 => writeCount[f] = -DenyRefs(f)
      BY <3>1, <3>9 DEF DenyRefs, FileInv
    <3> QED
      BY <3>10 DEF Count, A, B
  <2> QED
    BY <2>1, <2>2 DEF ExeNotWritten
<1> QED
  BY <1>1, SpaceInvariance, PTL

-----------------------------------------------------------------------------
(***************************************************************************)
(* The areas of the vDSO and what a task reads through [vtask], for any    *)
(* tasks, address spaces and layouts.  For the areas the invariant follows *)
(* map_vdso area by area: what is there at each of its steps, so that each *)
(* exit can be seen to take away what came before it, and that the address *)
(* space has one user until the context is set.  The pid read needs to     *)
(* know who may have filled a page: in an address space that was neither   *)
(* shared nor copied with its pages there is one user, and all pages are   *)
(* its own.                                                                *)
(***************************************************************************)

\* What an entry of the page table of [vtask] can hold.
Frames == {VtaskFault(t, i) : t \in Viewers, i \in 0 .. TaskPages} \cup {NoFrame}

\* The areas of one address space are clear of the program and in their order.
PlaceInv(s) ==
  /\ \A k \in Kinds : area[s][k] # NoArea => PagesAt(area[s][k], AreaLen[k]) \cap Program(s) = {}
  /\ area[s].vtask # NoArea => area[s].vtask + AreaLen.vtask * Page = area[s].vvar

\* The areas, and the pages of the program, which no step changes.
MapInv ==
  /\ area \in [Spaces -> [Kinds -> Int \cup {NoArea}]]
  /\ context \in [Spaces -> [Recorded -> Int \cup {NoArea}]]
  /\ \A s, r \in Spaces : other[s] = other[r]
  /\ \A s \in Spaces : \A p \in other[s] : p \in Nat /\ p >= MinAddr
  /\ \A s \in Spaces : PlaceInv(s)

\* All areas are there, or none, or somebody is at work on it or killed.
Settled(s) ==
  \/ Whole(s) \/ Bare(s)
  \/ \E t \in Viewers : space[t] = s /\ readPc[t] \in Kinds
  \/ Misaligned(s) /\ \A t \in Viewers : space[t] = s => readPc[t] = "dead"
SettleInv == \A s \in Spaces : Settled(s)

\* map_vdso, by the only user of the address space, after each of its steps.
Installing(t) ==
  LET s == space[t]
      place == Placed(mapAddr[t])
  IN  /\ readPc[t] \in Kinds \cup {"exec"} => s \notin threaded /\ context[s] = NoContext
      /\ readPc[t] \in {"exec", "vdso"} => area[s] = NoMap
      /\ readPc[t] \in Kinds => mapAddr[t] \in Int /\ mapAddr[t] >= AreaLen.vtask * Page - 1
      /\ readPc[t] \in {"vvar", "vtask"} => area[s].vdso = place.vdso /\ area[s].vtask = NoArea
      /\ readPc[t] = "vvar" => area[s].vvar = NoArea
      /\ readPc[t] = "vtask" => area[s].vvar = place.vvar
InstallInv == \A t \in Viewers : Installing(t)

\* Who uses an address space.
UseInv ==
  /\ \A t \in Viewers : t \in alive <=> space[t] \in Spaces
  /\ \A t \in Viewers : readPc[t] # "user" => t \in alive
  /\ \A t, u \in Viewers :
       space[t] = space[u] /\ space[t] \in Spaces =>
         timens[t] = timens[u] /\ (t = u \/ space[t] \in threaded)

\* The pages of [vvar] are for the time namespace of the users.
VvarInv ==
  \A t \in Viewers : space[t] \in Spaces =>
    /\ vvar[space[t]]["vvar_page"] \in {NoFrame, timens[t]}
    /\ vvar[space[t]]["timens_page"] # NoFrame => timens[t] = "ns"

\* What the pages of [vtask] show.
FrameInv ==
  /\ pte \in [Spaces -> [0 .. TaskPages -> Frames]]
  /\ \A s \in Spaces : \A i \in 0 .. TaskPages :
       pte[s][i] = NoFrame \/ \E t \in Viewers : pte[s][i] = VtaskFault(t, i)
  /\ \A t \in Viewers : \A i \in 0 .. TaskPages :
       space[t] \in Spaces /\ space[t] \notin threaded \cup inherited =>
         pte[space[t]][i] \in {NoFrame, VtaskFault(t, i)}

\* A task between the two reads of get_task_struct_info.
ReadInv ==
  \A t \in Viewers :
    /\ readPc[t] = "read" => seen[t] \in Viewers
    /\ readPc[t] = "read" /\ space[t] \notin threaded \cup inherited => seen[t] = t
    /\ readPc[t] = "done" /\ space[t] \notin threaded \cup inherited => result[t] = t

\* The inductive invariant.
VtaskInv ==
  VdsoTypeOK /\ MapInv /\ SettleInv /\ InstallInv /\ UseInv /\ VvarInv /\ FrameInv /\ ReadInv

-----------------------------------------------------------------------------
\* The lengths of the areas, and their names.
LEMMA Lengths ==
  ASSUME VdsoLayout
  PROVE  /\ AreaLen["vtask"] = TaskPages + 1 /\ AreaLen["vvar"] = VvarPages
         /\ AreaLen["vdso"] = VdsoPages
         /\ \A k \in Kinds : AreaLen[k] \in Nat
         /\ AreaLen["vtask"] >= 1 /\ MinAddr >= AreaLen["vtask"] /\ NoArea \notin Int
  BY DEF VdsoLayout, AreaLen, Kinds

\* Where map_vdso puts the areas.
LEMMA PlacedAreas ==
  ASSUME VdsoLayout, NEW b \in Int
  PROVE  /\ Placed(b)["vdso"] = b + VvarPages * 2 /\ Placed(b)["vvar"] = b
         /\ Placed(b)["vtask"] = b - (TaskPages + 1) * 2
         /\ \A k \in Kinds : Placed(b)[k] \in Int
         /\ Placed(b)["vtask"] + AreaLen["vtask"] * Page = Placed(b)["vvar"]
<1>1. AreaLen["vtask"] = TaskPages + 1 /\ TaskPages \in Nat /\ VvarPages \in Nat
  BY Lengths DEF VdsoLayout
<1> QED
  BY <1>1 DEF Placed, Kinds, Page

\* [vdso] is at the start of a page if [vvar] is.
LEMMA SameAlignment ==
  ASSUME NEW b \in Int, NEW n \in Nat
  PROVE  (b + n * 2) % 2 = b % 2
  OBVIOUS

\* An area that was let in is clear of the program's pages: below
\* mmap_min_addr there are none.
LEMMA InstallClear ==
  ASSUME VdsoLayout, MapInv, NEW s \in Spaces, NEW k \in Kinds, NEW a \in Int,
         a >= 0 \/ (k = "vtask" /\ a = -1), NoOverlap(s, a, AreaLen[k])
  PROVE  PagesAt(a, AreaLen[k]) \cap Program(s) = {}
<1>1. CASE a >= 0
  <2>1. PagesAt(a, AreaLen[k]) \cap Mapped(s) = {}
    BY <1>1 DEF NoOverlap
  <2> QED
    BY <2>1 DEF Mapped
<1>2. CASE k = "vtask" /\ a = -1
  <2> SUFFICES ASSUME NEW x \in PagesAt(a, AreaLen[k]), x \in Program(s) PROVE FALSE
    OBVIOUS
  <2>1. PICK p \in other[s] : x \in PagesAt(p * Page, 1)
    BY DEF Program
  <2>2. p \in Nat /\ p >= MinAddr /\ MinAddr >= AreaLen["vtask"] /\ AreaLen["vtask"] \in Nat
        /\ MinAddr \in Nat
    BY Lengths DEF MapInv, Kinds, VdsoLayout
  <2>3. x \in Int /\ x >= p * 2
    BY <2>1, <2>2 DEF PagesAt, Page
  <2>4. x <= -1 + AreaLen["vtask"] * 2 - 1
    BY <1>2, <2>2 DEF PagesAt, Page
  <2> QED
    BY <2>2, <2>3, <2>4
<1> QED
  BY <1>1, <1>2

\* An address space a step is not about.
LEMMA PlaceKept ==
  ASSUME NEW s, area'[s] = area[s], other'[s] = other[s], PlaceInv(s)
  PROVE  PlaceInv(s)'
  BY DEF PlaceInv, Program

LEMMA SettledKept ==
  ASSUME NEW s, Settled(s), area'[s] = area[s], context'[s] = context[s],
         \A t \in Viewers : space[t] = s /\ readPc[t] \in Kinds =>
           space'[t] = s /\ readPc'[t] \in Kinds,
         \A t \in Viewers : space'[t] = s /\ readPc'[t] # "dead" =>
           \E u \in Viewers : space[u] = s /\ readPc[u] # "dead"
  PROVE  Settled(s)'
<1>1. (Whole(s) <=> Whole(s)') /\ (Bare(s) <=> Bare(s)') /\ (Misaligned(s) <=> Misaligned(s)')
  BY DEF Whole, Bare, Misaligned
<1> QED
  BY <1>1 DEF Settled

\* A task that is not in map_vdso, or whose address space is left alone.
LEMMA InstallKept ==
  ASSUME NEW t \in Viewers, Installing(t), space'[t] = space[t], readPc'[t] = readPc[t],
         mapAddr'[t] = mapAddr[t],
         readPc[t] \in Kinds \cup {"exec"} =>
           /\ area'[space[t]] = area[space[t]] /\ context'[space[t]] = context[space[t]]
           /\ space[t] \in threaded' => space[t] \in threaded
  PROVE  Installing(t)'
  BY DEF Installing, Kinds

LEMMA NotInstalling ==
  ASSUME NEW t \in Viewers, readPc'[t] \in {"user", "read", "done", "dead"}
  PROVE  Installing(t)'
  BY DEF Installing, Kinds

\* A step of a program that changes no area.
LEMMA AreasKept ==
  ASSUME VdsoTypeOK, MapInv, SettleInv, InstallInv, NEW t \in Viewers,
         readPc[t] \in {"user", "read", "done"}, NEW v \in {"user", "read", "done", "dead"},
         readPc' = [readPc EXCEPT ![t] = v], UNCHANGED <<space, mapVars, threaded>>
  PROVE  MapInv' /\ SettleInv' /\ InstallInv'
<1>1. /\ area' = area /\ context' = context /\ other' = other /\ mapAddr' = mapAddr
      /\ space' = space /\ threaded' = threaded
  BY DEF mapVars
<1>2. readPc'[t] = v /\ \A w \in Viewers \ {t} : readPc'[w] = readPc[w]
  BY DEF VdsoTypeOK
<1>3. MapInv'
  BY <1>1, PlaceKept DEF MapInv
<1>4. SettleInv'
  <2> SUFFICES ASSUME NEW s \in Spaces PROVE Settled(s)'
    BY DEF SettleInv
  <2>1. \A w \in Viewers : space[w] = s /\ readPc[w] \in Kinds => readPc'[w] \in Kinds
    BY <1>2 DEF Kinds
  <2>2. ASSUME NEW w \in Viewers, space'[w] = s, readPc'[w] # "dead"
        PROVE  \E u \in Viewers : space[u] = s /\ readPc[u] # "dead"
    BY <1>1, <1>2, <2>2
  <2>3. Settled(s)
    BY DEF SettleInv
  <2> QED
    BY <1>1, <2>1, <2>2, <2>3, SettledKept
<1>5. InstallInv'
  <2> SUFFICES ASSUME NEW w \in Viewers PROVE Installing(w)'
    BY DEF InstallInv
  <2>1. CASE w = t
    BY <1>2, <2>1, NotInstalling
  <2>2. CASE w # t
    BY <1>1, <1>2, <2>2, InstallKept DEF InstallInv
  <2> QED
    BY <2>1, <2>2
<1> QED
  BY <1>3, <1>4, <1>5

-----------------------------------------------------------------------------
\* The task in map_vdso is the only user of its address space.
LEMMA SoleUser ==
  ASSUME VtaskInv, NEW t \in Viewers, readPc[t] \in Kinds \cup {"exec"}
  PROVE  /\ space[t] \in Spaces /\ space[t] \notin threaded
         /\ \A w \in Viewers \ {t} : space[w] # space[t]
<1>1. t \in alive /\ space[t] \in Spaces
  BY DEF VtaskInv, UseInv, Kinds
<1>2. space[t] \notin threaded
  BY DEF VtaskInv, InstallInv, Installing
<1> QED
  BY <1>1, <1>2 DEF VtaskInv, UseInv

\* A step of map_vdso: what is to be shown of the address space and the task.
LEMMA MapStep ==
  ASSUME VtaskInv, NEW t \in Viewers, NEW r \in Spaces, r = space[t], readPc[t] \in Kinds \cup {"exec"},
         NEW v \in Kinds \cup {"user", "dead"}, readPc' = [readPc EXCEPT ![t] = v],
         area' \in [Spaces -> [Kinds -> Int \cup {NoArea}]],
         context' \in [Spaces -> [Recorded -> Int \cup {NoArea}]],
         \A s \in Spaces \ {r} : area'[s] = area[s] /\ context'[s] = context[s],
         \A w \in Viewers \ {t} : mapAddr'[w] = mapAddr[w], DOMAIN mapAddr' = Viewers,
         UNCHANGED <<viewerVars, other, pte, vvar, histVars, seen, result>>,
         PlaceInv(r)', Settled(r)', Installing(t)'
  PROVE  VtaskInv'
<1>1. /\ space' = space /\ alive' = alive /\ timens' = timens /\ other' = other /\ pte' = pte
      /\ vvar' = vvar /\ threaded' = threaded /\ inherited' = inherited /\ seen' = seen
      /\ result' = result
  BY DEF viewerVars, histVars
<1>2. r \in Spaces /\ r \notin threaded /\ \A w \in Viewers \ {t} : space[w] # r
  BY SoleUser
<1>3. readPc'[t] = v /\ \A w \in Viewers \ {t} : readPc'[w] = readPc[w]
  BY DEF VtaskInv, VdsoTypeOK
<1>4. MapInv'
  <2>1. \A s \in Spaces : PlaceInv(s)'
    BY <1>1, PlaceKept DEF VtaskInv, MapInv
  <2> QED
    BY <1>1, <2>1 DEF VtaskInv, MapInv
<1>5. SettleInv'
  <2> SUFFICES ASSUME NEW s \in Spaces, s # r PROVE Settled(s)'
    BY DEF SettleInv
  <2>1. \A w \in Viewers : space[w] = s => space'[w] = s /\ readPc'[w] = readPc[w]
    BY <1>1, <1>3
  <2>2. \A w \in Viewers : space'[w] = s => space[w] = s
    BY <1>1
  <2>3. Settled(s) /\ area'[s] = area[s] /\ context'[s] = context[s]
    BY DEF VtaskInv, SettleInv
  <2> QED
    BY <2>1, <2>2, <2>3, SettledKept
<1>6. InstallInv'
  <2> SUFFICES ASSUME NEW w \in Viewers, w # t PROVE Installing(w)'
    BY DEF InstallInv
  <2>1. readPc[w] \in Kinds \cup {"exec"} => space[w] \in Spaces /\ space[w] # r
    BY <1>2, SoleUser
  <2>2. Installing(w)
    BY DEF VtaskInv, InstallInv
  <2> QED
    BY <1>1, <1>3, <2>1, <2>2, InstallKept
<1>7. VdsoTypeOK'
  <2>1. \A s \in Spaces : DOMAIN area'[s] = Kinds /\ DOMAIN pte'[s] = 0 .. TaskPages
    BY <1>1 DEF VtaskInv, VdsoTypeOK
  <2> QED
    BY <1>1, <2>1 DEF VtaskInv, VdsoTypeOK
<1>8. UseInv'
  <2>1. t \in alive
    BY <1>2 DEF VtaskInv, UseInv
  <2> QED
    BY <1>1, <1>3, <2>1 DEF VtaskInv, UseInv
<1>9. VvarInv' /\ FrameInv'
  BY <1>1 DEF VtaskInv, VvarInv, FrameInv
<1>10. ReadInv'
  BY <1>1, <1>3 DEF VtaskInv, ReadInv, Kinds
<1> QED
  BY <1>4, <1>5, <1>6, <1>7, <1>8, <1>9, <1>10 DEF VtaskInv

\* A place is found, or none, or the lock is not taken.
LEMMA GetUnmappedKeeps ==
  ASSUME VdsoLayout, VtaskInv, NEW t \in Viewers, GetUnmappedArea(t) \/ MapVdsoKilled(t)
  PROVE  VtaskInv'
<1> PICK s \in Spaces : s = space[t]
  BY SoleUser DEF GetUnmappedArea, MapVdsoKilled
<1>1. /\ readPc[t] = "exec" /\ UNCHANGED <<viewerVars, other, pte, vvar, histVars, seen, result>>
      /\ area' = area /\ context' = context
  BY DEF GetUnmappedArea, MapVdsoKilled, mapVars
<1>2. /\ s \in Spaces /\ s \notin threaded /\ \A w \in Viewers \ {t} : space[w] # s
  BY <1>1, SoleUser
<1>3. area[s] = NoMap /\ context[s] = NoContext
  BY <1>1 DEF VtaskInv, InstallInv, Installing
<1>4. /\ area \in [Spaces -> [Kinds -> Int \cup {NoArea}]]
      /\ context \in [Spaces -> [Recorded -> Int \cup {NoArea}]] /\ PlaceInv(s)
  BY <1>2 DEF VtaskInv, MapInv
<1>5. other' = other /\ space' = space /\ threaded' = threaded
  BY <1>1 DEF viewerVars, histVars
<1>6. PlaceInv(s)' /\ Bare(s)'
  BY <1>1, <1>3, <1>4, <1>5, PlaceKept DEF Bare
<1>7. Settled(s)'
  BY <1>6 DEF Settled
<1>8. CASE readPc' = [readPc EXCEPT ![t] = "dead"] /\ mapAddr' = mapAddr
  <2>1. readPc'[t] = "dead"
    BY <1>8 DEF VtaskInv, VdsoTypeOK
  <2>2. Installing(t)'
    BY <2>1, NotInstalling
  <2>3. DOMAIN mapAddr' = Viewers
    BY <1>8 DEF VtaskInv, VdsoTypeOK
  <2> QED
    BY <1>1, <1>4, <1>6, <1>7, <1>8, <2>2, <2>3, MapStep
<1>9. ASSUME NEW hint \in VdsoAddrs, NEW a \in UnmappedAreas(s, hint),
             readPc' = [readPc EXCEPT ![t] = "vdso"],
             mapAddr' = [mapAddr EXCEPT ![t] = a + AreaLen["vtask"] * Page],
             DOMAIN mapAddr = Viewers
      PROVE  VtaskInv'
  <2>1. hint \in Nat
    BY DEF VdsoAddrs, VdsoLayout
  <2>2. a \in Int /\ a >= -1
    <3>1. a = hint * Page \/ (\E p \in MinAddr .. hint : a = p * Page) \/ a = ErrValue
      BY <1>9 DEF UnmappedAreas
    <3> QED
      BY <2>1, <3>1 DEF Page, ErrValue, VdsoLayout
  <2>3. mapAddr'[t] = a + AreaLen["vtask"] * Page
    BY <1>9
  <2>4. AreaLen["vtask"] \in Nat
    BY Lengths DEF Kinds
  <2>5. mapAddr'[t] \in Int /\ mapAddr'[t] >= AreaLen["vtask"] * Page - 1
    BY <2>2, <2>3, <2>4 DEF Page
  <2>6. readPc'[t] = "vdso"
    BY <1>9 DEF VtaskInv, VdsoTypeOK
  <2>7. Installing(t)'
    BY <1>1, <1>2, <1>3, <1>5, <2>5, <2>6 DEF Installing, Kinds
  <2>8. \A w \in Viewers \ {t} : mapAddr'[w] = mapAddr[w]
    BY <1>9
  <2> QED
    BY <1>1, <1>4, <1>6, <1>7, <1>9, <2>7, <2>8, MapStep DEF Kinds
<1>10. DOMAIN mapAddr = Viewers
  BY DEF VtaskInv, VdsoTypeOK
<1>11. CASE MapVdsoKilled(t)
  BY <1>8, <1>11 DEF MapVdsoKilled, mapVars
<1>12. CASE GetUnmappedArea(t)
  BY <1>8, <1>9, <1>10, <1>12 DEF GetUnmappedArea
<1> QED
  BY <1>11, <1>12

\* One area is installed: the address space has it, clear of the program.
LEMMA InstallFacts ==
  ASSUME VdsoLayout, VtaskInv, NEW t \in Viewers, NEW k \in Kinds, NEW next, Install(t, k, next)
  PROVE  /\ readPc[t] = k /\ space[t] \in Spaces /\ mapAddr[t] \in Int
         /\ area' \in [Spaces -> [Kinds -> Int \cup {NoArea}]]
         /\ \A s \in Spaces \ {space[t]} : area'[s] = area[s]
         /\ area'[space[t]][k] = Placed(mapAddr[t])[k]
         /\ area'[space[t]][k] \in Int /\ area'[space[t]][k] # NoArea
         /\ \A j \in Kinds \ {k} : area'[space[t]][j] = area[space[t]][j]
         /\ \A j \in Kinds : area'[space[t]][j] # NoArea =>
              PagesAt(area'[space[t]][j], AreaLen[j]) \cap Program(space[t]) = {}
<1> PICK s \in Spaces : s = space[t]
  BY SoleUser DEF Install
<1> DEFINE a == Placed(mapAddr[t])[k]
<1>1. /\ readPc[t] = k /\ NoOverlap(s, a, AreaLen[k]) /\ area' = [area EXCEPT ![s][k] = a]
  BY DEF Install
<1>2. s \in Spaces
  BY <1>1, SoleUser
<1>3. mapAddr[t] \in Int /\ mapAddr[t] >= AreaLen["vtask"] * Page - 1
  BY <1>1 DEF VtaskInv, InstallInv, Installing
<1>4. /\ AreaLen["vtask"] = TaskPages + 1 /\ TaskPages \in Nat /\ VvarPages \in Nat
      /\ NoArea \notin Int
  BY Lengths DEF VdsoLayout
<1>5. a \in Int /\ (a >= 0 \/ (k = "vtask" /\ a = -1))
  <2>1. /\ Placed(mapAddr[t])["vdso"] = mapAddr[t] + VvarPages * 2
        /\ Placed(mapAddr[t])["vvar"] = mapAddr[t]
        /\ Placed(mapAddr[t])["vtask"] = mapAddr[t] - (TaskPages + 1) * 2
    BY <1>3, PlacedAreas
  <2>2. mapAddr[t] >= (TaskPages + 1) * 2 - 1
    BY <1>3, <1>4 DEF Page
  <2>3. CASE k = "vdso"
    BY <1>3, <1>4, <2>1, <2>2, <2>3
  <2>4. CASE k = "vvar"
    BY <1>3, <1>4, <2>1, <2>2, <2>4
  <2>5. CASE k = "vtask"
    BY <1>3, <1>4, <2>1, <2>2, <2>5
  <2> QED
    BY <2>3, <2>4, <2>5 DEF Kinds
<1>6. area \in [Spaces -> [Kinds -> Int \cup {NoArea}]]
  BY DEF VtaskInv, MapInv
<1>7. PagesAt(a, AreaLen[k]) \cap Program(s) = {}
  BY <1>1, <1>2, <1>5, InstallClear DEF VtaskInv
<1> HIDE DEF a
<1>8. /\ area' \in [Spaces -> [Kinds -> Int \cup {NoArea}]]
      /\ \A r \in Spaces \ {s} : area'[r] = area[r]
      /\ area'[s][k] = a /\ \A j \in Kinds \ {k} : area'[s][j] = area[s][j]
  BY <1>1, <1>2, <1>5, <1>6
<1>9. ASSUME NEW j \in Kinds, area'[s][j] # NoArea
       PROVE  PagesAt(area'[s][j], AreaLen[j]) \cap Program(s) = {}
  <2>1. CASE j = k
    BY <1>7, <1>8, <2>1
  <2>2. CASE j # k
    BY <1>2, <1>8, <1>9, <2>2 DEF VtaskInv, MapInv, PlaceInv
  <2> QED
    BY <2>1, <2>2
<1> QED
  BY <1>1, <1>2, <1>3, <1>4, <1>5, <1>8, <1>9 DEF a

\* [vdso], then [vvar]: the address space is still being made.
LEMMA InstallKeeps ==
  ASSUME VdsoLayout, VtaskInv, NEW t \in Viewers, InstallVdso(t) \/ InstallVvar(t)
  PROVE  VtaskInv'
<1> PICK s \in Spaces : s = space[t]
  BY SoleUser DEF InstallVdso, InstallVvar, Install, Kinds
<1>0. PICK k \in {"vdso", "vvar"}, v \in {"vvar", "vtask"} :
        Install(t, k, v) /\ v = IF k = "vdso" THEN "vvar" ELSE "vtask"
  BY DEF InstallVdso, InstallVvar
<1>1. /\ UNCHANGED <<viewerVars, other, pte, vvar, histVars, seen, result>>
      /\ context' = context /\ mapAddr' = mapAddr
  BY DEF InstallVdso, InstallVvar
<1>2. /\ readPc[t] = k /\ s \in Spaces /\ mapAddr[t] \in Int
      /\ area' \in [Spaces -> [Kinds -> Int \cup {NoArea}]]
      /\ \A r \in Spaces \ {s} : area'[r] = area[r]
      /\ area'[s][k] = Placed(mapAddr[t])[k]
      /\ \A j \in Kinds \ {k} : area'[s][j] = area[s][j]
      /\ \A j \in Kinds : area'[s][j] # NoArea =>
           PagesAt(area'[s][j], AreaLen[j]) \cap Program(s) = {}
  <2>1. k \in Kinds /\ Install(t, k, v)
    BY <1>0 DEF Kinds
  <2>2. /\ readPc[t] = k /\ mapAddr[t] \in Int
        /\ area' \in [Spaces -> [Kinds -> Int \cup {NoArea}]]
        /\ \A r \in Spaces \ {space[t]} : area'[r] = area[r]
        /\ area'[space[t]][k] = Placed(mapAddr[t])[k]
    BY <2>1, InstallFacts
  <2>3. /\ \A j \in Kinds \ {k} : area'[space[t]][j] = area[space[t]][j]
        /\ \A j \in Kinds : area'[space[t]][j] # NoArea =>
             PagesAt(area'[space[t]][j], AreaLen[j]) \cap Program(space[t]) = {}
    BY <2>1, InstallFacts
  <2> QED
    BY <2>2, <2>3
<1>3. readPc' = [readPc EXCEPT ![t] = v]
  BY <1>0 DEF Install
<1>4. readPc'[t] = v /\ v \in Kinds
  BY <1>0, <1>3 DEF VtaskInv, VdsoTypeOK, Kinds
<1>5. space' = space /\ threaded' = threaded
  BY <1>1 DEF viewerVars, histVars
<1>6. Installing(t) /\ "vdso" \in Kinds /\ "vvar" \in Kinds /\ "vtask" \in Kinds
  BY DEF VtaskInv, InstallInv, Kinds
<1>7. area[s]["vtask"] = NoArea /\ area'[s]["vtask"] = NoArea
  <2>1. area[s]["vtask"] = NoArea
    BY <1>2, <1>6 DEF Installing, NoMap
  <2> QED
    BY <1>2, <1>6, <2>1
<1>8. PlaceInv(s)'
  <2>1. Program(s)' = Program(s)
    BY <1>1 DEF Program
  <2> QED
    BY <1>2, <1>5, <1>7, <2>1 DEF PlaceInv
<1>9. Settled(s)'
  BY <1>4, <1>5 DEF Settled
<1>10. Installing(t)'
  <2>1. CASE k = "vdso"
    <3>1. area'[s]["vdso"] = Placed(mapAddr[t])["vdso"] /\ area'[s]["vvar"] = NoArea
      BY <1>2, <1>6, <2>1 DEF Installing, NoMap
    <3> QED
      BY <1>0, <1>1, <1>2, <1>4, <1>5, <1>6, <1>7, <2>1, <3>1 DEF Installing, Kinds
  <2>2. CASE k = "vvar"
    <3>1. /\ area'[s]["vdso"] = Placed(mapAddr[t])["vdso"]
          /\ area'[s]["vvar"] = Placed(mapAddr[t])["vvar"]
      BY <1>2, <1>6, <2>2 DEF Installing
    <3> QED
      BY <1>0, <1>1, <1>2, <1>4, <1>5, <1>6, <1>7, <2>2, <3>1 DEF Installing, Kinds
  <2> QED
    BY <2>1, <2>2
<1>11. context \in [Spaces -> [Recorded -> Int \cup {NoArea}]]
  BY DEF VtaskInv, MapInv
<1>12. DOMAIN mapAddr' = Viewers /\ readPc[t] \in Kinds /\ v \in Kinds \cup {"user", "dead"}
  BY <1>1, <1>2, <1>4 DEF VtaskInv, VdsoTypeOK, Kinds
<1> QED
  BY <1>1, <1>2, <1>3, <1>8, <1>9, <1>10, <1>11, <1>12, MapStep

\* [vtask]: the three areas are there and the context knows them.
LEMMA InstallVtaskKeeps ==
  ASSUME VdsoLayout, VtaskInv, NEW t \in Viewers, InstallVtask(t)
  PROVE  VtaskInv'
<1> PICK s \in Spaces : s = space[t]
  BY SoleUser DEF InstallVtask, Install, Kinds
<1> DEFINE c == [k \in Recorded |-> Placed(mapAddr[t])[k]]
<1>1. /\ Install(t, "vtask", "user")
      /\ context' = [context EXCEPT ![s] = c] /\ mapAddr' = [mapAddr EXCEPT ![t] = NoArea]
      /\ UNCHANGED <<viewerVars, other, pte, vvar, histVars, seen, result>>
  BY DEF InstallVtask
<1>2. /\ readPc[t] = "vtask" /\ s \in Spaces /\ mapAddr[t] \in Int
      /\ area' \in [Spaces -> [Kinds -> Int \cup {NoArea}]]
      /\ \A r \in Spaces \ {s} : area'[r] = area[r]
      /\ area'[s]["vtask"] = Placed(mapAddr[t])["vtask"] /\ area'[s]["vtask"] # NoArea
      /\ \A j \in Kinds \ {"vtask"} : area'[s][j] = area[s][j]
      /\ \A j \in Kinds : area'[s][j] # NoArea =>
           PagesAt(area'[s][j], AreaLen[j]) \cap Program(s) = {}
  <2>1. "vtask" \in Kinds
    BY DEF Kinds
  <2>2. /\ readPc[t] = "vtask" /\ mapAddr[t] \in Int
        /\ area' \in [Spaces -> [Kinds -> Int \cup {NoArea}]]
        /\ \A r \in Spaces \ {space[t]} : area'[r] = area[r]
        /\ area'[space[t]]["vtask"] = Placed(mapAddr[t])["vtask"]
        /\ area'[space[t]]["vtask"] # NoArea
    BY <1>1, <2>1, InstallFacts
  <2>3. /\ \A j \in Kinds \ {"vtask"} : area'[space[t]][j] = area[space[t]][j]
        /\ \A j \in Kinds : area'[space[t]][j] # NoArea =>
             PagesAt(area'[space[t]][j], AreaLen[j]) \cap Program(space[t]) = {}
    BY <1>1, <2>1, InstallFacts
  <2> QED
    BY <2>2, <2>3
<1>3. /\ Placed(mapAddr[t])["vtask"] + AreaLen["vtask"] * Page = Placed(mapAddr[t])["vvar"]
      /\ \A k \in Kinds : Placed(mapAddr[t])[k] \in Int
  BY <1>2, PlacedAreas
<1>4. area'[s]["vdso"] = Placed(mapAddr[t])["vdso"] /\ area'[s]["vvar"] = Placed(mapAddr[t])["vvar"]
  BY <1>2 DEF VtaskInv, InstallInv, Installing, Kinds
<1>5. c \in [Recorded -> Int \cup {NoArea}] /\ NoArea \notin Int
  BY <1>3 DEF Recorded, Kinds, VdsoLayout
<1>6. context \in [Spaces -> [Recorded -> Int \cup {NoArea}]]
  BY DEF VtaskInv, MapInv
<1>7. /\ c["vdso"] = Placed(mapAddr[t])["vdso"] /\ c["vtask"] = Placed(mapAddr[t])["vtask"]
  BY DEF Recorded
<1>8. readPc' = [readPc EXCEPT ![t] = "user"] /\ readPc'[t] = "user"
  BY <1>1 DEF Install, VtaskInv, VdsoTypeOK
<1> HIDE DEF c
<1>9. /\ context' \in [Spaces -> [Recorded -> Int \cup {NoArea}]] /\ context'[s] = c
      /\ \A r \in Spaces \ {s} : context'[r] = context[r]
  BY <1>1, <1>2, <1>5, <1>6
<1>10. space' = space
  BY <1>1 DEF viewerVars
<1>11. Whole(s)'
  BY <1>2, <1>3, <1>4, <1>5, <1>7, <1>9, <1>10 DEF Whole, Kinds, Recorded
<1>12. Settled(s)'
  BY <1>11 DEF Settled
<1>13. PlaceInv(s)'
  <2>1. Program(s)' = Program(s)
    BY <1>1 DEF Program
  <2> QED
    BY <1>2, <1>3, <1>4, <1>10, <2>1 DEF PlaceInv
<1>14. Installing(t)'
  BY <1>8, NotInstalling
<1>15. DOMAIN mapAddr' = Viewers /\ \A w \in Viewers \ {t} : mapAddr'[w] = mapAddr[w]
  BY <1>1 DEF VtaskInv, VdsoTypeOK
<1> QED
  BY <1>1, <1>2, <1>8, <1>9, <1>12, <1>13, <1>14, <1>15, MapStep DEF Kinds

\* Each exit unmaps what the steps before it installed, unless that is not at
\* the start of a page.
LEMMA UnwindKeeps ==
  ASSUME VdsoLayout, VtaskInv, NEW t \in Viewers,
         InstallVdsoFails(t) \/ InstallVvarFails(t) \/ InstallVtaskFails(t)
  PROVE  VtaskInv'
<1> PICK s \in Spaces : s = space[t]
  BY SoleUser DEF InstallVdsoFails, InstallVvarFails, InstallVtaskFails, Kinds
<1> DEFINE b == mapAddr[t]
<1>1. PICK ks \in {{}, {"vdso"}, {"vdso", "vvar"}} :
        /\ readPc[t] = IF ks = {} THEN "vdso" ELSE IF ks = {"vdso"} THEN "vvar" ELSE "vtask"
        /\ Unwind(t, ks)
  BY DEF InstallVdsoFails, InstallVvarFails, InstallVtaskFails
<1> DEFINE g == [k \in Kinds |-> IF k \in ks /\ Aligned(area[s][k]) THEN NoArea ELSE area[s][k]]
<1>2. /\ readPc[t] \in Kinds /\ area' = [area EXCEPT ![s] = g]
      /\ mapAddr' = [mapAddr EXCEPT ![t] = NoArea] /\ readPc' = [readPc EXCEPT ![t] = "dead"]
      /\ context' = context
      /\ UNCHANGED <<viewerVars, other, pte, vvar, histVars, seen, result>>
  BY <1>1 DEF Unwind, Kinds
<1>3. s \in Spaces /\ \A w \in Viewers \ {t} : space[w] # s
  BY <1>2, SoleUser
<1>4. /\ b \in Int /\ context[s] = NoContext
      /\ area \in [Spaces -> [Kinds -> Int \cup {NoArea}]]
      /\ context \in [Spaces -> [Recorded -> Int \cup {NoArea}]] /\ PlaceInv(s)
  BY <1>2, <1>3 DEF VtaskInv, MapInv, InstallInv, Installing
<1>5. \A k \in Kinds : g[k] \in {area[s][k], NoArea}
  OBVIOUS
<1>6. g \in [Kinds -> Int \cup {NoArea}]
  BY <1>3, <1>4
<1>7. /\ readPc'[t] = "dead" /\ DOMAIN mapAddr' = Viewers
      /\ \A w \in Viewers \ {t} : mapAddr'[w] = mapAddr[w]
  BY <1>2 DEF VtaskInv, VdsoTypeOK
<1>8. /\ area' \in [Spaces -> [Kinds -> Int \cup {NoArea}]] /\ area'[s] = g
      /\ \A r \in Spaces \ {s} : area'[r] = area[r]
  <2> HIDE DEF g
  <2> QED
    BY <1>2, <1>3, <1>4, <1>6
<1>9. space' = space /\ other' = other
  BY <1>2 DEF viewerVars
<1>10. area[s]["vtask"] = NoArea /\ g["vtask"] = NoArea
  <2>1. area[s]["vtask"] = NoArea
    BY <1>1, <1>2 DEF VtaskInv, InstallInv, Installing, Kinds, NoMap
  <2> QED
    BY <1>5, <2>1 DEF Kinds
<1>11. PlaceInv(s)'
  <2>1. \A k \in Kinds : g[k] # NoArea => g[k] = area[s][k]
    BY <1>5
  <2> HIDE DEF g
  <2>2. Program(s)' = Program(s)
    BY <1>9 DEF Program
  <2> QED
    BY <1>4, <1>8, <1>9, <1>10, <2>1, <2>2 DEF PlaceInv
<1>12. Bare(s)' \/ Misaligned(s)'
  <2>1. /\ VvarPages \in Nat /\ NoArea \notin Int
        /\ Placed(b)["vdso"] = b + VvarPages * 2 /\ Placed(b)["vvar"] = b
    BY <1>4, PlacedAreas DEF VdsoLayout
  <2>2. CASE ks = {}
    <3>1. area[s] = NoMap
      BY <1>1, <2>2 DEF VtaskInv, InstallInv, Installing
    <3>2. g = NoMap
      BY <2>2, <3>1 DEF NoMap
    <3> QED
      BY <1>2, <1>4, <1>8, <1>9, <3>2 DEF Bare
  <2>3. CASE ks = {"vdso"}
    <3>1. area[s]["vdso"] = b + VvarPages * 2 /\ area[s]["vvar"] = NoArea
      BY <1>1, <2>1, <2>3 DEF VtaskInv, InstallInv, Installing
    <3>2. CASE Aligned(area[s]["vdso"])
      <4>1. g = NoMap
        BY <1>10, <2>3, <3>1, <3>2 DEF NoMap, Kinds
      <4> QED
        BY <1>2, <1>4, <1>8, <1>9, <4>1 DEF Bare
    <3>3. CASE ~Aligned(area[s]["vdso"])
      <4>1. g["vdso"] = area[s]["vdso"]
        BY <3>3 DEF Kinds
      <4>2. area[s]["vdso"] \in Int
        BY <1>4, <2>1, <3>1
      <4> HIDE DEF g
      <4> QED
        BY <1>8, <1>9, <2>1, <3>3, <4>1, <4>2 DEF Misaligned, Kinds
    <3> QED
      BY <3>2, <3>3
  <2>4. CASE ks = {"vdso", "vvar"}
    <3>1. area[s]["vdso"] = b + VvarPages * 2 /\ area[s]["vvar"] = b
      BY <1>1, <2>1, <2>4 DEF VtaskInv, InstallInv, Installing
    <3>2. Aligned(area[s]["vdso"]) <=> Aligned(area[s]["vvar"])
      BY <1>4, <2>1, <3>1, SameAlignment DEF Aligned, Page
    <3>3. CASE Aligned(area[s]["vvar"])
      <4>1. g = NoMap
        BY <1>10, <2>4, <3>2, <3>3 DEF NoMap, Kinds
      <4> QED
        BY <1>2, <1>4, <1>8, <1>9, <4>1 DEF Bare
    <3>4. CASE ~Aligned(area[s]["vvar"])
      <4>1. g["vvar"] = area[s]["vvar"]
        BY <3>4 DEF Kinds
      <4> HIDE DEF g
      <4> QED
        BY <1>4, <1>8, <1>9, <2>1, <3>1, <3>4, <4>1 DEF Misaligned, Kinds
    <3> QED
      BY <3>3, <3>4
  <2> QED
    BY <2>2, <2>3, <2>4
<1>13. Settled(s)'
  BY <1>3, <1>7, <1>9, <1>12 DEF Settled
<1>14. Installing(t)'
  BY <1>7, NotInstalling
<1> QED
  BY <1>2, <1>4, <1>7, <1>8, <1>11, <1>13, <1>14, MapStep

\* A task that is killed, or has used what it read.
LEMMA StopKeeps ==
  ASSUME VtaskInv, NEW t \in Viewers, ReadFails(t) \/ Return(t)
  PROVE  VtaskInv'
<1>1. \E v \in {"dead", "user"} : readPc' = [readPc EXCEPT ![t] = v]
  BY DEF ReadFails, Return
<1>2. PICK v \in {"dead", "user"} : readPc' = [readPc EXCEPT ![t] = v]
  BY <1>1
<1>3. /\ readPc[t] \in {"user", "done"} /\ UNCHANGED <<space, mapVars, threaded>>
      /\ space' = space /\ alive' = alive /\ timens' = timens /\ pte' = pte
      /\ vvar' = vvar /\ threaded' = threaded /\ inherited' = inherited
      /\ area' = area /\ mapAddr' = mapAddr
      /\ t \in alive
  BY DEF ReadFails, Return, viewerVars, mapVars, histVars, VtaskInv, UseInv
<1>4. \/ seen' = seen /\ result' = result
      \/ seen' = [seen EXCEPT ![t] = Nobody] /\ result' = [result EXCEPT ![t] = Nobody]
  BY DEF ReadFails, Return
<1>5. VdsoTypeOK'
  BY <1>2, <1>3, <1>4 DEF VtaskInv, VdsoTypeOK
<1>6. MapInv' /\ SettleInv' /\ InstallInv'
  BY <1>2, <1>3, AreasKept DEF VtaskInv
<1>7. UseInv' /\ VvarInv'
  BY <1>2, <1>3 DEF VtaskInv, VdsoTypeOK, UseInv, VvarInv
<1>8. FrameInv'
  BY <1>3 DEF VtaskInv, FrameInv
<1>9. ReadInv'
  BY <1>2, <1>3, <1>4 DEF VtaskInv, VdsoTypeOK, ReadInv
<1> QED
  BY <1>5, <1>6, <1>7, <1>8, <1>9 DEF VtaskInv

\* The program moves [vdso].
LEMMA MremapKeeps ==
  ASSUME VdsoLayout, VtaskInv, NEW t \in Viewers, NEW p \in MoveTo, Mremap(t, p)
  PROVE  VtaskInv'
<1> PICK s \in Spaces : s = space[t]
  BY DEF Mremap, VtaskInv, UseInv
<1> DEFINE a == p * Page
<1>1. /\ area' = [area EXCEPT ![s].vdso = a] /\ context' = [context EXCEPT ![s].vdso = a]
      /\ area[s].vdso # NoArea /\ PagesAt(a, VdsoPages) \cap Mapped(s) = {}
      /\ readPc[t] = "user" /\ readPc' = readPc /\ space' = space /\ alive' = alive
      /\ timens' = timens /\ other' = other /\ mapAddr' = mapAddr
      /\ pte' = pte /\ vvar' = vvar /\ threaded' = threaded
      /\ inherited' = inherited /\ seen' = seen /\ result' = result
  BY DEF Mremap, viewerVars, histVars, readVars
<1>2. s \in Spaces
  BY DEF Mremap, VtaskInv, UseInv
<1>3. a \in Int /\ a # NoArea
  BY DEF VdsoLayout, Page
<1>4. PagesAt(a, AreaLen["vdso"]) \cap Program(s) = {}
  BY <1>1, Lengths DEF Mapped
<1>5. /\ area \in [Spaces -> [Kinds -> Int \cup {NoArea}]] /\ Kinds = {"vtask", "vvar", "vdso"}
      /\ context \in [Spaces -> [Recorded -> Int \cup {NoArea}]] /\ Recorded = {"vtask", "vdso"}
      /\ PlaceInv(s) /\ Settled(s)
  BY <1>2 DEF VtaskInv, MapInv, SettleInv, Kinds, Recorded
<1> HIDE DEF a
<1>6. /\ \A r \in Spaces \ {s} : area'[r] = area[r] /\ context'[r] = context[r]
      /\ area'[s]["vdso"] = a /\ area'[s]["vvar"] = area[s]["vvar"]
      /\ area'[s]["vtask"] = area[s]["vtask"]
      /\ context'[s]["vdso"] = a /\ context'[s]["vtask"] = context[s]["vtask"]
  BY <1>1, <1>2, <1>3, <1>5
<1>7. /\ area' \in [Spaces -> [Kinds -> Int \cup {NoArea}]]
      /\ context' \in [Spaces -> [Recorded -> Int \cup {NoArea}]]
  BY <1>1, <1>2, <1>3, <1>5
<1>8. ASSUME NEW w \in Viewers, space[w] = s PROVE readPc[w] \notin Kinds \cup {"exec"}
  BY <1>1, <1>8, SoleUser DEF Kinds
<1>9. PlaceInv(s)'
  <2>1. Program(s)' = Program(s)
    BY <1>1 DEF Program
  <2> QED
    BY <1>4, <1>5, <1>6, <1>1, <2>1 DEF PlaceInv
<1>10. MapInv'
  <2>1. \A r \in Spaces : PlaceInv(r)'
    BY <1>1, <1>6, <1>9, PlaceKept DEF VtaskInv, MapInv
  <2> QED
    BY <1>1, <1>7, <2>1 DEF VtaskInv, MapInv
<1>11. Whole(s)
  <2>1. ~Bare(s)
    BY <1>1, <1>5 DEF Bare, NoMap
  <2>2. ~\A w \in Viewers : space[w] = s => readPc[w] = "dead"
    BY <1>1
  <2> QED
    BY <1>5, <1>8, <2>1, <2>2 DEF Settled
<1>12. Settled(s)'
  <2>1. Whole(s)'
    BY <1>3, <1>5, <1>6, <1>11 DEF Whole
  <2> QED
    BY <2>1 DEF Settled
<1>13. SettleInv'
  <2> SUFFICES ASSUME NEW r \in Spaces, r # s PROVE Settled(r)'
    BY <1>12 DEF SettleInv
  <2>1. Settled(r)
    BY DEF VtaskInv, SettleInv
  <2> QED
    BY <1>1, <1>6, <2>1, SettledKept
<1>14. InstallInv'
  <2> SUFFICES ASSUME NEW w \in Viewers PROVE Installing(w)'
    BY DEF InstallInv
  <2>1. readPc[w] \in Kinds \cup {"exec"} => space[w] \in Spaces \ {s}
    BY <1>8, SoleUser
  <2>2. Installing(w)
    BY DEF VtaskInv, InstallInv
  <2> QED
    BY <1>1, <1>6, <2>1, <2>2, InstallKept
<1>15. VdsoTypeOK'
  <2>1. \A r \in Spaces : DOMAIN area'[r] = Kinds /\ DOMAIN pte'[r] = 0 .. TaskPages
    BY <1>1, <1>7 DEF VtaskInv, VdsoTypeOK
  <2> QED
    BY <1>1, <2>1 DEF VtaskInv, VdsoTypeOK
<1>16. UseInv' /\ VvarInv' /\ ReadInv'
  BY <1>1 DEF VtaskInv, UseInv, VvarInv, ReadInv
<1>17. FrameInv'
  BY <1>1 DEF VtaskInv, FrameInv
<1> QED
  BY <1>10, <1>13, <1>14, <1>15, <1>16, <1>17 DEF VtaskInv

\* A thread joins the address space, which is threaded from then on.
LEMMA ThreadKeeps ==
  ASSUME VdsoLayout, VtaskInv, NEW t \in Viewers, NEW u \in Viewers, Thread(t, u)
  PROVE  VtaskInv'
<1> DEFINE s == space[t]
<1>1. /\ readPc[t] = "user" /\ t \in alive /\ u \notin alive /\ space[u] = Nobody
      /\ space' = [space EXCEPT ![u] = s] /\ alive' = alive \cup {u}
      /\ timens' = [timens EXCEPT ![u] = timens[t]] /\ readPc' = [readPc EXCEPT ![u] = "user"]
      /\ threaded' = threaded \cup {s}
      /\ area' = area /\ context' = context /\ mapAddr' = mapAddr /\ other' = other /\ pte' = pte
      /\ vvar' = vvar /\ inherited' = inherited /\ seen' = seen /\ result' = result
  BY DEF Thread, mapVars
<1>2. s \in Spaces /\ t # u /\ Nobody \notin Spaces
  BY <1>1 DEF VtaskInv, UseInv, VdsoLayout
<1>3. ASSUME NEW w \in Viewers, space[w] = s PROVE readPc[w] \notin Kinds \cup {"exec"}
  BY <1>1, <1>3, SoleUser DEF Kinds
<1> HIDE DEF s
<1>4. /\ space'[u] = s /\ timens'[u] = timens[t] /\ readPc'[u] = "user"
      /\ \A w \in Viewers \ {u} :
           space'[w] = space[w] /\ timens'[w] = timens[w] /\ readPc'[w] = readPc[w]
  BY <1>1 DEF VtaskInv, VdsoTypeOK
<1>5. VdsoTypeOK'
  BY <1>1, <1>2 DEF VtaskInv, VdsoTypeOK
<1>6. MapInv'
  BY <1>1, PlaceKept DEF VtaskInv, MapInv
<1>7. SettleInv'
  <2> SUFFICES ASSUME NEW r \in Spaces PROVE Settled(r)'
    BY DEF SettleInv
  <2>1. ASSUME NEW w \in Viewers, space[w] = r, readPc[w] \in Kinds
        PROVE  space'[w] = r /\ readPc'[w] \in Kinds
    BY <1>1, <1>2, <1>4, <2>1
  <2>2. ASSUME NEW w \in Viewers, space'[w] = r, readPc'[w] # "dead"
        PROVE  \E x \in Viewers : space[x] = r /\ readPc[x] # "dead"
    <3>1. CASE w = u
      BY <1>1, <1>4, <2>2, <3>1 DEF s
    <3>2. CASE w # u
      BY <1>4, <2>2, <3>2
    <3> QED
      BY <3>1, <3>2
  <2>3. Settled(r)
    BY DEF VtaskInv, SettleInv
  <2> QED
    BY <1>1, <2>1, <2>2, <2>3, SettledKept
<1>8. InstallInv'
  <2> SUFFICES ASSUME NEW w \in Viewers PROVE Installing(w)'
    BY DEF InstallInv
  <2>1. CASE w = u
    BY <1>4, <2>1, NotInstalling
  <2>2. CASE w # u
    <3>1. readPc[w] \in Kinds \cup {"exec"} => space[w] # s
      BY <1>3
    <3>2. Installing(w)
      BY DEF VtaskInv, InstallInv
    <3> QED
      BY <1>1, <1>4, <2>2, <3>1, <3>2, InstallKept
  <2> QED
    BY <2>1, <2>2
<1>9. UseInv'
  <2>1. \A w \in Viewers : w \in alive' <=> space'[w] \in Spaces
    BY <1>1, <1>2, <1>4 DEF VtaskInv, UseInv
  <2>2. \A w \in Viewers : readPc'[w] # "user" => w \in alive'
    BY <1>1, <1>4 DEF VtaskInv, UseInv
  <2>3. ASSUME NEW w \in Viewers, NEW v \in Viewers, space'[w] = space'[v], space'[w] \in Spaces
        PROVE  timens'[w] = timens'[v] /\ (w = v \/ space'[w] \in threaded')
    <3>1. CASE w = u \/ v = u
      BY <1>1, <1>2, <1>4, <2>3, <3>1 DEF VtaskInv, UseInv, s
    <3>2. CASE w # u /\ v # u
      BY <1>1, <1>4, <2>3, <3>2 DEF VtaskInv, UseInv
    <3> QED
      BY <3>1, <3>2
  <2> QED
    BY <2>1, <2>2, <2>3 DEF UseInv
<1>10. VvarInv'
  BY <1>1, <1>2, <1>4 DEF VtaskInv, VvarInv, s
<1>11. FrameInv'
  BY <1>1, <1>4 DEF VtaskInv, FrameInv
<1>12. ReadInv'
  BY <1>1, <1>4 DEF VtaskInv, ReadInv
<1> QED
  BY <1>5, <1>6, <1>7, <1>8, <1>9, <1>10, <1>11, <1>12 DEF VtaskInv

\* fork: the new address space is a copy, its pages of [vtask] included.
LEMMA ForkKeeps ==
  ASSUME VdsoLayout, VtaskInv, NEW t \in Viewers, NEW u \in Viewers, NEW r \in Spaces, Fork(t, u, r)
  PROVE  VtaskInv'
<1> DEFINE s == space[t]
<1>1. /\ readPc[t] = "user" /\ t \in alive /\ u \notin alive /\ space[u] = Nobody
      /\ space' = [space EXCEPT ![u] = r] /\ alive' = alive \cup {u}
      /\ timens' = [timens EXCEPT ![u] = timens[t]] /\ readPc' = [readPc EXCEPT ![u] = "user"]
      /\ area' = [area EXCEPT ![r] = area[s]] /\ context' = [context EXCEPT ![r] = context[s]]
      /\ pte' = [pte EXCEPT ![r] = pte[s]] /\ vvar' = [vvar EXCEPT ![r] = vvar[s]]
      /\ inherited' = IF pte[s] # NoPtes THEN inherited \cup {r} ELSE inherited
      /\ threaded' = IF s \in threaded THEN threaded \cup {r} ELSE threaded
      /\ other' = other /\ mapAddr' = mapAddr /\ seen' = seen /\ result' = result
  BY DEF Fork
<1>2. /\ s \in Spaces /\ t # u /\ Nobody \notin Spaces
      /\ \A w \in Viewers : space[w] # r
  BY <1>1 DEF VtaskInv, UseInv, VdsoLayout, Fork, Users
<1>3. s # r
  BY <1>2
<1>0. ASSUME NEW w \in Viewers, space[w] = s PROVE readPc[w] \notin Kinds
  BY <1>0, <1>1, SoleUser DEF Kinds
<1> HIDE DEF s
<1>4. /\ space'[u] = r /\ timens'[u] = timens[t] /\ readPc'[u] = "user"
      /\ \A w \in Viewers \ {u} :
           space'[w] = space[w] /\ timens'[w] = timens[w] /\ readPc'[w] = readPc[w]
  BY <1>1 DEF VtaskInv, VdsoTypeOK
<1>5. /\ area'[r] = area[s] /\ context'[r] = context[s] /\ pte'[r] = pte[s] /\ vvar'[r] = vvar[s]
      /\ \A q \in Spaces \ {r} : /\ area'[q] = area[q] /\ context'[q] = context[q]
                                 /\ pte'[q] = pte[q] /\ vvar'[q] = vvar[q]
  BY <1>1 DEF VtaskInv, VdsoTypeOK, MapInv, FrameInv
<1>6. MapInv'
  <2>1. area' \in [Spaces -> [Kinds -> Int \cup {NoArea}]]
    BY <1>1, <1>2 DEF VtaskInv, MapInv
  <2>2. context' \in [Spaces -> [Recorded -> Int \cup {NoArea}]]
    BY <1>1, <1>2 DEF VtaskInv, MapInv
  <2>3. ASSUME NEW q \in Spaces PROVE PlaceInv(q)'
    <3>1. CASE q = r
      <4>1. other'[r] = other[s] /\ PlaceInv(s)
        BY <1>1, <1>2 DEF VtaskInv, MapInv
      <4>2. Program(r)' = Program(s)
        BY <4>1 DEF Program
      <4> QED
        BY <1>5, <3>1, <4>1, <4>2 DEF PlaceInv
    <3>2. CASE q # r
      BY <1>1, <1>5, <3>2, PlaceKept DEF VtaskInv, MapInv
    <3> QED
      BY <3>1, <3>2
  <2> QED
    BY <1>1, <2>1, <2>2, <2>3 DEF VtaskInv, MapInv
<1>12. SettleInv'
  <2>1. Settled(r)'
    <3>1. Settled(s) /\ ~\A w \in Viewers : space[w] = s => readPc[w] = "dead"
      BY <1>1, <1>2 DEF VtaskInv, SettleInv, s
    <3>2. Whole(s) \/ Bare(s)
      BY <1>0, <3>1 DEF Settled
    <3>3. Whole(r)' \/ Bare(r)'
      BY <1>5, <3>2 DEF Whole, Bare
    <3> QED
      BY <3>3 DEF Settled
  <2>2. ASSUME NEW q \in Spaces, q # r PROVE Settled(q)'
    <3>1. \A w \in Viewers : space[w] = q => space'[w] = q /\ readPc'[w] = readPc[w]
      BY <1>2, <1>1, <1>4
    <3>2. \A w \in Viewers : space'[w] = q => space[w] = q /\ readPc'[w] = readPc[w]
      BY <1>4, <2>2
    <3>3. Settled(q) /\ area'[q] = area[q] /\ context'[q] = context[q]
      BY <1>5, <2>2 DEF VtaskInv, SettleInv
    <3> QED
      BY <3>1, <3>2, <3>3, SettledKept
  <2> QED
    BY <2>1, <2>2 DEF SettleInv
<1>13. InstallInv'
  <2> SUFFICES ASSUME NEW w \in Viewers PROVE Installing(w)'
    BY DEF InstallInv
  <2>1. CASE w = u
    BY <1>4, <2>1, NotInstalling
  <2>2. CASE w # u
    <3>1. readPc[w] \in Kinds \cup {"exec"} => space[w] \in Spaces \ {r}
      BY <1>2, SoleUser
    <3>2. Installing(w)
      BY DEF VtaskInv, InstallInv
    <3>3. \A q \in Spaces \ {r} : q \in threaded' => q \in threaded
      BY <1>1
    <3> QED
      BY <1>1, <1>4, <1>5, <2>2, <3>1, <3>2, <3>3, InstallKept
  <2> QED
    BY <2>1, <2>2
<1>7. VdsoTypeOK'
  <2>1. \A q \in Spaces : DOMAIN area'[q] = Kinds /\ DOMAIN pte'[q] = 0 .. TaskPages
    BY <1>2, <1>5 DEF VtaskInv, VdsoTypeOK
  <2>2. /\ vvar' \in [Spaces -> [VvarSyms -> {NoFrame, "root", "ns"}]]
        /\ timens' \in [Viewers -> {"root", "ns"}]
    BY <1>1, <1>2 DEF VtaskInv, VdsoTypeOK
  <2> QED
    BY <1>1, <1>2, <2>1, <2>2 DEF VtaskInv, VdsoTypeOK
<1>8. UseInv'
  <2>1. \A w \in Viewers : w \in alive' <=> space'[w] \in Spaces
    BY <1>1, <1>2, <1>4 DEF VtaskInv, UseInv
  <2>2. \A w \in Viewers : readPc'[w] # "user" => w \in alive'
    BY <1>1, <1>4 DEF VtaskInv, UseInv
  <2>3. ASSUME NEW w \in Viewers, NEW v \in Viewers, space'[w] = space'[v], space'[w] \in Spaces
        PROVE  timens'[w] = timens'[v] /\ (w = v \/ space'[w] \in threaded')
    <3>1. CASE w = u \/ v = u
      BY <1>2, <1>4, <2>3, <3>1
    <3>2. CASE w # u /\ v # u
      BY <1>1, <1>4, <2>3, <3>2 DEF VtaskInv, UseInv
    <3> QED
      BY <3>1, <3>2
  <2> QED
    BY <2>1, <2>2, <2>3 DEF UseInv
<1>9. VvarInv'
  <2> SUFFICES ASSUME NEW w \in Viewers, space'[w] \in Spaces
      PROVE  /\ vvar'[space'[w]]["vvar_page"] \in {NoFrame, timens'[w]}
             /\ vvar'[space'[w]]["timens_page"] # NoFrame => timens'[w] = "ns"
    BY DEF VvarInv
  <2>1. CASE w = u
    BY <1>2, <1>4, <1>5, <2>1 DEF VtaskInv, VvarInv, s
  <2>2. CASE w # u
    BY <1>2, <1>4, <1>5, <2>2 DEF VtaskInv, VvarInv
  <2> QED
    BY <2>1, <2>2
<1>10. FrameInv'
  <2>1. pte' \in [Spaces -> [0 .. TaskPages -> Frames]]
    BY <1>1, <1>2 DEF VtaskInv, FrameInv
  <2>2. \A q \in Spaces : \A i \in 0 .. TaskPages :
          pte'[q][i] = NoFrame \/ \E w \in Viewers : pte'[q][i] = VtaskFault(w, i)
    BY <1>2, <1>5 DEF VtaskInv, FrameInv
  <2>3. ASSUME NEW w \in Viewers, NEW i \in 0 .. TaskPages, space'[w] \in Spaces,
               space'[w] \notin threaded' \cup inherited'
        PROVE  pte'[space'[w]][i] \in {NoFrame, VtaskFault(w, i)}
    <3>1. CASE w = u
      <4>1. pte[s] = NoPtes
        BY <1>1, <1>4, <2>3, <3>1
      <4> QED
        BY <1>4, <1>5, <3>1, <4>1 DEF NoPtes
    <3>2. CASE w # u
      BY <1>1, <1>2, <1>4, <1>5, <2>3, <3>2 DEF VtaskInv, FrameInv
    <3> QED
      BY <3>1, <3>2
  <2> QED
    BY <2>1, <2>2, <2>3 DEF FrameInv
<1>11. ReadInv'
  BY <1>1, <1>4 DEF VtaskInv, ReadInv
<1> QED
  BY <1>6, <1>7, <1>8, <1>9, <1>10, <1>11, <1>12, <1>13 DEF VtaskInv

\* A task exits; its address space, if it was alone, is empty again.
LEMMA ExitTaskKeeps ==
  ASSUME VdsoLayout, VtaskInv, NEW t \in Viewers, ExitTask(t)
  PROVE  VtaskInv'
<1> PICK s \in Spaces : s = space[t]
  BY DEF ExitTask, VtaskInv, UseInv
<1>1. /\ readPc[t] \in {"user", "dead"} /\ t \in alive /\ alive' = alive \ {t}
      /\ space' = [space EXCEPT ![t] = Nobody] /\ timens' = [timens EXCEPT ![t] = "root"]
      /\ readPc' = [readPc EXCEPT ![t] = "user"] /\ seen' = [seen EXCEPT ![t] = Nobody]
      /\ result' = [result EXCEPT ![t] = Nobody] /\ other' = other /\ mapAddr' = mapAddr
  BY DEF ExitTask
<1>2. s \in Spaces /\ Nobody \notin Spaces
  BY <1>1 DEF VtaskInv, UseInv, VdsoLayout
<1>3. \/ /\ \A w \in Viewers \ {t} : space[w] # s
         /\ area' = [area EXCEPT ![s] = NoMap] /\ context' = [context EXCEPT ![s] = NoContext]
         /\ pte' = [pte EXCEPT ![s] = NoPtes] /\ vvar' = [vvar EXCEPT ![s] = NoVvar]
         /\ threaded' = threaded \ {s} /\ inherited' = inherited \ {s}
      \/ /\ area' = area /\ context' = context /\ pte' = pte /\ vvar' = vvar
         /\ threaded' = threaded /\ inherited' = inherited
  BY DEF ExitTask, Users, histVars
<1>7. /\ NoMap \in [Kinds -> Int \cup {NoArea}] /\ NoPtes \in [0 .. TaskPages -> Frames]
      /\ NoContext \in [Recorded -> Int \cup {NoArea}]
      /\ NoVvar \in [VvarSyms -> {NoFrame, "root", "ns"}]
  BY DEF NoMap, NoPtes, Frames, NoContext, NoVvar
<1>4. /\ space'[t] = Nobody /\ readPc'[t] = "user"
      /\ \A w \in Viewers \ {t} : /\ space'[w] = space[w] /\ timens'[w] = timens[w]
                                /\ readPc'[w] = readPc[w] /\ seen'[w] = seen[w]
                                /\ result'[w] = result[w]
  BY <1>1 DEF VtaskInv, VdsoTypeOK
<1>8. ASSUME NEW q \in Spaces, area'[q] = area[q], context'[q] = context[q] PROVE Settled(q)'
  <2>1. \A w \in Viewers : space[w] = q /\ readPc[w] \in Kinds => space'[w] = q /\ readPc'[w] \in Kinds
    BY <1>1, <1>4 DEF Kinds
  <2>2. \A w \in Viewers : space'[w] = q => space[w] = q /\ readPc'[w] = readPc[w]
    BY <1>2, <1>4
  <2>3. Settled(q)
    BY DEF VtaskInv, SettleInv
  <2> QED
    BY <1>8, <2>1, <2>2, <2>3, SettledKept
<1>9. ASSUME \A q \in Spaces : (\E w \in Viewers \ {t} : space[w] = q) =>
               area'[q] = area[q] /\ context'[q] = context[q], threaded' \subseteq threaded
      PROVE  InstallInv'
  <2> SUFFICES ASSUME NEW w \in Viewers PROVE Installing(w)'
    BY DEF InstallInv
  <2>1. CASE w = t
    BY <1>4, <2>1, NotInstalling
  <2>2. CASE w # t
    <3>1. readPc[w] \in Kinds \cup {"exec"} => space[w] \in Spaces
      BY SoleUser
    <3>2. Installing(w)
      BY DEF VtaskInv, InstallInv
    <3> QED
      BY <1>1, <1>4, <1>9, <2>2, <3>1, <3>2, InstallKept
  <2> QED
    BY <2>1, <2>2
<1>5. CASE area' = area /\ context' = context /\ pte' = pte /\ vvar' = vvar
           /\ threaded' = threaded /\ inherited' = inherited
  <2>1. VdsoTypeOK'
    BY <1>1, <1>5 DEF VtaskInv, VdsoTypeOK
  <2>2. MapInv'
    BY <1>1, <1>5, PlaceKept DEF VtaskInv, MapInv
  <2>3. UseInv'
    BY <1>1, <1>2, <1>4, <1>5 DEF VtaskInv, UseInv
  <2>4. VvarInv' /\ FrameInv'
    BY <1>2, <1>4, <1>5 DEF VtaskInv, VvarInv, FrameInv
  <2>5. ReadInv'
    BY <1>4, <1>5 DEF VtaskInv, ReadInv
  <2>6. SettleInv' /\ InstallInv'
    BY <1>5, <1>8, <1>9 DEF SettleInv
  <2> QED
    BY <2>1, <2>2, <2>3, <2>4, <2>5, <2>6 DEF VtaskInv
<1>6. CASE /\ \A w \in Viewers \ {t} : space[w] # s
           /\ area' = [area EXCEPT ![s] = NoMap] /\ context' = [context EXCEPT ![s] = NoContext]
           /\ pte' = [pte EXCEPT ![s] = NoPtes] /\ vvar' = [vvar EXCEPT ![s] = NoVvar]
           /\ threaded' = threaded \ {s} /\ inherited' = inherited \ {s}
  <2>1. /\ area'[s] = NoMap /\ context'[s] = NoContext /\ pte'[s] = NoPtes
        /\ \A q \in Spaces \ {s} : /\ area'[q] = area[q] /\ context'[q] = context[q]
                                   /\ pte'[q] = pte[q] /\ vvar'[q] = vvar[q]
    BY <1>2, <1>6 DEF VtaskInv, VdsoTypeOK, MapInv, FrameInv
  <2>3. MapInv'
    <3>1. /\ area' \in [Spaces -> [Kinds -> Int \cup {NoArea}]]
          /\ context' \in [Spaces -> [Recorded -> Int \cup {NoArea}]]
      BY <1>6, <1>7 DEF VtaskInv, MapInv
    <3>2. PlaceInv(s)'
      <4>1. (\A k \in Kinds : NoMap[k] = NoArea) /\ "vtask" \in Kinds
        BY DEF NoMap, Kinds
      <4> QED
        BY <2>1, <4>1 DEF PlaceInv
    <3>3. \A q \in Spaces : PlaceInv(q)'
      BY <1>1, <2>1, <3>2, PlaceKept DEF VtaskInv, MapInv
    <3> QED
      BY <1>1, <3>1, <3>3 DEF VtaskInv, MapInv
  <2>4. FrameInv'
    <3>1. pte' \in [Spaces -> [0 .. TaskPages -> Frames]]
      BY <1>6, <1>7 DEF VtaskInv, FrameInv
    <3>2. \A i \in 0 .. TaskPages : NoPtes[i] = NoFrame
      BY DEF NoPtes
    <3>3. \A q \in Spaces : \A i \in 0 .. TaskPages :
            pte'[q][i] = NoFrame \/ \E w \in Viewers : pte'[q][i] = VtaskFault(w, i)
      BY <2>1, <3>2 DEF VtaskInv, FrameInv
    <3>4. ASSUME NEW w \in Viewers, NEW i \in 0 .. TaskPages, space'[w] \in Spaces,
                 space'[w] \notin threaded' \cup inherited'
          PROVE  pte'[space'[w]][i] \in {NoFrame, VtaskFault(w, i)}
      <4>1. w # t /\ space'[w] # s
        BY <1>2, <1>4, <1>6, <3>4
      <4> QED
        BY <1>4, <1>6, <2>1, <3>4, <4>1 DEF VtaskInv, FrameInv
    <3> QED
      BY <3>1, <3>3, <3>4 DEF FrameInv
  <2>5. VdsoTypeOK'
    <3>1. \A q \in Spaces : DOMAIN area'[q] = Kinds /\ DOMAIN pte'[q] = 0 .. TaskPages
      BY <2>3, <2>4 DEF MapInv, FrameInv
    <3>2. vvar' \in [Spaces -> [VvarSyms -> {NoFrame, "root", "ns"}]]
      BY <1>6, <1>7 DEF VtaskInv, VdsoTypeOK
    <3> QED
      BY <1>1, <1>6, <3>1, <3>2 DEF VtaskInv, VdsoTypeOK
  <2>6. UseInv'
    BY <1>1, <1>2, <1>4, <1>6 DEF VtaskInv, UseInv
  <2>7. VvarInv'
    BY <1>2, <1>4, <1>6, <2>1 DEF VtaskInv, VvarInv
  <2>8. ReadInv'
    BY <1>4, <1>6 DEF VtaskInv, ReadInv
  <2>9. SettleInv'
    <3>1. Settled(s)'
      BY <2>1 DEF Settled, Bare
    <3> QED
      BY <1>8, <2>1, <3>1 DEF SettleInv
  <2>10. InstallInv'
    BY <1>6, <1>9, <2>1
  <2> QED
    BY <2>3, <2>4, <2>5, <2>6, <2>7, <2>8, <2>9, <2>10 DEF VtaskInv
<1> QED
  BY <1>3, <1>5, <1>6

\* The task alone in its address space joins a time namespace, and [vvar] is
\* zapped.
LEMMA JoinTimensKeeps ==
  ASSUME VdsoLayout, VtaskInv, NEW t \in Viewers, JoinTimens(t)
  PROVE  VtaskInv'
<1> DEFINE s == space[t]
<1>1. /\ t \in alive /\ readPc[t] = "user" /\ UNCHANGED <<space, mapVars, threaded>>
      /\ space' = space /\ alive' = alive /\ area' = area /\ mapAddr' = mapAddr
      /\ pte' = pte /\ threaded' = threaded
      /\ inherited' = inherited /\ readPc' = readPc /\ seen' = seen /\ result' = result
      /\ timens' = [timens EXCEPT ![t] = "ns"] /\ vvar' = [vvar EXCEPT ![s] = NoVvar]
      /\ \A w \in Viewers : space[w] = s => w = t
  BY DEF JoinTimens, mapVars, histVars, readVars, Users
<1>2. s \in Spaces
  BY <1>1 DEF VtaskInv, UseInv
<1>3. MapInv' /\ SettleInv' /\ InstallInv'
  <2>1. readPc' = [readPc EXCEPT ![t] = "user"]
    BY <1>1 DEF VtaskInv, VdsoTypeOK
  <2> QED
    BY <1>1, <2>1, AreasKept DEF VtaskInv
<1>4. FrameInv' /\ ReadInv'
  BY <1>1 DEF VtaskInv, FrameInv, ReadInv
<1>5. NoVvar \in [VvarSyms -> {NoFrame, "root", "ns"}] /\ \A p \in VvarSyms : NoVvar[p] = NoFrame
  BY DEF NoVvar
<1> HIDE DEF s
<1>6. VdsoTypeOK'
  BY <1>1, <1>5 DEF VtaskInv, VdsoTypeOK
<1>7. /\ vvar'[s] = NoVvar /\ \A q \in Spaces \ {s} : vvar'[q] = vvar[q]
      /\ \A w \in Viewers \ {t} : timens'[w] = timens[w]
  BY <1>1, <1>2 DEF VtaskInv, VdsoTypeOK
<1>8. UseInv'
  BY <1>1, <1>2, <1>7 DEF VtaskInv, UseInv, s
<1>9. VvarInv'
  <2> SUFFICES ASSUME NEW w \in Viewers, space[w] \in Spaces
      PROVE  /\ vvar'[space[w]]["vvar_page"] \in {NoFrame, timens'[w]}
             /\ vvar'[space[w]]["timens_page"] # NoFrame => timens'[w] = "ns"
    BY <1>1 DEF VvarInv
  <2>1. CASE w = t
    BY <1>5, <1>7, <2>1 DEF VvarSyms, s
  <2>2. CASE w # t
    BY <1>1, <1>7, <2>2 DEF VtaskInv, VvarInv
  <2> QED
    BY <2>1, <2>2
<1> QED
  BY <1>3, <1>4, <1>6, <1>8, <1>9 DEF VtaskInv

\* A page of [vvar] is faulted in, or half of what belongs to it: it is for the
\* time namespace of the task, which is that of all users.
LEMMA VvarKeeps ==
  ASSUME VdsoLayout, VtaskInv, NEW t \in Viewers, NEW p \in VvarSyms,
         VvarFault(t, p) \/ VvarSigbus(t, p)
  PROVE  VtaskInv'
<1> DEFINE s == space[t]
<1>1. /\ t \in alive /\ readPc[t] = "user" /\ UNCHANGED <<space, mapVars, threaded>>
      /\ space' = space /\ alive' = alive /\ timens' = timens /\ area' = area /\ mapAddr' = mapAddr
      /\ pte' = pte /\ threaded' = threaded
      /\ inherited' = inherited /\ seen' = seen /\ result' = result
      /\ readPc' = readPc \/ readPc' = [readPc EXCEPT ![t] = "dead"]
  BY DEF VvarFault, VvarSigbus, viewerVars, mapVars, histVars, readVars
<1>2. s \in Spaces
  BY <1>1 DEF VtaskInv, UseInv
<1>3. PICK v \in {"user", "dead"} : readPc' = [readPc EXCEPT ![t] = v]
  BY <1>1 DEF VtaskInv, VdsoTypeOK
<1>4. MapInv' /\ SettleInv' /\ InstallInv'
  BY <1>1, <1>3, AreasKept DEF VtaskInv
<1>5. FrameInv' /\ ReadInv'
  <2>1. readPc'[t] = v /\ \A w \in Viewers \ {t} : readPc'[w] = readPc[w]
    BY <1>3 DEF VtaskInv, VdsoTypeOK
  <2>2. ReadInv'
    BY <1>1, <2>1 DEF VtaskInv, ReadInv
  <2> QED
    BY <1>1, <2>2 DEF VtaskInv, FrameInv
<1>6. timens[t] \in {"root", "ns"} /\ vvar[s] \in [VvarSyms -> {NoFrame, "root", "ns"}]
  BY <1>2 DEF VtaskInv, VdsoTypeOK
<1>7. PICK g \in [VvarSyms -> {NoFrame, "root", "ns"}] :
        /\ vvar' = [vvar EXCEPT ![s] = g]
        /\ g["vvar_page"] \in {NoFrame, timens[t]}
        /\ g["timens_page"] # NoFrame => timens[t] = "ns"
  <2>0. /\ vvar[s]["vvar_page"] \in {NoFrame, timens[t]}
        /\ vvar[s]["timens_page"] # NoFrame => timens[t] = "ns"
    BY <1>2 DEF VtaskInv, VvarInv
  <2>1. CASE VvarFault(t, p)
    <3> DEFINE g == [q \in VvarSyms |-> IF q \in Inserted(timens[t], p)
                                        THEN VvarFrame(timens[t], q) ELSE vvar[s][q]]
    <3>1. vvar' = [vvar EXCEPT ![s] = g]
      BY <2>1 DEF VvarFault
    <3>2. g \in [VvarSyms -> {NoFrame, "root", "ns"}]
      BY <1>6 DEF VvarFrame
    <3>3. g["vvar_page"] \in {NoFrame, timens[t]}
      BY <2>0 DEF VvarSyms, VvarFrame
    <3>4. g["timens_page"] # NoFrame => timens[t] = "ns"
      <4>1. "timens_page" \in Inserted(timens[t], p) => timens[t] = "ns"
        BY <2>1 DEF Inserted, VvarFault, VvarSyms
      <4> QED
        BY <2>0, <4>1 DEF VvarSyms
    <3> HIDE DEF g
    <3> QED
      BY <3>1, <3>2, <3>3, <3>4
  <2>2. CASE VvarSigbus(t, p) /\ vvar' = vvar
    <3>1. vvar' = [vvar EXCEPT ![s] = vvar[s]]
      BY <2>2 DEF VtaskInv, VdsoTypeOK
    <3> QED
      BY <1>6, <2>0, <3>1
  <2>3. CASE VvarSigbus(t, p) /\ timens[t] = "ns" /\ vvar' = [vvar EXCEPT ![s].timens_page = "root"]
    <3> DEFINE g == [vvar[s] EXCEPT !["timens_page"] = "root"]
    <3>1. vvar' = [vvar EXCEPT ![s] = g]
      BY <2>3
    <3>2. g \in [VvarSyms -> {NoFrame, "root", "ns"}]
      BY <1>6
    <3>3. g["vvar_page"] = vvar[s]["vvar_page"]
      BY <1>6 DEF VvarSyms
    <3> HIDE DEF g
    <3> QED
      BY <2>0, <2>3, <3>1, <3>2, <3>3
  <2> QED
    BY <2>1, <2>2, <2>3 DEF VvarSigbus
<1> HIDE DEF s
<1>8. VdsoTypeOK'
  <2>1. vvar' \in [Spaces -> [VvarSyms -> {NoFrame, "root", "ns"}]]
    BY <1>7 DEF VtaskInv, VdsoTypeOK
  <2>2. readPc' \in [Viewers -> Kinds \cup {"exec", "user", "read", "done", "dead"}]
    BY <1>3 DEF VtaskInv, VdsoTypeOK
  <2> QED
    BY <1>1, <2>1, <2>2 DEF VtaskInv, VdsoTypeOK
<1>9. vvar'[s] = g /\ \A q \in Spaces \ {s} : vvar'[q] = vvar[q]
  BY <1>2, <1>7 DEF VtaskInv, VdsoTypeOK
<1>10. UseInv'
  <2>1. \A w \in Viewers : readPc'[w] # "user" => w \in alive
    BY <1>1, <1>3 DEF VtaskInv, VdsoTypeOK, UseInv
  <2> QED
    BY <1>1, <2>1 DEF VtaskInv, UseInv
<1>11. VvarInv'
  <2> SUFFICES ASSUME NEW w \in Viewers, space[w] \in Spaces
      PROVE  /\ vvar'[space[w]]["vvar_page"] \in {NoFrame, timens[w]}
             /\ vvar'[space[w]]["timens_page"] # NoFrame => timens[w] = "ns"
    BY <1>1 DEF VvarInv
  <2>1. CASE space[w] = s
    <3>1. timens[w] = timens[t]
      BY <2>1 DEF VtaskInv, UseInv, s
    <3> QED
      BY <1>7, <1>9, <2>1, <3>1
  <2>2. CASE space[w] # s
    BY <1>9, <2>2 DEF VtaskInv, VvarInv
  <2> QED
    BY <2>1, <2>2
<1> QED
  BY <1>4, <1>5, <1>8, <1>10, <1>11 DEF VtaskInv

\* vtask_fault puts a page of current where there is none.
LEMMA TouchKeeps ==
  ASSUME VdsoLayout, VtaskInv, NEW t \in Viewers, space[t] \in Spaces, NEW i \in 0 .. TaskPages,
         Touch(t, i), UNCHANGED <<space, histVars>>
  PROVE  /\ FrameInv'
         /\ \E u \in Viewers : pte'[space[t]][i] = VtaskFault(u, i)
         /\ space[t] \notin threaded \cup inherited => pte'[space[t]][i] = VtaskFault(t, i)
         /\ \A s \in Spaces : DOMAIN pte'[s] = 0 .. TaskPages
<1> DEFINE s == space[t]
           f == IF pte[s][i] = NoFrame THEN VtaskFault(t, i) ELSE pte[s][i]
<1>1. pte \in [Spaces -> [0 .. TaskPages -> Frames]]
  BY DEF VtaskInv, FrameInv
<1>2. pte' = [pte EXCEPT ![s][i] = f]
  BY <1>1 DEF Touch
<1>3. \E u \in Viewers : f = VtaskFault(u, i)
  BY DEF VtaskInv, FrameInv
<1>4. s \notin threaded \cup inherited => f = VtaskFault(t, i)
  BY DEF VtaskInv, FrameInv
<1>5. f \in Frames
  BY <1>3 DEF Frames
<1> HIDE DEF s, f
<1>6. s \in Spaces
  BY DEF s
<1>7. pte' \in [Spaces -> [0 .. TaskPages -> Frames]]
  BY <1>1, <1>2, <1>5, <1>6
<1>8. /\ pte'[s][i] = f
      /\ \A j \in 0 .. TaskPages \ {i} : pte'[s][j] = pte[s][j]
      /\ \A q \in Spaces \ {s} : pte'[q] = pte[q]
  BY <1>1, <1>2, <1>6
<1>9. space' = space /\ threaded' = threaded /\ inherited' = inherited
  BY DEF histVars
<1>10. \A q \in Spaces : \A j \in 0 .. TaskPages :
         pte'[q][j] = NoFrame \/ \E u \in Viewers : pte'[q][j] = VtaskFault(u, j)
  <2> SUFFICES ASSUME NEW q \in Spaces, NEW j \in 0 .. TaskPages
      PROVE  pte'[q][j] = NoFrame \/ \E u \in Viewers : pte'[q][j] = VtaskFault(u, j)
    OBVIOUS
  <2>1. CASE q = s /\ j = i
    BY <1>3, <1>8, <2>1
  <2>2. CASE ~(q = s /\ j = i)
    <3>1. pte'[q][j] = pte[q][j]
      BY <1>8, <2>2
    <3> QED
      BY <3>1 DEF VtaskInv, FrameInv
  <2> QED
    BY <2>1, <2>2
<1>11. ASSUME NEW w \in Viewers, NEW j \in 0 .. TaskPages, space[w] \in Spaces,
              space[w] \notin threaded \cup inherited
       PROVE  pte'[space[w]][j] \in {NoFrame, VtaskFault(w, j)}
  <2>1. CASE space[w] = s /\ j = i
    <3>1. w = t
      BY <1>11, <2>1 DEF VtaskInv, UseInv, s
    <3> QED
      BY <1>4, <1>8, <1>11, <2>1, <3>1
  <2>2. CASE ~(space[w] = s /\ j = i)
    <3>1. pte'[space[w]][j] = pte[space[w]][j]
      BY <1>8, <1>11, <2>2
    <3> QED
      BY <1>11, <3>1 DEF VtaskInv, FrameInv
  <2> QED
    BY <2>1, <2>2
<1>12. FrameInv'
  BY <1>7, <1>9, <1>10, <1>11 DEF FrameInv
<1>13. \A q \in Spaces : DOMAIN pte'[q] = 0 .. TaskPages
  BY <1>7
<1> QED
  BY <1>3, <1>4, <1>8, <1>12, <1>13 DEF s

\* The first read: the info page, and whose it is.
LEMMA ReadInfoKeeps ==
  ASSUME VdsoLayout, VtaskInv, NEW t \in Viewers, ReadInfo(t)
  PROVE  VtaskInv'
<1> DEFINE s == space[t]
<1>1. /\ readPc[t] = "user" /\ UNCHANGED <<space, mapVars, threaded>> /\ mapAddr' = mapAddr
      /\ t \in alive /\ Touch(t, Info) /\ seen' = [seen EXCEPT ![t] = pte'[s][Info][2]]
      /\ readPc' = [readPc EXCEPT ![t] = "read"]
      /\ space' = space /\ alive' = alive /\ timens' = timens /\ area' = area
      /\ vvar' = vvar
      /\ threaded' = threaded /\ inherited' = inherited /\ result' = result
  BY DEF ReadInfo, viewerVars, mapVars, histVars
<1>2. s \in Spaces /\ Info \in 0 .. TaskPages
  BY <1>1 DEF VtaskInv, UseInv, VdsoLayout, Info
<1>3. /\ FrameInv'
      /\ \E u \in Viewers : pte'[s][Info] = VtaskFault(u, Info)
      /\ s \notin threaded \cup inherited => pte'[s][Info] = VtaskFault(t, Info)
      /\ \A q \in Spaces : DOMAIN pte'[q] = 0 .. TaskPages
  BY <1>1, <1>2, TouchKeeps DEF histVars
<1>4. \A u : VtaskFault(u, Info)[2] = u
  BY DEF VtaskFault
<1>5. /\ seen'[t] \in Viewers /\ (s \notin threaded \cup inherited => seen'[t] = t)
      /\ seen' \in [Viewers -> Viewers \cup {Nobody}]
      /\ \A w \in Viewers \ {t} : seen'[w] = seen[w]
  <2>1. pte'[s][Info][2] \in Viewers
    BY <1>3, <1>4
  <2>2. s \notin threaded \cup inherited => pte'[s][Info][2] = t
    BY <1>3, <1>4
  <2> HIDE DEF s
  <2> QED
    BY <1>1, <2>1, <2>2 DEF VtaskInv, VdsoTypeOK
<1> HIDE DEF s
<1>6. readPc'[t] = "read" /\ \A w \in Viewers \ {t} : readPc'[w] = readPc[w]
  BY <1>1 DEF VtaskInv, VdsoTypeOK
<1>7. VdsoTypeOK'
  BY <1>1, <1>3, <1>5 DEF VtaskInv, VdsoTypeOK
<1>8. MapInv' /\ SettleInv' /\ InstallInv' /\ VvarInv'
  <2>1. MapInv' /\ SettleInv' /\ InstallInv'
    BY <1>1, AreasKept DEF VtaskInv
  <2> QED
    BY <1>1, <2>1 DEF VtaskInv, VvarInv
<1>9. UseInv'
  BY <1>1, <1>6 DEF VtaskInv, UseInv
<1>10. ReadInv'
  BY <1>1, <1>5, <1>6 DEF VtaskInv, ReadInv, s
<1> QED
  BY <1>3, <1>7, <1>8, <1>9, <1>10 DEF VtaskInv

\* The second read: the pid, in the page of the task_struct of that task.
LEMMA ReadPidKeeps ==
  ASSUME VdsoLayout, VtaskInv, NEW t \in Viewers, ReadPid(t)
  PROVE  VtaskInv'
<1> DEFINE s == space[t]
           o == seen[t]
           i == PidPage[o]
           v == IF pte'[s][i] = <<"task", o, i>> /\ o \in alive THEN o ELSE "garbage"
<1>1. /\ UNCHANGED <<space, mapVars, threaded>> /\ mapAddr' = mapAddr
      /\ readPc[t] = "read" /\ Touch(t, i) /\ seen' = seen
      /\ result' = [result EXCEPT ![t] = v] /\ readPc' = [readPc EXCEPT ![t] = "done"]
      /\ space' = space /\ alive' = alive /\ timens' = timens /\ area' = area
      /\ vvar' = vvar
      /\ threaded' = threaded /\ inherited' = inherited
  BY DEF ReadPid, viewerVars, mapVars, histVars
<1>2. /\ s \in Spaces /\ o \in Viewers /\ t \in alive
      /\ (s \notin threaded \cup inherited => o = t)
  BY <1>1 DEF VtaskInv, UseInv, ReadInv
<1>3. i \in 0 .. TaskPages /\ i # Info
  BY <1>2 DEF VdsoLayout, Info
<1>4. /\ FrameInv'
      /\ s \notin threaded \cup inherited => pte'[s][i] = VtaskFault(t, i)
      /\ \A q \in Spaces : DOMAIN pte'[q] = 0 .. TaskPages
  BY <1>1, <1>2, <1>3, TouchKeeps DEF histVars
<1>5. s \notin threaded \cup inherited => v = t
  BY <1>2, <1>3, <1>4 DEF VtaskFault
<1>6. v \in Viewers \cup {"garbage"}
  BY <1>2
<1> HIDE DEF s, v, i, o
<1>7. /\ readPc'[t] = "done" /\ result'[t] = v
      /\ \A w \in Viewers \ {t} : readPc'[w] = readPc[w] /\ result'[w] = result[w]
  BY <1>1 DEF VtaskInv, VdsoTypeOK
<1>8. VdsoTypeOK'
  BY <1>1, <1>4, <1>6 DEF VtaskInv, VdsoTypeOK
<1>9. MapInv' /\ SettleInv' /\ InstallInv' /\ VvarInv'
  <2>1. MapInv' /\ SettleInv' /\ InstallInv'
    BY <1>1, AreasKept DEF VtaskInv
  <2> QED
    BY <1>1, <2>1 DEF VtaskInv, VvarInv
<1>10. UseInv'
  BY <1>1, <1>2, <1>7 DEF VtaskInv, UseInv
<1>11. ReadInv'
  BY <1>1, <1>5, <1>7 DEF VtaskInv, ReadInv, s
<1> QED
  BY <1>4, <1>8, <1>9, <1>10, <1>11 DEF VtaskInv

\* At first one task uses one address space, with no area in it.
LEMMA InitVtaskInv ==
  ASSUME VdsoLayout, VdsoInit
  PROVE  VtaskInv
<1> DEFINE t0 == CHOOSE t \in Viewers : TRUE
           s0 == CHOOSE s \in Spaces : TRUE
<1>1. t0 \in Viewers /\ s0 \in Spaces /\ Nobody \notin Spaces
  BY DEF VdsoLayout
<1>2. /\ space = [t \in Viewers |-> IF t = t0 THEN s0 ELSE Nobody] /\ alive = {t0}
      /\ readPc = [t \in Viewers |-> IF t = t0 THEN "exec" ELSE "user"]
      /\ area = [s \in Spaces |-> NoMap] /\ context = [s \in Spaces |-> NoContext]
      /\ mapAddr = [t \in Viewers |-> NoArea]
      /\ pte = [s \in Spaces |-> NoPtes] /\ vvar = [s \in Spaces |-> NoVvar]
      /\ timens = [t \in Viewers |-> "root"] /\ threaded = {} /\ inherited = {}
      /\ seen = [t \in Viewers |-> Nobody] /\ result = [t \in Viewers |-> Nobody]
  BY DEF VdsoInit
<1>8. PICK o \in Others : other = [s \in Spaces |-> o]
  BY DEF VdsoInit
<1> HIDE DEF t0, s0
<1>3. /\ NoMap \in [Kinds -> Int \cup {NoArea}] /\ NoPtes \in [0 .. TaskPages -> Frames]
      /\ NoContext \in [Recorded -> Int \cup {NoArea}]
      /\ NoVvar \in [VvarSyms -> {NoFrame, "root", "ns"}]
      /\ (\A k \in Kinds : NoMap[k] = NoArea) /\ "vtask" \in Kinds
      /\ NoVvar["vvar_page"] = NoFrame /\ NoVvar["timens_page"] = NoFrame
  BY DEF NoMap, NoPtes, Frames, NoContext, NoVvar, Kinds, VvarSyms
<1>4. MapInv
  <2>1. \A s \in Spaces : \A p \in other[s] : p \in Nat /\ p >= MinAddr
    BY <1>8 DEF VdsoLayout
  <2>2. \A s, r \in Spaces : other[s] = other[r]
    BY <1>8
  <2>3. \A s \in Spaces : PlaceInv(s)
    BY <1>2, <1>3 DEF PlaceInv
  <2> QED
    BY <1>2, <1>3, <2>1, <2>2, <2>3 DEF MapInv
<1>5. FrameInv
  BY <1>1, <1>2, <1>3 DEF FrameInv, NoPtes
<1>6. VdsoTypeOK
  BY <1>1, <1>2, <1>3 DEF VdsoTypeOK
<1>7. UseInv /\ VvarInv /\ ReadInv
  BY <1>1, <1>2, <1>3 DEF UseInv, VvarInv, ReadInv
<1>9. SettleInv
  BY <1>2 DEF SettleInv, Settled, Bare
<1>10. InstallInv
  BY <1>1, <1>2 DEF InstallInv, Installing, Kinds
<1> QED
  BY <1>4, <1>5, <1>6, <1>7, <1>9, <1>10 DEF VtaskInv

\* VtaskInv holds in every state, for any tasks, address spaces and layout.
THEOREM VtaskInvariance ==
  VdsoSpec => []VtaskInv
<1>1. VdsoInit => VtaskInv
  BY InitVtaskInv, VdsoLayoutHolds
<1>2. VtaskInv /\ [VdsoNext]_vdsoVars => VtaskInv'
  <2> SUFFICES ASSUME VtaskInv, [VdsoNext]_vdsoVars PROVE VtaskInv'
    OBVIOUS
  <2>1. CASE UNCHANGED vdsoVars
    <3>1. /\ space' = space /\ alive' = alive /\ other' = other /\ area' = area
          /\ context' = context /\ mapAddr' = mapAddr /\ pte' = pte /\ vvar' = vvar
          /\ timens' = timens /\ threaded' = threaded /\ inherited' = inherited
          /\ readPc' = readPc /\ seen' = seen /\ result' = result
      BY <2>1 DEF vdsoVars, viewerVars, mapVars, histVars, readVars
    <3>2. MapInv'
      BY <3>1, PlaceKept DEF VtaskInv, MapInv
    <3>4. SettleInv'
      <4> SUFFICES ASSUME NEW r \in Spaces PROVE Settled(r)'
        BY DEF SettleInv
      <4>1. Settled(r)
        BY DEF VtaskInv, SettleInv
      <4> QED
        BY <3>1, <4>1, SettledKept
    <3>5. InstallInv'
      BY <3>1, InstallKept DEF VtaskInv, InstallInv
    <3>6. VdsoTypeOK'
      BY <3>1 DEF VtaskInv, VdsoTypeOK
    <3>7. FrameInv'
      BY <3>1 DEF VtaskInv, FrameInv
    <3>3. UseInv' /\ VvarInv' /\ ReadInv'
      BY <3>1 DEF VtaskInv, UseInv, VvarInv, ReadInv
    <3> QED
      BY <3>2, <3>3, <3>4, <3>5, <3>6, <3>7 DEF VtaskInv
  <2>2. ASSUME NEW t \in Viewers, GetUnmappedArea(t) \/ MapVdsoKilled(t) PROVE VtaskInv'
    BY <2>2, VdsoLayoutHolds, GetUnmappedKeeps
  <2>10. ASSUME NEW t \in Viewers, InstallVdso(t) \/ InstallVvar(t) \/ InstallVtask(t)
         PROVE  VtaskInv'
    BY <2>10, VdsoLayoutHolds, InstallKeeps, InstallVtaskKeeps
  <2>11. ASSUME NEW t \in Viewers,
                InstallVdsoFails(t) \/ InstallVvarFails(t) \/ InstallVtaskFails(t)
         PROVE  VtaskInv'
    BY <2>11, VdsoLayoutHolds, UnwindKeeps
  <2>3. ASSUME NEW t \in Viewers, ReadFails(t) \/ Return(t) PROVE VtaskInv'
    BY <2>3, StopKeeps
  <2>4. ASSUME NEW t \in Viewers, NEW p \in MoveTo, Mremap(t, p) PROVE VtaskInv'
    BY <2>4, VdsoLayoutHolds, MremapKeeps
  <2>5. ASSUME NEW t \in Viewers, NEW u \in Viewers, Thread(t, u) PROVE VtaskInv'
    BY <2>5, VdsoLayoutHolds, ThreadKeeps
  <2>6. ASSUME NEW t \in Viewers, NEW u \in Viewers, NEW s \in Spaces, Fork(t, u, s) PROVE VtaskInv'
    BY <2>6, VdsoLayoutHolds, ForkKeeps
  <2>7. ASSUME NEW t \in Viewers, ExitTask(t) \/ JoinTimens(t) PROVE VtaskInv'
    BY <2>7, VdsoLayoutHolds, ExitTaskKeeps, JoinTimensKeeps
  <2>8. ASSUME NEW t \in Viewers, NEW p \in VvarSyms, VvarFault(t, p) \/ VvarSigbus(t, p)
        PROVE  VtaskInv'
    BY <2>8, VdsoLayoutHolds, VvarKeeps
  <2>9. ASSUME NEW t \in Viewers, ReadInfo(t) \/ ReadPid(t) PROVE VtaskInv'
    BY <2>9, VdsoLayoutHolds, ReadInfoKeeps, ReadPidKeeps
  <2> QED
    BY <2>1, <2>2, <2>3, <2>4, <2>5, <2>6, <2>7, <2>8, <2>9, <2>10, <2>11 DEF VdsoNext
<1> QED
  BY <1>1, <1>2, PTL DEF VdsoSpec

\* OwnPid: a task alone in an address space it got empty reads its own pid.
THEOREM OwnPidIsRead ==
  VdsoSpec => []OwnPid
<1>1. VtaskInv => OwnPid
  BY DEF VtaskInv, ReadInv, OwnPid
<1> QED
  BY VtaskInvariance, <1>1, PTL

\* AreasExact: outside map_vdso the areas are all there or none, but for what
\* do_munmap refuses; they are clear of the program's pages, [vtask] ends where
\* [vvar] starts, and [vvar] is for its users' time namespace.
THEOREM AreasAreExact ==
  VdsoSpec => []AreasExact
<1>1. VtaskInv => AreasExact
  <2> SUFFICES ASSUME VtaskInv, NEW s \in Spaces
      PROVE  /\ \/ Whole(s) \/ Bare(s)
                \/ \E t \in Users(s) : readPc[t] \in Kinds
                \/ Misaligned(s) /\ \A t \in Users(s) : readPc[t] = "dead"
             /\ PlaceInv(s)
             /\ \A t \in Users(s) :
                  /\ vvar[s]["vvar_page"] \in {NoFrame, timens[t]}
                  /\ vvar[s]["timens_page"] # NoFrame => timens[t] = "ns"
    BY DEF AreasExact, PlaceInv
  <2>1. \A t \in Users(s) : /\ vvar[s]["vvar_page"] \in {NoFrame, timens[t]}
                            /\ vvar[s]["timens_page"] # NoFrame => timens[t] = "ns"
    BY DEF VtaskInv, VvarInv, Users
  <2>2. Settled(s) /\ PlaceInv(s)
    BY DEF VtaskInv, MapInv, SettleInv
  <2> QED
    BY <2>1, <2>2 DEF Settled, Users
<1> QED
  BY VtaskInvariance, <1>1, PTL

\* What the run checks of the vDSO, for every layout.
THEOREM VtaskIsSound ==
  VdsoSpec => []VtaskSound
<1>1. VtaskInv => VdsoTypeOK
  BY DEF VtaskInv
<1> QED
  BY VtaskInvariance, OwnPidIsRead, AreasAreExact, <1>1, PTL DEF VtaskSound

=============================================================================
