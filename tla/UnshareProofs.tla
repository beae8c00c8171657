---------------------------- MODULE UnshareProofs ----------------------------
(***************************************************************************)
(* unshare, for any number of tasks, calls and sets of flags.  The         *)
(* invariant has a part for each task, what it holds at which point of a   *)
(* call, and a part for each counted kind: the counters are exact, a copy  *)
(* that is not installed yet is nobody else's, and a task that was told,   *)
(* or is about to be told, that an object is its own is alone with it.     *)
(***************************************************************************)
EXTENDS Unshare, FiniteSetTheorems, TLAPS

\* The tasks that use the object o, and the calls that hold it.
UsedBy(k, o) == {t \in Sharers : obj[t][k] = o}
HeldBy(k, o) == {t \in Sharers : copy[t][k] = o}
Outside(k, o) == IF k = "files" THEN guests[o] ELSE 0

\* The counter of o is exact.
RefExact(k, o) ==
  sharerRefs[k][o] = Cardinality(UsedBy(k, o)) + Cardinality(HeldBy(k, o)) + Outside(k, o)

\* Where a call is while its copies are not installed, and where it is after
\* it has looked at the counter of kind k.
Before == {"fd", "cred", "commit", "commit_exec"}
After(k) == IF k = "fs" THEN {"fd", "cred", "commit"} ELSE {"cred", "commit", "commit_exec"}
Flag(k) == IF k = "fs" THEN "FS" ELSE "FILES"

\* A copy that is not installed is nobody else's.
Apart(t, k) ==
  sharerPc[t] \in Before /\ copy[t][k] # NoObj =>
    /\ \A u \in Sharers : obj[u][k] # copy[t][k]
    /\ \A u \in Sharers : u # t => copy[u][k] # copy[t][k]
    /\ Outside(k, copy[t][k]) = 0

\* t is alone with its object.
Alone(t, k) == \A u \in Sharers : u # t => obj[u][k] # obj[t][k]

\* t was told so, or has found its object unshared and goes on without a copy.
Claims(t, k) ==
  \/ k \in sharerOwn[t]
  \/ sharerPc[t] \in After(k) /\ Flag(k) \in unshareFlags[t] /\ copy[t][k] = NoObj

\* All that is said of one kind.
KindInv(k) ==
  /\ \A o \in Objects : RefExact(k, o)
  /\ \A t \in Sharers : Apart(t, k)
  /\ \A t \in Sharers : Claims(t, k) => Alone(t, k)

\* The points of a call.
Points == {"none", "user", "fs", "fd", "fd_exec", "cred", "commit", "commit_exec", "put_cred",
           "put_fd", "put_fs", "out"}

\* What t holds at which point.
TaskInv(t) ==
  /\ sharerPc[t] = "none" => sharerOwn[t] = {} /\ \A k \in ShareKinds : obj[t][k] = NoObj
  /\ sharerPc[t] # "none" => \A k \in ShareKinds : obj[t][k] \in Objects
  /\ sharerPc[t] \in {"none", "user", "fs", "fd", "fd_exec", "put_fs", "out"} =>
       copy[t]["files"] = NoObj
  /\ sharerPc[t] \in {"none", "user", "fs", "fd_exec", "commit_exec", "out"} =>
       copy[t]["fs"] = NoObj
  /\ t \in cred => sharerPc[t] \in {"commit", "put_cred"}
  /\ t \in ns => sharerPc[t] = "commit"
  /\ unshareFlags[t] \cap {"NEWNS", "NEWUSER"} # {} => "FS" \in unshareFlags[t]
  /\ sharerPc[t] \in {"fd_exec", "commit_exec"} => unshareFlags[t] = {"FILES"}

\* One reference from outside at a time.
GuestInv == \A o, p \in Objects : guests[o] = 1 /\ guests[p] = 1 => o = p

\* The inductive invariant.
IInv ==
  /\ UnshareTypeOK /\ sharerPc \in [Sharers -> Points]
  /\ DOMAIN unshareFlags = Sharers
  /\ \A t \in Sharers : TaskInv(t)
  /\ \A k \in Counted : KindInv(k)
  /\ GuestInv

-----------------------------------------------------------------------------
\* Sets of tasks are finite.
LEMMA TaskSets ==
  ASSUME SharersSound, NEW k, NEW o
  PROVE  /\ IsFiniteSet(UsedBy(k, o)) /\ Cardinality(UsedBy(k, o)) \in Nat
         /\ IsFiniteSet(HeldBy(k, o)) /\ Cardinality(HeldBy(k, o)) \in Nat
<1>1. UsedBy(k, o) \in SUBSET Sharers /\ HeldBy(k, o) \in SUBSET Sharers
  BY DEF UsedBy, HeldBy
<1> QED
  BY <1>1, FS_Subset, FS_CardinalityType DEF SharersSound

\* The counter of an object, and what it counts.
LEMMA Counts ==
  ASSUME IInv, SharersSound, NEW k \in Counted, NEW o \in Objects
  PROVE  /\ IsFiniteSet(UsedBy(k, o)) /\ Cardinality(UsedBy(k, o)) \in Nat
         /\ IsFiniteSet(HeldBy(k, o)) /\ Cardinality(HeldBy(k, o)) \in Nat
         /\ Outside(k, o) \in 0 .. 1 /\ sharerRefs[k][o] \in Nat
         /\ sharerRefs[k][o] = Cardinality(UsedBy(k, o)) + Cardinality(HeldBy(k, o))
                               + Outside(k, o)
<1>1. RefExact(k, o)
  BY DEF IInv, KindInv
<1>2. Outside(k, o) \in 0 .. 1 /\ sharerRefs[k][o] \in Nat
  BY DEF IInv, UnshareTypeOK, Outside
<1> QED
  BY <1>1, <1>2, TaskSets DEF RefExact

\* A function on a finite set has no more values than arguments.
LEMMA ImageBound ==
  ASSUME NEW S, IsFiniteSet(S), NEW f, f = [x \in S |-> f[x]]
  PROVE  /\ IsFiniteSet({f[x] : x \in S})
         /\ Cardinality({f[x] : x \in S}) <= Cardinality(S)
<1>1. f \in Surjection(S, {f[x] : x \in S})
  BY DEF Surjection
<1> QED
  BY <1>1, FS_Surjection

\* Nothing changes for the objects of kind k.
SameObjects(k) == \A u \in Sharers : obj'[u][k] = obj[u][k]
SameCopies(k) == \A u \in Sharers : copy'[u][k] = copy[u][k]
SameOutside(k) == \A o \in Objects : Outside(k, o)' = Outside(k, o)

\* No claim is new, and no copy is under way that was not, but those of t.
NoNewClaims(k) == \A u \in Sharers : Claims(u, k)' => Claims(u, k)
NoNewCopies(k) ==
  \A u \in Sharers : sharerPc'[u] \in Before /\ copy'[u][k] # NoObj => sharerPc[u] \in Before

\* A step that leaves kind k alone.
LEMMA KindSame ==
  ASSUME IInv, NEW k \in Counted, SameObjects(k), SameCopies(k), SameOutside(k),
         sharerRefs'[k] = sharerRefs[k], NoNewCopies(k),
         \A u \in Sharers : Claims(u, k)' => Claims(u, k) \/ Alone(u, k)
  PROVE  KindInv(k)'
<1>1. KindInv(k)
  BY DEF IInv
<1>2. ASSUME NEW o \in Objects PROVE RefExact(k, o)'
  <2>1. UsedBy(k, o)' = UsedBy(k, o) /\ HeldBy(k, o)' = HeldBy(k, o)
    BY DEF UsedBy, HeldBy, SameObjects, SameCopies
  <2> QED
    BY <1>1, <2>1 DEF KindInv, RefExact, SameOutside
<1>3. ASSUME NEW u \in Sharers PROVE Apart(u, k)'
  <2>1. copy[u][k] # NoObj => copy[u][k] \in Objects
    BY DEF IInv, UnshareTypeOK, Counted
  <2> QED
    BY <1>1, <2>1 DEF KindInv, Apart, SameObjects, SameCopies, SameOutside, NoNewCopies
<1>4. ASSUME NEW u \in Sharers, Claims(u, k)' PROVE Alone(u, k)'
  BY <1>1, <1>4 DEF KindInv, Alone, SameObjects
<1> QED
  BY <1>2, <1>3, <1>4 DEF KindInv

\* x is nobody's object of kind k.
Free(k, x) ==
  /\ x \in Objects /\ sharerRefs[k][x] = 0 /\ Outside(k, x) = 0
  /\ \A u \in Sharers : obj[u][k] # x /\ copy[u][k] # x

\* copy_fs_struct or dup_fd for t.
LEMMA KindTake ==
  ASSUME IInv, SharersSound, NEW k \in Counted, NEW t \in Sharers, NEW x, Free(k, x),
         SameObjects(k), SameOutside(k), NoNewClaims(k),
         copy[t][k] = NoObj, copy'[t][k] = x,
         \A u \in Sharers : u # t => copy'[u][k] = copy[u][k] /\ sharerPc'[u] = sharerPc[u],
         sharerRefs'[k] = [sharerRefs[k] EXCEPT ![x] = 1]
  PROVE  KindInv(k)'
<1>1. KindInv(k) /\ sharerRefs[k] \in [Objects -> Nat]
  BY DEF IInv, UnshareTypeOK
<1>2. ASSUME NEW o \in Objects PROVE RefExact(k, o)'
  <2>1. UsedBy(k, o)' = UsedBy(k, o) /\ Outside(k, o)' = Outside(k, o)
    BY DEF UsedBy, SameObjects, SameOutside
  <2>2. CASE o = x
    <3>1. HeldBy(k, o)' = {t} /\ UsedBy(k, o) = {}
      BY <2>2 DEF HeldBy, UsedBy, Free
    <3>2. Cardinality({t}) = 1 /\ Cardinality({}) = 0
      BY FS_Singleton, FS_EmptySet, Zenon
    <3>3. sharerRefs'[k][o] = 1 /\ Outside(k, o) = 0
      BY <1>1, <2>2 DEF Free
    <3> QED
      BY <2>1, <3>1, <3>2, <3>3 DEF RefExact
  <2>3. CASE o # x
    <3>1. HeldBy(k, o)' = HeldBy(k, o)
      <4>1. o # NoObj
        BY DEF SharersSound, Objects
      <4> QED
        BY <2>3, <4>1 DEF HeldBy
    <3>2. sharerRefs'[k][o] = sharerRefs[k][o]
      BY <1>1, <2>3
    <3> QED
      BY <1>1, <2>1, <3>1, <3>2 DEF RefExact, KindInv
  <2> QED
    BY <2>2, <2>3
<1>3. ASSUME NEW u \in Sharers PROVE Apart(u, k)'
  <2>1. CASE u = t
    BY <2>1 DEF Apart, SameObjects, SameOutside, Free
  <2>2. CASE u # t
    <3>1. copy[u][k] # NoObj => copy[u][k] \in Objects
      BY DEF IInv, UnshareTypeOK, Counted
    <3> QED
      BY <1>1, <2>2, <3>1 DEF KindInv, Apart, SameObjects, SameOutside, Free
  <2> QED
    BY <2>1, <2>2
<1>4. ASSUME NEW u \in Sharers, Claims(u, k)' PROVE Alone(u, k)'
  BY <1>1, <1>4 DEF KindInv, Alone, SameObjects, NoNewClaims
<1> QED
  BY <1>2, <1>3, <1>4 DEF KindInv

\* The copy of t is installed; the call keeps the old object, or it is the
\* other users' by now.
LEMMA KindInstall ==
  ASSUME IInv, SharersSound, NEW k \in Counted, NEW t \in Sharers, SameOutside(k),
         sharerPc[t] \in Before, sharerPc'[t] \notin Before,
         copy[t][k] # NoObj, obj[t][k] \in Objects, obj'[t][k] = copy[t][k],
         \/ copy'[t][k] = obj[t][k] /\ sharerRefs'[k] = sharerRefs[k]
         \/ /\ copy'[t][k] = NoObj
            /\ sharerRefs'[k] = [sharerRefs[k] EXCEPT ![obj[t][k]] = @ - 1],
         \A u \in Sharers : u # t => /\ obj'[u][k] = obj[u][k] /\ copy'[u][k] = copy[u][k]
                                     /\ sharerPc'[u] = sharerPc[u]
                                     /\ Claims(u, k)' => Claims(u, k)
  PROVE  KindInv(k)'
<1> DEFINE x == obj[t][k]
           y == copy[t][k]
<1>1. KindInv(k) /\ sharerRefs[k] \in [Objects -> Nat] /\ y \in Objects /\ x # NoObj
  BY DEF IInv, UnshareTypeOK, Counted, SharersSound, Objects
<1>2. /\ \A u \in Sharers : obj[u][k] # y
      /\ \A u \in Sharers : u # t => copy[u][k] # y
      /\ Outside(k, y) = 0
  BY <1>1 DEF KindInv, Apart
<1>3. ASSUME NEW o \in Objects PROVE RefExact(k, o)'
  <2>0. /\ IsFiniteSet(UsedBy(k, o)) /\ Cardinality(UsedBy(k, o)) \in Nat
        /\ IsFiniteSet(HeldBy(k, o)) /\ Cardinality(HeldBy(k, o)) \in Nat
        /\ sharerRefs[k][o] = Cardinality(UsedBy(k, o)) + Cardinality(HeldBy(k, o))
                              + Outside(k, o)
        /\ Outside(k, o)' = Outside(k, o) /\ Outside(k, o) \in 0 .. 1
    BY Counts DEF SameOutside
  <2>1. CASE o = y
    <3>1. UsedBy(k, o)' = {t} /\ HeldBy(k, o)' = {} /\ UsedBy(k, o) = {} /\ HeldBy(k, o) = {t}
      BY <1>1, <1>2, <2>1 DEF UsedBy, HeldBy
    <3>2. /\ Cardinality(UsedBy(k, o)') = 1 /\ Cardinality(HeldBy(k, o)') = 0
          /\ Cardinality(UsedBy(k, o)) = 0 /\ Cardinality(HeldBy(k, o)) = 1
      <4>1. Cardinality({t}) = 1 /\ Cardinality({}) = 0
        BY FS_Singleton, FS_EmptySet, Zenon
      <4> QED
        BY <3>1, <4>1
    <3>3. sharerRefs'[k][o] = sharerRefs[k][o]
      BY <1>1, <1>2, <2>1
    <3> QED
      BY <2>0, <3>2, <3>3 DEF RefExact
  <2>2. CASE o = x
    <3>1. UsedBy(k, o)' = UsedBy(k, o) \ {t} /\ t \in UsedBy(k, o) /\ t \notin HeldBy(k, o)
      BY <1>2, <2>2 DEF UsedBy, HeldBy
    <3>2. Cardinality(UsedBy(k, o)') = Cardinality(UsedBy(k, o)) - 1
      BY <2>0, <3>1, FS_RemoveElement
    <3>3. CASE copy'[t][k] = obj[t][k] /\ sharerRefs'[k] = sharerRefs[k]
      <4>1. HeldBy(k, o)' = HeldBy(k, o) \cup {t}
        BY <2>2, <3>3 DEF HeldBy
      <4>2. Cardinality(HeldBy(k, o)') = Cardinality(HeldBy(k, o)) + 1
        BY <2>0, <3>1, <4>1, FS_AddElement
      <4> QED
        BY <2>0, <3>2, <3>3, <4>2 DEF RefExact
    <3>4. CASE /\ copy'[t][k] = NoObj
               /\ sharerRefs'[k] = [sharerRefs[k] EXCEPT ![obj[t][k]] = @ - 1]
      <4>1. HeldBy(k, o)' = HeldBy(k, o)
        BY <1>1, <1>2, <2>2, <3>4 DEF HeldBy
      <4>2. sharerRefs'[k][o] = sharerRefs[k][o] - 1
        BY <1>1, <2>2, <3>4
      <4> QED
        BY <2>0, <3>2, <4>1, <4>2 DEF RefExact
    <3> QED
      BY <3>3, <3>4
  <2>3. CASE o # x /\ o # y
    <3>1. o # NoObj
      BY DEF SharersSound, Objects
    <3>2. UsedBy(k, o)' = UsedBy(k, o) /\ HeldBy(k, o)' = HeldBy(k, o)
      BY <2>3, <3>1 DEF UsedBy, HeldBy
    <3>3. sharerRefs'[k][o] = sharerRefs[k][o]
      BY <1>1, <2>3
    <3> QED
      BY <2>0, <3>2, <3>3 DEF RefExact
  <2> QED
    BY <2>1, <2>2, <2>3
<1>4. ASSUME NEW u \in Sharers PROVE Apart(u, k)'
  <2>1. copy[u][k] # NoObj => copy[u][k] \in Objects
    BY DEF IInv, UnshareTypeOK, Counted
  <2>2. CASE u # t
    BY <1>1, <1>2, <2>1, <2>2 DEF KindInv, Apart, SameOutside
  <2> QED
    BY <2>2 DEF Apart
<1>5. ASSUME NEW u \in Sharers, Claims(u, k)' PROVE Alone(u, k)'
  <2>1. CASE u = t
    BY <1>2, <2>1 DEF Alone
  <2>2. CASE u # t
    BY <1>1, <1>2, <1>5, <2>2 DEF KindInv, Alone
  <2> QED
    BY <2>1, <2>2
<1> QED
  BY <1>3, <1>4, <1>5 DEF KindInv

\* What t holds of kind k is put.
LEMMA KindPut ==
  ASSUME IInv, SharersSound, NEW k \in Counted, NEW t \in Sharers, SameOutside(k),
         SameObjects(k), NoNewClaims(k), sharerPc'[t] \notin Before,
         copy[t][k] # NoObj, copy'[t][k] = NoObj,
         sharerRefs'[k] = [sharerRefs[k] EXCEPT ![copy[t][k]] = @ - 1],
         \A u \in Sharers : u # t => copy'[u][k] = copy[u][k] /\ sharerPc'[u] = sharerPc[u]
  PROVE  KindInv(k)'
<1> DEFINE y == copy[t][k]
<1>1. KindInv(k) /\ sharerRefs[k] \in [Objects -> Nat] /\ y \in Objects
  BY DEF IInv, UnshareTypeOK, Counted
<1>2. ASSUME NEW o \in Objects PROVE RefExact(k, o)'
  <2>0. /\ IsFiniteSet(UsedBy(k, o)) /\ Cardinality(UsedBy(k, o)) \in Nat
        /\ IsFiniteSet(HeldBy(k, o)) /\ Cardinality(HeldBy(k, o)) \in Nat
        /\ sharerRefs[k][o] = Cardinality(UsedBy(k, o)) + Cardinality(HeldBy(k, o))
                              + Outside(k, o)
        /\ Outside(k, o)' = Outside(k, o) /\ Outside(k, o) \in 0 .. 1
        /\ UsedBy(k, o)' = UsedBy(k, o)
    BY Counts DEF SameOutside, UsedBy, SameObjects
  <2>1. CASE o = y
    <3>1. HeldBy(k, o)' = HeldBy(k, o) \ {t} /\ t \in HeldBy(k, o)
      BY <2>1 DEF HeldBy
    <3>2. Cardinality(HeldBy(k, o)') = Cardinality(HeldBy(k, o)) - 1
      BY <2>0, <3>1, FS_RemoveElement
    <3>3. sharerRefs'[k][o] = sharerRefs[k][o] - 1
      BY <1>1, <2>1
    <3> QED
      BY <2>0, <3>2, <3>3 DEF RefExact
  <2>2. CASE o # y
    <3>1. o # NoObj
      BY DEF SharersSound, Objects
    <3>2. HeldBy(k, o)' = HeldBy(k, o)
      BY <2>2, <3>1 DEF HeldBy
    <3>3. sharerRefs'[k][o] = sharerRefs[k][o]
      BY <1>1, <2>2
    <3> QED
      BY <2>0, <3>2, <3>3 DEF RefExact
  <2> QED
    BY <2>1, <2>2
<1>3. ASSUME NEW u \in Sharers PROVE Apart(u, k)'
  <2>1. copy[u][k] # NoObj => copy[u][k] \in Objects
    BY DEF IInv, UnshareTypeOK, Counted
  <2>2. CASE u # t
    BY <1>1, <2>1, <2>2 DEF KindInv, Apart, SameOutside, SameObjects
  <2> QED
    BY <2>2 DEF Apart
<1>4. ASSUME NEW u \in Sharers, Claims(u, k)' PROVE Alone(u, k)'
  BY <1>1, <1>4 DEF KindInv, Alone, SameObjects, NoNewClaims
<1> QED
  BY <1>2, <1>3, <1>4 DEF KindInv

\* A new task begins to use x, which t uses, or which is fresh.
LEMMA KindJoin ==
  ASSUME IInv, SharersSound, NEW k \in Counted, NEW u \in Sharers, NEW x \in Objects,
         SameOutside(k), SameCopies(k), obj[u][k] = NoObj, obj'[u][k] = x,
         sharerRefs'[k] = [sharerRefs[k] EXCEPT ![x] = @ + 1],
         \A w \in Sharers : w # u => obj'[w][k] = obj[w][k] /\ sharerPc'[w] = sharerPc[w],
         sharerPc'[u] = "user", NoNewClaims(k), ~Claims(u, k)',
         \/ Free(k, x)
         \/ \E t \in Sharers : x = obj[t][k] /\ ~Claims(t, k)'
  PROVE  KindInv(k)'
<1>1. KindInv(k) /\ sharerRefs[k] \in [Objects -> Nat] /\ x # NoObj
  BY DEF IInv, UnshareTypeOK, SharersSound, Objects
<1>2. ASSUME NEW o \in Objects PROVE RefExact(k, o)'
  <2>0. /\ IsFiniteSet(UsedBy(k, o)) /\ Cardinality(UsedBy(k, o)) \in Nat
        /\ IsFiniteSet(HeldBy(k, o)) /\ Cardinality(HeldBy(k, o)) \in Nat
        /\ sharerRefs[k][o] = Cardinality(UsedBy(k, o)) + Cardinality(HeldBy(k, o))
                              + Outside(k, o)
        /\ Outside(k, o)' = Outside(k, o) /\ Outside(k, o) \in 0 .. 1
        /\ HeldBy(k, o)' = HeldBy(k, o)
    BY Counts DEF SameOutside, HeldBy, SameCopies
  <2>1. CASE o = x
    <3>1. UsedBy(k, o)' = UsedBy(k, o) \cup {u} /\ u \notin UsedBy(k, o)
      BY <1>1, <2>1 DEF UsedBy
    <3>2. Cardinality(UsedBy(k, o)') = Cardinality(UsedBy(k, o)) + 1
      BY <2>0, <3>1, FS_AddElement
    <3>3. sharerRefs'[k][o] = sharerRefs[k][o] + 1
      BY <1>1, <2>1
    <3> QED
      BY <2>0, <3>2, <3>3 DEF RefExact
  <2>2. CASE o # x
    <3>1. o # NoObj
      BY DEF SharersSound, Objects
    <3>2. UsedBy(k, o)' = UsedBy(k, o)
      BY <2>2, <3>1 DEF UsedBy
    <3>3. sharerRefs'[k][o] = sharerRefs[k][o]
      BY <1>1, <2>2
    <3> QED
      BY <2>0, <3>2, <3>3 DEF RefExact
  <2> QED
    BY <2>1, <2>2
<1>3. ASSUME NEW w \in Sharers PROVE Apart(w, k)'
  <2>1. copy[w][k] # NoObj => copy[w][k] \in Objects
    BY DEF IInv, UnshareTypeOK, Counted
  <2>2. CASE w # u
    BY <1>1, <2>1, <2>2 DEF KindInv, Apart, SameOutside, SameCopies, Free
  <2>3. CASE w = u
    BY <2>3 DEF Apart, Before
  <2> QED
    BY <2>2, <2>3
<1>4. ASSUME NEW w \in Sharers, Claims(w, k)' PROVE Alone(w, k)'
  <2>1. w # u /\ Alone(w, k)
    BY <1>1, <1>4 DEF KindInv, NoNewClaims
  <2>2. obj[w][k] # x
    BY <1>4, <2>1 DEF Alone, Free
  <2> QED
    BY <2>1, <2>2 DEF Alone
<1> QED
  BY <1>2, <1>3, <1>4 DEF KindInv

\* t leaves the object it uses.
LEMMA KindLeave ==
  ASSUME IInv, SharersSound, NEW k \in Counted, NEW t \in Sharers,
         SameOutside(k), SameCopies(k), NoNewCopies(k), obj[t][k] \in Objects,
         obj'[t][k] = NoObj,
         sharerRefs'[k] = [sharerRefs[k] EXCEPT ![obj[t][k]] = @ - 1],
         \A w \in Sharers : w # t => obj'[w][k] = obj[w][k],
         NoNewClaims(k), ~Claims(t, k)'
  PROVE  KindInv(k)'
<1> DEFINE x == obj[t][k]
<1>1. KindInv(k) /\ sharerRefs[k] \in [Objects -> Nat]
  BY DEF IInv, UnshareTypeOK
<1>2. ASSUME NEW o \in Objects PROVE RefExact(k, o)'
  <2>0. /\ IsFiniteSet(UsedBy(k, o)) /\ Cardinality(UsedBy(k, o)) \in Nat
        /\ IsFiniteSet(HeldBy(k, o)) /\ Cardinality(HeldBy(k, o)) \in Nat
        /\ sharerRefs[k][o] = Cardinality(UsedBy(k, o)) + Cardinality(HeldBy(k, o))
                              + Outside(k, o)
        /\ Outside(k, o)' = Outside(k, o) /\ Outside(k, o) \in 0 .. 1
        /\ HeldBy(k, o)' = HeldBy(k, o)
    BY Counts DEF SameOutside, HeldBy, SameCopies
  <2>1. o # NoObj
    BY DEF SharersSound, Objects
  <2>2. CASE o = x
    <3>1. UsedBy(k, o)' = UsedBy(k, o) \ {t} /\ t \in UsedBy(k, o)
      BY <2>1, <2>2 DEF UsedBy
    <3>2. Cardinality(UsedBy(k, o)') = Cardinality(UsedBy(k, o)) - 1
      BY <2>0, <3>1, FS_RemoveElement
    <3>3. sharerRefs'[k][o] = sharerRefs[k][o] - 1
      BY <1>1, <2>2
    <3> QED
      BY <2>0, <3>2, <3>3 DEF RefExact
  <2>3. CASE o # x
    <3>1. UsedBy(k, o)' = UsedBy(k, o)
      BY <2>1, <2>3 DEF UsedBy
    <3>2. sharerRefs'[k][o] = sharerRefs[k][o]
      BY <1>1, <2>3
    <3> QED
      BY <2>0, <3>1, <3>2 DEF RefExact
  <2> QED
    BY <2>2, <2>3
<1>3. ASSUME NEW w \in Sharers PROVE Apart(w, k)'
  <2>1. copy[w][k] # NoObj => copy[w][k] \in Objects
    BY DEF IInv, UnshareTypeOK, Counted
  <2> QED
    BY <1>1, <2>1 DEF KindInv, Apart, SameOutside, SameCopies, NoNewCopies
<1>4. ASSUME NEW w \in Sharers, Claims(w, k)' PROVE Alone(w, k)'
  <2>1. w # t /\ Alone(w, k)
    BY <1>1, <1>4 DEF KindInv, NoNewClaims
  <2>2. obj[w][k] # NoObj
    <3>1. Claims(w, k)
      BY <1>4 DEF NoNewClaims
    <3>2. sharerPc[w] # "none"
      BY <3>1 DEF IInv, TaskInv, Claims, After
    <3> QED
      BY <3>2 DEF IInv, TaskInv, SharersSound, Objects, Counted, ShareKinds
  <2> QED
    BY <2>1, <2>2 DEF Alone
<1> QED
  BY <1>2, <1>3, <1>4 DEF KindInv

\* A reference from outside comes or goes.
LEMMA KindGuest ==
  ASSUME IInv, SharersSound, NEW x \in Objects, NEW g \in 0 .. 1,
         SameObjects("files"), SameCopies("files"), NoNewCopies("files"), NoNewClaims("files"),
         guests' = [guests EXCEPT ![x] = g],
         sharerRefs'["files"] = [sharerRefs["files"] EXCEPT ![x] = @ + g - guests[x]],
         g = 1 => \E t \in Sharers : obj[t]["files"] = x
  PROVE  KindInv("files")'
<1> DEFINE k == "files"
<1>1. /\ KindInv(k) /\ sharerRefs[k] \in [Objects -> Nat] /\ guests \in [Objects -> 0 .. 1]
      /\ k \in Counted
  BY DEF IInv, UnshareTypeOK, Counted
<1>2. ASSUME NEW o \in Objects PROVE RefExact(k, o)'
  <2>1. /\ Cardinality(UsedBy(k, o)) \in Nat /\ Cardinality(HeldBy(k, o)) \in Nat
        /\ sharerRefs[k][o] = Cardinality(UsedBy(k, o)) + Cardinality(HeldBy(k, o)) + guests[o]
    BY <1>1, Counts DEF Outside
  <2>2. UsedBy(k, o)' = UsedBy(k, o) /\ HeldBy(k, o)' = HeldBy(k, o)
    BY DEF UsedBy, HeldBy, SameObjects, SameCopies
  <2>3. Outside(k, o)' = IF o = x THEN g ELSE guests[o]
    BY <1>1 DEF Outside
  <2>4. sharerRefs'[k][o] = IF o = x THEN sharerRefs[k][o] + g - guests[o] ELSE sharerRefs[k][o]
    BY <1>1
  <2>5. sharerRefs[k][o] \in Nat /\ guests[o] \in 0 .. 1
    BY <1>1
  <2>6. sharerRefs'[k][o] = Cardinality(UsedBy(k, o)) + Cardinality(HeldBy(k, o))
                            + Outside(k, o)'
    BY <2>1, <2>3, <2>4, <2>5
  <2> QED
    BY <2>2, <2>6 DEF RefExact
<1>3. ASSUME NEW u \in Sharers PROVE Apart(u, k)'
  <2>1. copy[u][k] # NoObj => copy[u][k] \in Objects
    BY DEF IInv, UnshareTypeOK, Counted
  <2> QED
    BY <1>1, <2>1 DEF KindInv, Apart, SameObjects, SameCopies, NoNewCopies, Outside
<1>4. ASSUME NEW u \in Sharers, Claims(u, k)' PROVE Alone(u, k)'
  BY <1>1, <1>4 DEF KindInv, Alone, SameObjects, NoNewClaims
<1> QED
  BY <1>2, <1>3, <1>4 DEF KindInv

\* There is an object that nobody uses, as long as one call has no copy: each
\* task uses one, each other call holds one, and one is held from outside.
LEMMA Room ==
  ASSUME IInv, SharersSound, NEW k, NEW t \in Sharers
  PROVE  \E o \in Objects : /\ \A u \in Sharers : obj[u][k] # o
                            /\ \A u \in Sharers \ {t} : copy[u][k] # o
                            /\ guests[o] # 1
<1> DEFINE n == Cardinality(Sharers)
           f == [u \in Sharers |-> obj[u][k]]
           g == [u \in Sharers \ {t} |-> copy[u][k]]
           A == {f[u] : u \in Sharers}
           B == {g[u] : u \in Sharers \ {t}}
           C == {o \in Objects : guests[o] = 1}
<1>1. n \in Nat /\ IsFiniteSet(Sharers \ {t}) /\ Cardinality(Sharers \ {t}) = n - 1
  BY FS_CardinalityType, FS_RemoveElement DEF SharersSound
<1>2. IsFiniteSet(A) /\ Cardinality(A) <= n
  <2>1. f = [u \in Sharers |-> f[u]]
    OBVIOUS
  <2> HIDE DEF f
  <2> QED
    BY <2>1, ImageBound DEF SharersSound
<1>3. IsFiniteSet(B) /\ Cardinality(B) <= n - 1
  <2>1. g = [u \in Sharers \ {t} |-> g[u]]
    OBVIOUS
  <2> HIDE DEF g
  <2>2. IsFiniteSet(B) /\ Cardinality(B) <= Cardinality(Sharers \ {t})
    BY <1>1, <2>1, ImageBound
  <2> QED
    BY <1>1, <2>2
<1>4. IsFiniteSet(C) /\ Cardinality(C) <= 1
  <2>1. CASE C = {}
    BY <2>1, FS_EmptySet
  <2>2. CASE C # {}
    <3>1. PICK c : c \in C
      BY <2>2
    <3>2. C = {c}
      BY <3>1 DEF IInv, GuestInv
    <3>3. IsFiniteSet({c}) /\ Cardinality({c}) = 1
      BY FS_Singleton, Zenon
    <3> HIDE DEF C
    <3> QED
      BY <3>2, <3>3
  <2> QED
    BY <2>1, <2>2
<1> HIDE DEF A, B, C
<1>5. IsFiniteSet(A \cup B) /\ Cardinality(A \cup B) <= 2 * n - 1
  <2>1. IsFiniteSet(A \cap B) /\ Cardinality(A \cap B) \in Nat
    BY <1>2, FS_Intersection, FS_CardinalityType
  <2>2. /\ IsFiniteSet(A \cup B)
        /\ Cardinality(A \cup B) = Cardinality(A) + Cardinality(B) - Cardinality(A \cap B)
    BY <1>2, <1>3, FS_Union
  <2>3. Cardinality(A) \in Nat /\ Cardinality(B) \in Nat
    BY <1>2, <1>3, FS_CardinalityType
  <2> QED
    BY <1>1, <1>2, <1>3, <2>1, <2>2, <2>3
<1>6. IsFiniteSet((A \cup B) \cup C) /\ Cardinality((A \cup B) \cup C) <= 2 * n
  <2> DEFINE D == A \cup B
  <2>0. IsFiniteSet(D) /\ Cardinality(D) <= 2 * n - 1
    BY <1>5
  <2> HIDE DEF D
  <2>1. IsFiniteSet(D \cap C) /\ Cardinality(D \cap C) \in Nat
    BY <2>0, FS_Intersection, FS_CardinalityType
  <2>2. /\ IsFiniteSet(D \cup C)
        /\ Cardinality(D \cup C) = Cardinality(D) + Cardinality(C) - Cardinality(D \cap C)
    BY <1>4, <2>0, FS_Union
  <2>3. Cardinality(D) \in Nat /\ Cardinality(C) \in Nat
    BY <1>4, <2>0, FS_CardinalityType
  <2>4. IsFiniteSet(D \cup C) /\ Cardinality(D \cup C) <= 2 * n
    BY <1>1, <1>4, <2>0, <2>1, <2>2, <2>3
  <2> QED
    BY <2>4 DEF D
<1>7. IsFiniteSet(Objects) /\ Cardinality(Objects) = 2 * n + 1
  <2>1. 1 \in Int /\ 2 * n + 1 \in Int /\ ~(1 > 2 * n + 1)
    BY <1>1
  <2> QED
    BY <2>1, FS_Interval DEF Objects
<1>8. PICK o \in Objects : o \notin (A \cup B) \cup C
  <2>1. SUFFICES ASSUME Objects \subseteq (A \cup B) \cup C PROVE FALSE
    OBVIOUS
  <2>2. Cardinality(Objects) <= Cardinality((A \cup B) \cup C)
    BY <1>6, <2>1, FS_Subset
  <2>3. Cardinality((A \cup B) \cup C) \in Nat
    BY <1>6, FS_CardinalityType
  <2> QED
    BY <1>1, <1>6, <1>7, <2>2, <2>3
<1> QED
  BY <1>8 DEF A, B, C

\* What the allocator returns is nobody's.
LEMMA FreshIsFree ==
  ASSUME IInv, SharersSound, NEW k \in ShareKinds, NEW t \in Sharers,
         k \in Counted => copy[t][k] = NoObj
  PROVE  /\ Fresh(k) \in Objects
         /\ k \in Counted => Free(k, Fresh(k))
<1>0. NoObj \notin Objects
  BY DEF SharersSound, Objects
<1>1. PICK o \in Objects : /\ \A u \in Sharers : obj[u][k] # o
                           /\ \A u \in Sharers \ {t} : copy[u][k] # o
                           /\ guests[o] # 1
  BY Room
<1>2. ASSUME k \in Counted PROVE sharerRefs[k][o] = 0
  <2>1. UsedBy(k, o) = {} /\ HeldBy(k, o) = {}
    BY <1>0, <1>1, <1>2 DEF UsedBy, HeldBy
  <2>2. Cardinality({}) = 0
    BY FS_EmptySet
  <2>3. Outside(k, o) = 0
    BY <1>1 DEF Outside, IInv, UnshareTypeOK
  <2>4. Cardinality(UsedBy(k, o)) = 0 /\ Cardinality(HeldBy(k, o)) = 0
    BY <2>1, <2>2
  <2>5. sharerRefs[k][o] = Cardinality(UsedBy(k, o)) + Cardinality(HeldBy(k, o))
                          + Outside(k, o)
    BY <1>2, Counts
  <2> QED
    BY <2>3, <2>4, <2>5
<1>3. /\ Fresh(k) \in Objects
      /\ \A u \in Live : obj[u][k] # Fresh(k)
      /\ k \in Counted => sharerRefs[k][Fresh(k)] = 0
  <2>1. \E x \in Objects : /\ \A u \in Live : obj[u][k] # x
                           /\ k \in Counted => sharerRefs[k][x] = 0
    BY <1>1, <1>2 DEF Live
  <2> QED
    BY <2>1, Zenon DEF Fresh
<1>4. ASSUME k \in Counted PROVE Free(k, Fresh(k))
  <2> DEFINE x == Fresh(k)
  <2>1. /\ Cardinality(UsedBy(k, x)) = 0 /\ IsFiniteSet(UsedBy(k, x))
        /\ Cardinality(HeldBy(k, x)) = 0 /\ IsFiniteSet(HeldBy(k, x))
        /\ Outside(k, x) = 0
    BY <1>3, <1>4, Counts
  <2>2. UsedBy(k, x) = {} /\ HeldBy(k, x) = {}
    BY <2>1, FS_EmptySet
  <2> QED
    BY <1>3, <1>4, <2>1, <2>2 DEF Free, UsedBy, HeldBy
<1> QED
  BY <1>3, <1>4

\* The object of a task whose counter is one is that task's alone.
LEMMA OneIsAlone ==
  ASSUME IInv, SharersSound, NEW k \in Counted, NEW t \in Sharers, obj[t][k] \in Objects,
         sharerRefs[k][obj[t][k]] <= 1
  PROVE  Alone(t, k)
<1> DEFINE o == obj[t][k]
<1>1. t \in UsedBy(k, o)
  BY DEF UsedBy
<1>2. IsFiniteSet(UsedBy(k, o)) /\ Cardinality(UsedBy(k, o)) <= 1
  BY Counts
<1>3. Cardinality(UsedBy(k, o)) # 0
  BY <1>1, <1>2, FS_EmptySet
<1>4. Cardinality(UsedBy(k, o)) = 1
  BY <1>2, <1>3, FS_CardinalityType
<1>5. PICK x : UsedBy(k, o) = {x}
  BY <1>2, <1>4, FS_Singleton, Zenon
<1> QED
  BY <1>1, <1>5 DEF UsedBy, Alone

-----------------------------------------------------------------------------
\* Nothing changes for the task u.
SameTask(u) ==
  /\ sharerPc'[u] = sharerPc[u] /\ unshareFlags'[u] = unshareFlags[u]
  /\ sharerOwn'[u] = sharerOwn[u]
  /\ (u \in cred' <=> u \in cred) /\ (u \in ns' <=> u \in ns)
  /\ \A k \in ShareKinds : obj'[u][k] = obj[u][k]
  /\ \A k \in Counted : copy'[u][k] = copy[u][k]

\* A task that a step is not about.
LEMMA SameKept ==
  ASSUME NEW u \in Sharers, TaskInv(u), SameTask(u)
  PROVE  /\ TaskInv(u)'
         /\ \A k \in Counted : Claims(u, k)' <=> Claims(u, k)
<1>1. copy'[u]["fs"] = copy[u]["fs"] /\ copy'[u]["files"] = copy[u]["files"]
  BY DEF SameTask, Counted
<1>2. TaskInv(u)'
  BY <1>1 DEF SameTask, TaskInv
<1>3. \A k \in Counted : Claims(u, k)' <=> Claims(u, k)
  BY DEF SameTask, Claims, After, Flag
<1> QED
  BY <1>2, <1>3

\* A step of t within its call: no object, copy or counter moves.
LEMMA CallStep ==
  ASSUME IInv, SharersSound, NEW t \in Sharers, UNCHANGED <<objVars, copy>>,
         \A u \in Sharers : u # t => SameTask(u),
         UnshareTypeOK', sharerPc' \in [Sharers -> Points], DOMAIN unshareFlags' = Sharers,
         TaskInv(t)',
         \A k \in Counted : /\ Claims(t, k)' => Claims(t, k) \/ Alone(t, k)
                            /\ sharerPc'[t] \in Before /\ copy[t][k] # NoObj =>
                                 sharerPc[t] \in Before
  PROVE  IInv'
<1> USE DEF objVars
<1>1. ASSUME NEW u \in Sharers PROVE TaskInv(u)'
  BY SameKept DEF IInv
<1>2. ASSUME NEW k \in Counted PROVE KindInv(k)'
  <2>1. SameObjects(k) /\ SameCopies(k) /\ SameOutside(k) /\ sharerRefs'[k] = sharerRefs[k]
    BY DEF SameObjects, SameCopies, SameOutside, Outside
  <2>2. NoNewCopies(k)
    BY DEF NoNewCopies, SameTask
  <2>3. ASSUME NEW u \in Sharers, Claims(u, k)' PROVE Claims(u, k) \/ Alone(u, k)
    BY <2>3, SameKept DEF IInv
  <2> QED
    BY <2>1, <2>2, <2>3, KindSame
<1>3. GuestInv'
  BY DEF IInv, GuestInv
<1> QED
  BY <1>1, <1>2, <1>3 DEF IInv

\* The flags that were asked for bring those with them that the call needs.
LEMMA ClosedHasFs ==
  ASSUME NEW f, Closed(f) \cap {"NEWNS", "NEWUSER"} # {}
  PROVE  "FS" \in Closed(f)
  BY DEF Closed

\* ksys_unshare begins.
LEMMA KsysUnshareKeeps ==
  ASSUME IInv, SharersSound, NEW t \in Sharers, NEW f, KsysUnshare(t, f)
  PROVE  IInv'
<1> USE DEF KsysUnshare, OneMore, ShareGoto, objVars, nsVars
<1>1. \A u \in Sharers : u # t => SameTask(u)
  BY DEF SameTask, IInv
<1>2. UnshareTypeOK'
  BY DEF IInv, UnshareTypeOK, SharersSound
<1>3. /\ sharerPc' \in [Sharers -> Points] /\ DOMAIN unshareFlags' = Sharers
      /\ sharerPc[t] = "user" /\ TaskInv(t)
  BY DEF IInv, Points
<1>4. CASE unshareFlags' = unshareFlags /\ sharerPc' = sharerPc
  <2>1. SameTask(t)
    BY <1>4 DEF SameTask
  <2>2. TaskInv(t)' /\ \A k \in Counted : Claims(t, k)' => Claims(t, k)
    BY <1>3, <2>1, SameKept
  <2> QED
    BY <1>1, <1>2, <1>3, <1>4, <2>2, CallStep
<1>5. CASE unshareFlags'[t] = Closed(f) /\ sharerPc'[t] = "fs"
  <2>1. TaskInv(t)'
    BY <1>3, <1>5, ClosedHasFs DEF TaskInv
  <2>2. \A k \in Counted : Claims(t, k)' => Claims(t, k)
    BY <1>5 DEF Claims, After
  <2>3. sharerPc'[t] \notin Before
    BY <1>5 DEF Before
  <2> QED
    BY <1>1, <1>2, <1>3, <2>1, <2>2, <2>3, CallStep
<1> QED
  BY <1>4, <1>5 DEF IInv

\* unshare_files begins.
LEMMA UnshareFilesKeeps ==
  ASSUME IInv, SharersSound, NEW t \in Sharers, UnshareFiles(t)
  PROVE  IInv'
<1> USE DEF UnshareFiles, OneMore, ShareGoto, objVars, nsVars
<1>1. \A u \in Sharers : u # t => SameTask(u)
  BY DEF SameTask, IInv
<1>2. UnshareTypeOK'
  BY DEF IInv, UnshareTypeOK, SharersSound
<1>3. /\ sharerPc' \in [Sharers -> Points] /\ DOMAIN unshareFlags' = Sharers
      /\ sharerPc[t] = "user" /\ TaskInv(t)
      /\ unshareFlags'[t] = {"FILES"} /\ sharerPc'[t] = "fd_exec"
  BY DEF IInv, Points
<1>4. TaskInv(t)'
  BY <1>3 DEF TaskInv
<1>5. \A k \in Counted : Claims(t, k)' => Claims(t, k)
  BY <1>3 DEF Claims, After
<1>6. sharerPc'[t] \notin Before
  BY <1>3 DEF Before
<1> QED
  BY <1>1, <1>2, <1>3, <1>4, <1>5, <1>6, CallStep

\* The namespaces are made, or one of the calls fails.
LEMMA NamespacesKeep ==
  ASSUME IInv, SharersSound, NEW t \in Sharers,
         \/ Namespaces(t)
         \/ \E call \in {"userns", "nsproxy", "ucounts"} : NamespacesFail(t, call)
  PROVE  IInv'
<1> USE DEF Namespaces, NamespacesFail, ShareGoto, objVars, nsVars
<1>1. \A u \in Sharers : u # t => SameTask(u)
  BY DEF SameTask, IInv
<1>2. UnshareTypeOK'
  BY DEF IInv, UnshareTypeOK
<1>3. /\ sharerPc' \in [Sharers -> Points] /\ DOMAIN unshareFlags' = Sharers
      /\ sharerPc[t] = "cred" /\ TaskInv(t)
      /\ unshareFlags' = unshareFlags /\ copy' = copy /\ sharerOwn' = sharerOwn /\ obj' = obj
      /\ sharerPc'[t] \in {"commit", "put_fd", "put_cred"}
      /\ t \in cred' => sharerPc'[t] \in {"commit", "put_cred"}
      /\ t \in ns' => sharerPc'[t] = "commit"
  BY DEF IInv, Points, TaskInv
<1> HIDE DEF Namespaces, NamespacesFail
<1>4. TaskInv(t)'
  BY <1>3 DEF TaskInv
<1>5. \A k \in Counted : Claims(t, k)' => Claims(t, k)
  BY <1>3 DEF Claims, After
<1>6. sharerPc[t] \in Before
  BY <1>3 DEF Before
<1>7. UNCHANGED <<objVars, copy>>
  BY DEF Namespaces, NamespacesFail
<1> QED
  BY <1>1, <1>2, <1>3, <1>4, <1>5, <1>6, <1>7, CallStep

\* copy_fs_struct or dup_fd fails.
LEMMA UnshareFailsKeeps ==
  ASSUME IInv, SharersSound, NEW t \in Sharers, UnshareFails(t)
  PROVE  IInv'
<1> USE DEF UnshareFails, ShareGoto, objVars, nsVars
<1>1. \A u \in Sharers : u # t => SameTask(u)
  BY DEF SameTask, IInv
<1>2. UnshareTypeOK'
  BY DEF IInv, UnshareTypeOK
<1>3. /\ sharerPc' \in [Sharers -> Points] /\ DOMAIN unshareFlags' = Sharers
      /\ TaskInv(t)
      /\ unshareFlags' = unshareFlags /\ copy' = copy /\ sharerOwn' = sharerOwn /\ obj' = obj
      /\ cred' = cred /\ ns' = ns
      /\ \/ sharerPc[t] \in {"fs", "fd_exec"} /\ sharerPc'[t] = "out"
         \/ sharerPc[t] = "fd" /\ sharerPc'[t] = "put_fs"
  BY DEF IInv, Points
<1>7. UNCHANGED <<objVars, copy>>
  OBVIOUS
<1> HIDE DEF UnshareFails
<1>4. TaskInv(t)'
  BY <1>3 DEF TaskInv
<1>5. \A k \in Counted : Claims(t, k)' => Claims(t, k)
  BY <1>3 DEF Claims, After
<1>6. sharerPc'[t] \notin Before
  BY <1>3 DEF Before
<1> QED
  BY <1>1, <1>2, <1>3, <1>4, <1>5, <1>6, <1>7, CallStep

\* bad_unshare_cleanup_cred, or the end of a success.
LEMMA PutCredKeeps ==
  ASSUME IInv, SharersSound, NEW t \in Sharers, PutCred(t)
  PROVE  IInv'
<1> USE DEF PutCred, ShareGoto, objVars, nsVars
<1>1. \A u \in Sharers : u # t => SameTask(u)
  BY DEF SameTask, IInv
<1>2. UnshareTypeOK'
  BY DEF IInv, UnshareTypeOK
<1>3. /\ sharerPc' \in [Sharers -> Points] /\ DOMAIN unshareFlags' = Sharers
      /\ TaskInv(t)
      /\ unshareFlags' = unshareFlags /\ copy' = copy /\ sharerOwn' = sharerOwn /\ obj' = obj
      /\ t \notin cred' /\ ns' = ns
      /\ sharerPc[t] = "put_cred" /\ sharerPc'[t] = "put_fd"
  BY DEF IInv, Points
<1>7. UNCHANGED <<objVars, copy>>
  OBVIOUS
<1> HIDE DEF PutCred
<1>4. TaskInv(t)'
  BY <1>3 DEF TaskInv
<1>5. \A k \in Counted : Claims(t, k)' => Claims(t, k)
  BY <1>3 DEF Claims, After
<1>6. sharerPc'[t] \notin Before
  BY <1>3 DEF Before
<1> QED
  BY <1>1, <1>2, <1>3, <1>4, <1>5, <1>6, <1>7, CallStep

\* The parts of the invariant, put together for a step of t.
LEMMA StepKeeps ==
  ASSUME IInv, NEW t \in Sharers, \A u \in Sharers : u # t => SameTask(u),
         UnshareTypeOK', sharerPc' \in [Sharers -> Points], DOMAIN unshareFlags' = Sharers,
         TaskInv(t)', KindInv("fs")', KindInv("files")', GuestInv'
  PROVE  IInv'
<1>1. ASSUME NEW u \in Sharers PROVE TaskInv(u)'
  BY SameKept DEF IInv
<1>2. \A k \in Counted : KindInv(k)'
  BY DEF Counted
<1> QED
  BY <1>1, <1>2 DEF IInv

\* TakeCopy for t: the types, the other tasks and the other kind.
LEMMA TakeEffect ==
  ASSUME IInv, SharersSound, NEW t \in Sharers, NEW k \in Counted, copy[t][k] = NoObj,
         TakeCopy(t, k)
  PROVE  /\ Free(k, Fresh(k)) /\ copy'[t][k] = Fresh(k) /\ copy'[t][k] # NoObj
         /\ sharerRefs'[k] = [sharerRefs[k] EXCEPT ![Fresh(k)] = 1]
         /\ \A j \in Counted : j # k => /\ sharerRefs'[j] = sharerRefs[j]
                                        /\ copy'[t][j] = copy[t][j]
         /\ \A u \in Sharers : u # t => copy'[u] = copy[u]
         /\ copy' \in [Sharers -> [Counted -> Objects \cup {NoObj}]]
         /\ sharerRefs' \in [Counted -> [Objects -> Nat]]
         /\ obj' = obj /\ guests' = guests
<1>1. Fresh(k) \in Objects /\ Free(k, Fresh(k))
  BY FreshIsFree DEF Counted, ShareKinds
<1> DEFINE x == Fresh(k)
<1>2. x # NoObj
  BY <1>1 DEF SharersSound, Objects
<1>3. /\ copy' = [copy EXCEPT ![t][k] = x] /\ sharerRefs' = [sharerRefs EXCEPT ![k][x] = 1]
      /\ obj' = obj /\ guests' = guests
  BY DEF TakeCopy
<1>4. /\ copy \in [Sharers -> [Counted -> Objects \cup {NoObj}]]
      /\ sharerRefs \in [Counted -> [Objects -> Nat]]
  BY DEF IInv, UnshareTypeOK
<1> HIDE DEF x
<1>5. /\ copy' \in [Sharers -> [Counted -> Objects \cup {NoObj}]]
      /\ copy'[t][k] = x /\ \A u \in Sharers : u # t => copy'[u] = copy[u]
      /\ \A j \in Counted : j # k => copy'[t][j] = copy[t][j]
  BY <1>1, <1>3, <1>4 DEF x
<1>6. /\ sharerRefs' \in [Counted -> [Objects -> Nat]]
      /\ sharerRefs'[k] = [sharerRefs[k] EXCEPT ![x] = 1]
      /\ \A j \in Counted : j # k => sharerRefs'[j] = sharerRefs[j]
  BY <1>1, <1>3, <1>4 DEF x
<1> QED
  BY <1>1, <1>2, <1>3, <1>5, <1>6 DEF x

\* unshare_fs: a copy, or the counter says that there is no need of one.
LEMMA UnshareFsKeeps ==
  ASSUME IInv, SharersSound, NEW t \in Sharers, UnshareFs(t)
  PROVE  IInv'
<1> USE DEF UnshareFs, ShareGoto, nsVars
<1>1. /\ sharerPc' \in [Sharers -> Points] /\ unshareFlags' = unshareFlags
      /\ DOMAIN unshareFlags' = Sharers
      /\ cred' = cred /\ ns' = ns /\ lostNs' = lostNs /\ calls' = calls
      /\ sharerOwn' = sharerOwn /\ sharerPc[t] = "fs" /\ sharerPc'[t] = "fd"
      /\ \A u \in Sharers : u # t => sharerPc'[u] = sharerPc[u]
      /\ TaskInv(t)
  BY DEF IInv, Points
<1>2. /\ copy[t]["fs"] = NoObj /\ copy[t]["files"] = NoObj
      /\ \A k \in ShareKinds : obj[t][k] \in Objects
      /\ t \notin cred /\ t \notin ns /\ "fs" \in Counted /\ "files" \in Counted
  BY <1>1 DEF TaskInv, Counted
<1>3. CASE "FS" \in unshareFlags[t] /\ sharerRefs["fs"][obj[t]["fs"]] # 1
  <2>1. TakeCopy(t, "fs")
    BY <1>3
  <2> HIDE DEF UnshareFs
  <2>2. /\ Free("fs", Fresh("fs")) /\ copy'[t]["fs"] = Fresh("fs") /\ copy'[t]["fs"] # NoObj
        /\ sharerRefs'["fs"] = [sharerRefs["fs"] EXCEPT ![Fresh("fs")] = 1]
        /\ sharerRefs'["files"] = sharerRefs["files"] /\ copy'[t]["files"] = NoObj
        /\ \A u \in Sharers : u # t => copy'[u] = copy[u]
        /\ copy' \in [Sharers -> [Counted -> Objects \cup {NoObj}]]
        /\ sharerRefs' \in [Counted -> [Objects -> Nat]]
        /\ obj' = obj /\ guests' = guests
    BY <1>2, <2>1, TakeEffect
  <2>3. UnshareTypeOK'
    BY <1>1, <2>2 DEF IInv, UnshareTypeOK
  <2>4. \A u \in Sharers : u # t => SameTask(u)
    BY <1>1, <2>2 DEF SameTask
  <2>5. TaskInv(t)'
    BY <1>1, <1>2, <2>2 DEF TaskInv
  <2>6. \A k \in Counted : SameObjects(k) /\ SameOutside(k)
    BY <2>2 DEF SameObjects, SameOutside, Outside
  <2>7. NoNewClaims("fs") /\ NoNewClaims("files")
    <3>1. \A u \in Sharers : u # t => \A k \in Counted : Claims(u, k)' => Claims(u, k)
      BY <2>4, SameKept DEF IInv
    <3>2. Claims(t, "fs")' => Claims(t, "fs")
      BY <1>1, <2>2 DEF Claims
    <3>3. Claims(t, "files")' => Claims(t, "files")
      BY <1>1 DEF Claims, After
    <3> QED
      BY <1>2, <3>1, <3>2, <3>3 DEF NoNewClaims
  <2>8. KindInv("fs")'
    BY <1>1, <1>2, <2>2, <2>6, <2>7, KindTake
  <2>9. KindInv("files")'
    <3>1. SameCopies("files") /\ NoNewCopies("files")
      BY <1>1, <1>2, <2>2 DEF SameCopies, NoNewCopies
    <3> QED
      BY <1>2, <2>2, <2>6, <2>7, <3>1, KindSame DEF NoNewClaims
  <2>10. GuestInv'
    BY <2>2 DEF IInv, GuestInv
  <2> QED
    BY <1>1, <2>3, <2>4, <2>5, <2>8, <2>9, <2>10, StepKeeps
<1>4. CASE ~("FS" \in unshareFlags[t] /\ sharerRefs["fs"][obj[t]["fs"]] # 1)
  <2>1. UNCHANGED <<objVars, copy>>
    BY <1>4
  <2>2. obj' = obj /\ copy' = copy /\ sharerRefs' = sharerRefs /\ guests' = guests
    BY <2>1 DEF objVars
  <2> HIDE DEF UnshareFs
  <2>3. UnshareTypeOK'
    BY <1>1, <2>2 DEF IInv, UnshareTypeOK
  <2>4. \A u \in Sharers : u # t => SameTask(u)
    BY <1>1, <2>2 DEF SameTask
  <2>5. TaskInv(t)'
    BY <1>1, <1>2, <2>2 DEF TaskInv
  <2>6. ASSUME NEW k \in Counted, Claims(t, k)' PROVE Claims(t, k) \/ Alone(t, k)
    <3>1. CASE k \in sharerOwn[t]
      BY <3>1 DEF Claims
    <3>2. CASE k \notin sharerOwn[t]
      <4>1. k = "fs" /\ "FS" \in unshareFlags[t]
        BY <1>1, <2>6, <3>2 DEF Claims, After, Flag, Counted
      <4>2. sharerRefs["fs"][obj[t]["fs"]] <= 1
        BY <1>4, <4>1
      <4> QED
        BY <1>2, <4>1, <4>2, OneIsAlone DEF ShareKinds
    <3> QED
      BY <3>1, <3>2
  <2>7. \A k \in Counted : copy[t][k] = NoObj
    BY <1>2 DEF Counted
  <2> QED
    BY <1>1, <2>1, <2>3, <2>4, <2>5, <2>6, <2>7, CallStep
<1> QED
  BY <1>3, <1>4

\* unshare_fd, for unshare or for execve.
LEMMA UnshareFdKeeps ==
  ASSUME IInv, SharersSound, NEW t \in Sharers, UnshareFd(t)
  PROVE  IInv'
<1> USE DEF UnshareFd, ShareGoto, nsVars
<1>1. /\ sharerPc' \in [Sharers -> Points] /\ unshareFlags' = unshareFlags
      /\ DOMAIN unshareFlags' = Sharers
      /\ cred' = cred /\ ns' = ns /\ lostNs' = lostNs /\ calls' = calls
      /\ sharerOwn' = sharerOwn
      /\ \/ sharerPc[t] = "fd" /\ sharerPc'[t] = "cred"
         \/ sharerPc[t] = "fd_exec" /\ sharerPc'[t] = "commit_exec"
      /\ \A u \in Sharers : u # t => sharerPc'[u] = sharerPc[u]
      /\ TaskInv(t)
  BY DEF IInv, Points
<1>2. /\ copy[t]["files"] = NoObj
      /\ sharerPc[t] = "fd_exec" => copy[t]["fs"] = NoObj
      /\ \A k \in ShareKinds : obj[t][k] \in Objects
      /\ t \notin cred /\ t \notin ns /\ "fs" \in Counted /\ "files" \in Counted
  BY <1>1 DEF TaskInv, Counted
<1>2a. Claims(t, "fs")' => copy'[t]["fs"] # copy[t]["fs"] \/ Claims(t, "fs")
  BY <1>1 DEF Claims, After
<1>3. CASE "FILES" \in unshareFlags[t] /\ sharerRefs["files"][obj[t]["files"]] > 1
  <2>1. TakeCopy(t, "files")
    BY <1>3
  <2> HIDE DEF UnshareFd
  <2>2. /\ Free("files", Fresh("files")) /\ copy'[t]["files"] = Fresh("files")
        /\ copy'[t]["files"] # NoObj
        /\ sharerRefs'["files"] = [sharerRefs["files"] EXCEPT ![Fresh("files")] = 1]
        /\ sharerRefs'["fs"] = sharerRefs["fs"] /\ copy'[t]["fs"] = copy[t]["fs"]
        /\ \A u \in Sharers : u # t => copy'[u] = copy[u]
        /\ copy' \in [Sharers -> [Counted -> Objects \cup {NoObj}]]
        /\ sharerRefs' \in [Counted -> [Objects -> Nat]]
        /\ obj' = obj /\ guests' = guests
    BY <1>2, <2>1, TakeEffect
  <2>3. UnshareTypeOK'
    BY <1>1, <2>2 DEF IInv, UnshareTypeOK
  <2>4. \A u \in Sharers : u # t => SameTask(u)
    BY <1>1, <2>2 DEF SameTask
  <2>5. TaskInv(t)'
    BY <1>1, <1>2, <2>2 DEF TaskInv
  <2>6. \A k \in Counted : SameObjects(k) /\ SameOutside(k)
    BY <2>2 DEF SameObjects, SameOutside, Outside
  <2>7. NoNewClaims("fs") /\ NoNewClaims("files")
    <3>1. \A u \in Sharers : u # t => \A k \in Counted : Claims(u, k)' => Claims(u, k)
      BY <2>4, SameKept DEF IInv
    <3>2. Claims(t, "files")' => Claims(t, "files")
      BY <1>1, <2>2 DEF Claims
    <3> QED
      BY <1>2, <1>2a, <2>2, <3>1, <3>2 DEF NoNewClaims
  <2>8. KindInv("files")'
    BY <1>1, <1>2, <2>2, <2>6, <2>7, KindTake
  <2>9. KindInv("fs")'
    <3>1. SameCopies("fs") /\ NoNewCopies("fs")
      BY <1>1, <1>2, <2>2 DEF SameCopies, NoNewCopies, Before
    <3> QED
      BY <1>2, <2>2, <2>6, <2>7, <3>1, KindSame DEF NoNewClaims
  <2>10. GuestInv'
    BY <2>2 DEF IInv, GuestInv
  <2> QED
    BY <1>1, <2>3, <2>4, <2>5, <2>8, <2>9, <2>10, StepKeeps
<1>4. CASE ~("FILES" \in unshareFlags[t] /\ sharerRefs["files"][obj[t]["files"]] > 1)
  <2>1. UNCHANGED <<objVars, copy>>
    BY <1>4
  <2>2. obj' = obj /\ copy' = copy /\ sharerRefs' = sharerRefs /\ guests' = guests
    BY <2>1 DEF objVars
  <2> HIDE DEF UnshareFd
  <2>3. UnshareTypeOK'
    BY <1>1, <2>2 DEF IInv, UnshareTypeOK
  <2>4. \A u \in Sharers : u # t => SameTask(u)
    BY <1>1, <2>2 DEF SameTask
  <2>5. TaskInv(t)'
    BY <1>1, <1>2, <2>2 DEF TaskInv
  <2>6. ASSUME NEW k \in Counted, Claims(t, k)' PROVE Claims(t, k) \/ Alone(t, k)
    <3>1. CASE k = "fs"
      BY <1>2a, <2>2, <2>6, <3>1
    <3>2. CASE k = "files" /\ k \notin sharerOwn[t]
      <4>1. "FILES" \in unshareFlags[t]
        BY <1>1, <2>6, <3>2 DEF Claims, Flag
      <4>2. sharerRefs["files"][obj[t]["files"]] <= 1
        <5>1. sharerRefs["files"][obj[t]["files"]] \in Nat
          BY <1>2 DEF IInv, UnshareTypeOK, ShareKinds
        <5> QED
          BY <1>4, <4>1, <5>1
      <4> QED
        BY <1>2, <3>2, <4>2, OneIsAlone DEF ShareKinds
    <3> QED
      BY <3>1, <3>2 DEF Claims, Counted
  <2>7. \A k \in Counted : copy[t][k] # NoObj => sharerPc[t] \in Before
    BY <1>1, <1>2 DEF Counted, Before
  <2> QED
    BY <1>1, <2>1, <2>3, <2>4, <2>5, <2>6, <2>7, CallStep
<1> QED
  BY <1>3, <1>4

\* What the commit of the fs_struct does, field by field.
LEMMA CommitFsEffect ==
  ASSUME IInv, NEW t \in Sharers, obj[t]["fs"] \in Objects
  PROVE  /\ CommitFs(t).obj \in [Sharers -> [ShareKinds -> Objects \cup {NoObj}]]
         /\ CommitFs(t).copy \in [Sharers -> [Counted -> Objects \cup {NoObj}]]
         /\ CommitFs(t).refs \in [Counted -> [Objects -> Int]]
         /\ CommitFs(t).refs["files"] = sharerRefs["files"]
         /\ \A u \in Sharers : u # t => /\ CommitFs(t).obj[u] = obj[u]
                                        /\ CommitFs(t).copy[u] = copy[u]
         /\ \A k \in ShareKinds : k # "fs" => CommitFs(t).obj[t][k] = obj[t][k]
         /\ CommitFs(t).copy[t]["files"] = copy[t]["files"]
         /\ copy[t]["fs"] = NoObj =>
              /\ CommitFs(t).obj[t]["fs"] = obj[t]["fs"]
              /\ CommitFs(t).copy[t]["fs"] = NoObj
              /\ CommitFs(t).refs["fs"] = sharerRefs["fs"]
         /\ copy[t]["fs"] # NoObj =>
              /\ CommitFs(t).obj[t]["fs"] = copy[t]["fs"]
              /\ \/ /\ CommitFs(t).copy[t]["fs"] = obj[t]["fs"]
                    /\ CommitFs(t).refs["fs"] = sharerRefs["fs"]
                 \/ /\ CommitFs(t).copy[t]["fs"] = NoObj
                    /\ CommitFs(t).refs["fs"] =
                         [sharerRefs["fs"] EXCEPT ![obj[t]["fs"]] = @ - 1]
<1>1. /\ obj \in [Sharers -> [ShareKinds -> Objects \cup {NoObj}]]
      /\ copy \in [Sharers -> [Counted -> Objects \cup {NoObj}]]
      /\ sharerRefs \in [Counted -> [Objects -> Nat]]
      /\ "fs" \in Counted /\ "files" \in Counted /\ "fs" \in ShareKinds
  BY DEF IInv, UnshareTypeOK, Counted, ShareKinds
<1>2. CASE copy[t]["fs"] = NoObj
  <2>1. CommitFs(t) = [obj |-> obj, refs |-> sharerRefs, copy |-> copy]
    BY <1>2 DEF CommitFs
  <2>2. CommitFs(t).obj = obj /\ CommitFs(t).refs = sharerRefs /\ CommitFs(t).copy = copy
    BY <2>1
  <2>3. sharerRefs \in [Counted -> [Objects -> Int]]
    BY <1>1
  <2> QED
    BY <1>1, <1>2, <2>2, <2>3
<1>3. CASE copy[t]["fs"] # NoObj
  <2> DEFINE o == obj[t]["fs"]
             last == sharerRefs["fs"][o] = 1
  <2>1. /\ CommitFs(t).obj = [obj EXCEPT ![t]["fs"] = copy[t]["fs"]]
        /\ CommitFs(t).refs = [sharerRefs EXCEPT !["fs"][o] = IF last THEN @ ELSE @ - 1]
        /\ CommitFs(t).copy = [copy EXCEPT ![t]["fs"] = IF last THEN o ELSE NoObj]
    BY <1>3 DEF CommitFs
  <2>2. /\ CommitFs(t).obj \in [Sharers -> [ShareKinds -> Objects \cup {NoObj}]]
        /\ \A u \in Sharers : u # t => CommitFs(t).obj[u] = obj[u]
        /\ \A k \in ShareKinds : k # "fs" => CommitFs(t).obj[t][k] = obj[t][k]
        /\ CommitFs(t).obj[t]["fs"] = copy[t]["fs"]
    BY <1>1, <2>1
  <2>3. CASE last
    <3>1. CommitFs(t).copy = [copy EXCEPT ![t]["fs"] = o]
      BY <2>1, <2>3
    <3>2. /\ CommitFs(t).copy \in [Sharers -> [Counted -> Objects \cup {NoObj}]]
          /\ \A u \in Sharers : u # t => CommitFs(t).copy[u] = copy[u]
          /\ CommitFs(t).copy[t]["files"] = copy[t]["files"] /\ CommitFs(t).copy[t]["fs"] = o
      BY <1>1, <3>1
    <3>3. CommitFs(t).refs = sharerRefs
      BY <1>1, <2>1, <2>3
    <3>4. sharerRefs \in [Counted -> [Objects -> Int]]
      BY <1>1
    <3> QED
      BY <1>1, <1>3, <2>2, <3>2, <3>3, <3>4
  <2>4. CASE ~last
    <3>1. CommitFs(t).copy = [copy EXCEPT ![t]["fs"] = NoObj]
      BY <2>1, <2>4
    <3>2. /\ CommitFs(t).copy \in [Sharers -> [Counted -> Objects \cup {NoObj}]]
          /\ \A u \in Sharers : u # t => CommitFs(t).copy[u] = copy[u]
          /\ CommitFs(t).copy[t]["files"] = copy[t]["files"]
          /\ CommitFs(t).copy[t]["fs"] = NoObj
      BY <1>1, <3>1
    <3>3. CommitFs(t).refs = [sharerRefs EXCEPT !["fs"][o] = @ - 1]
      BY <2>1, <2>4
    <3>4. /\ CommitFs(t).refs \in [Counted -> [Objects -> Int]]
          /\ CommitFs(t).refs["files"] = sharerRefs["files"]
          /\ CommitFs(t).refs["fs"] = [sharerRefs["fs"] EXCEPT ![o] = @ - 1]
      BY <1>1, <3>3
    <3> QED
      BY <1>3, <2>2, <3>2, <3>4
  <2> QED
    BY <2>3, <2>4
<1> QED
  BY <1>2, <1>3

\* What the commit of the files_struct does.
LEMMA CommitFdEffect ==
  ASSUME NEW t \in Sharers, NEW o, NEW c, CommitFd(t, o, c),
         o \in [Sharers -> [ShareKinds -> Objects \cup {NoObj}]],
         c \in [Sharers -> [Counted -> Objects \cup {NoObj}]]
  PROVE  /\ obj' \in [Sharers -> [ShareKinds -> Objects \cup {NoObj}]]
         /\ copy' \in [Sharers -> [Counted -> Objects \cup {NoObj}]]
         /\ \A u \in Sharers : u # t => obj'[u] = o[u] /\ copy'[u] = c[u]
         /\ \A k \in ShareKinds : k # "files" => obj'[t][k] = o[t][k]
         /\ copy'[t]["fs"] = c[t]["fs"]
         /\ c[t]["files"] = NoObj =>
              obj'[t]["files"] = o[t]["files"] /\ copy'[t]["files"] = NoObj
         /\ c[t]["files"] # NoObj =>
              obj'[t]["files"] = c[t]["files"] /\ copy'[t]["files"] = o[t]["files"]
<1>1. "fs" \in Counted /\ "files" \in Counted /\ "files" \in ShareKinds
  BY DEF Counted, ShareKinds
<1>2. CASE c[t]["files"] = NoObj
  BY <1>2 DEF CommitFd
<1>3. CASE c[t]["files"] # NoObj
  <2>1. /\ obj' = [o EXCEPT ![t]["files"] = c[t]["files"]]
        /\ copy' = [c EXCEPT ![t]["files"] = o[t]["files"]]
    BY <1>3 DEF CommitFd
  <2> QED
    BY <1>1, <1>3, <2>1
<1> QED
  BY <1>2, <1>3

\* The counter of an object in use is not zero.
LEMMA InUse ==
  ASSUME IInv, SharersSound, NEW k \in Counted, NEW o \in Objects, NEW t \in Sharers,
         obj[t][k] = o \/ copy[t][k] = o
  PROVE  sharerRefs[k][o] - 1 \in Nat
<1>1. UsedBy(k, o) # {} \/ HeldBy(k, o) # {}
  BY DEF UsedBy, HeldBy
<1>2. Cardinality(UsedBy(k, o)) # 0 \/ Cardinality(HeldBy(k, o)) # 0
  BY <1>1, FS_EmptySet, Counts
<1> QED
  BY <1>2, Counts

\* One kind in a commit: nothing to install, or the copy.
LEMMA KindCommit ==
  ASSUME IInv, SharersSound, NEW k \in Counted, NEW t \in Sharers, SameOutside(k),
         sharerPc[t] \in Before, sharerPc'[t] \notin Before, obj[t][k] \in Objects,
         \A u \in Sharers : u # t => SameTask(u),
         copy[t][k] = NoObj =>
           /\ obj'[t][k] = obj[t][k] /\ copy'[t][k] = NoObj /\ sharerRefs'[k] = sharerRefs[k]
           /\ Claims(t, k)' => Claims(t, k),
         copy[t][k] # NoObj =>
           /\ obj'[t][k] = copy[t][k]
           /\ \/ copy'[t][k] = obj[t][k] /\ sharerRefs'[k] = sharerRefs[k]
              \/ /\ copy'[t][k] = NoObj
                 /\ sharerRefs'[k] = [sharerRefs[k] EXCEPT ![obj[t][k]] = @ - 1]
  PROVE  KindInv(k)'
<1>1. \A u \in Sharers : u # t => /\ obj'[u][k] = obj[u][k] /\ copy'[u][k] = copy[u][k]
                                  /\ sharerPc'[u] = sharerPc[u]
                                  /\ Claims(u, k)' => Claims(u, k)
  BY SameKept DEF SameTask, IInv, Counted, ShareKinds
<1>2. CASE copy[t][k] = NoObj
  <2>1. SameObjects(k) /\ SameCopies(k) /\ NoNewCopies(k)
    BY <1>1, <1>2 DEF SameObjects, SameCopies, NoNewCopies
  <2> QED
    BY <1>1, <1>2, <2>1, KindSame
<1>3. CASE copy[t][k] # NoObj
  BY <1>1, <1>3, KindInstall
<1> QED
  BY <1>2, <1>3

\* Both copies are installed, and the task is told.
LEMMA CommitKeeps ==
  ASSUME IInv, SharersSound, NEW t \in Sharers, Commit(t)
  PROVE  IInv'
<1>1. /\ sharerPc' \in [Sharers -> Points] /\ unshareFlags' = unshareFlags
      /\ DOMAIN unshareFlags' = Sharers /\ guests' = guests
      /\ cred' = cred \ {t} /\ ns' = ns \ {t} /\ lostNs' = lostNs /\ calls' = calls
      /\ sharerPc[t] = "commit" /\ sharerPc'[t] = "put_cred"
      /\ \A u \in Sharers : u # t => sharerPc'[u] = sharerPc[u]
      /\ TaskInv(t)
  BY DEF IInv, Points, Commit, ShareGoto
<1>2. /\ \A k \in ShareKinds : obj[t][k] \in Objects
      /\ unshareFlags[t] \cap {"NEWNS", "NEWUSER"} # {} => "FS" \in unshareFlags[t]
      /\ "fs" \in Counted /\ "files" \in Counted /\ "fs" \in ShareKinds /\ "files" \in ShareKinds
  BY <1>1 DEF TaskInv, Counted, ShareKinds
<1>3. /\ sharerOwn' \in [Sharers -> SUBSET Counted]
      /\ \A u \in Sharers : u # t => sharerOwn'[u] = sharerOwn[u]
      /\ "fs" \in sharerOwn'[t] => "fs" \in sharerOwn[t] \/ "FS" \in unshareFlags[t]
      /\ "files" \in sharerOwn'[t] => "files" \in sharerOwn[t] \/ "FILES" \in unshareFlags[t]
  <2>1. sharerOwn \in [Sharers -> SUBSET Counted]
    BY DEF IInv, UnshareTypeOK
  <2>2. Told(t)
    BY DEF Commit
  <2> QED
    BY <1>2, <2>1, <2>2 DEF Told, Counted
<1> DEFINE F == CommitFs(t)
<1>4. sharerRefs' = F.refs /\ CommitFd(t, F.obj, F.copy)
  BY DEF Commit
<1>5. /\ F.obj \in [Sharers -> [ShareKinds -> Objects \cup {NoObj}]]
      /\ F.copy \in [Sharers -> [Counted -> Objects \cup {NoObj}]]
      /\ F.refs \in [Counted -> [Objects -> Int]] /\ F.refs["files"] = sharerRefs["files"]
      /\ \A u \in Sharers : u # t => F.obj[u] = obj[u] /\ F.copy[u] = copy[u]
      /\ \A k \in ShareKinds : k # "fs" => F.obj[t][k] = obj[t][k]
      /\ F.copy[t]["files"] = copy[t]["files"]
      /\ copy[t]["fs"] = NoObj => /\ F.obj[t]["fs"] = obj[t]["fs"] /\ F.copy[t]["fs"] = NoObj
                                  /\ F.refs["fs"] = sharerRefs["fs"]
      /\ copy[t]["fs"] # NoObj =>
           /\ F.obj[t]["fs"] = copy[t]["fs"]
           /\ \/ F.copy[t]["fs"] = obj[t]["fs"] /\ F.refs["fs"] = sharerRefs["fs"]
              \/ /\ F.copy[t]["fs"] = NoObj
                 /\ F.refs["fs"] = [sharerRefs["fs"] EXCEPT ![obj[t]["fs"]] = @ - 1]
  BY <1>2, CommitFsEffect
<1> HIDE DEF F
<1>6. /\ obj' \in [Sharers -> [ShareKinds -> Objects \cup {NoObj}]]
      /\ copy' \in [Sharers -> [Counted -> Objects \cup {NoObj}]]
      /\ \A u \in Sharers : u # t => obj'[u] = F.obj[u] /\ copy'[u] = F.copy[u]
      /\ \A k \in ShareKinds : k # "files" => obj'[t][k] = F.obj[t][k]
      /\ copy'[t]["fs"] = F.copy[t]["fs"]
      /\ F.copy[t]["files"] = NoObj =>
           obj'[t]["files"] = F.obj[t]["files"] /\ copy'[t]["files"] = NoObj
      /\ F.copy[t]["files"] # NoObj =>
           obj'[t]["files"] = F.copy[t]["files"] /\ copy'[t]["files"] = F.obj[t]["files"]
  BY <1>4, <1>5, CommitFdEffect
<1>7. sharerRefs' \in [Counted -> [Objects -> Nat]]
  <2>1. sharerRefs \in [Counted -> [Objects -> Nat]] /\ Counted = {"fs", "files"}
    BY DEF IInv, UnshareTypeOK, Counted
  <2>2. sharerRefs["fs"][obj[t]["fs"]] - 1 \in Nat
    BY <1>2, InUse
  <2>3. \A o \in Objects : sharerRefs'["fs"][o] \in Nat
    BY <1>2, <1>4, <1>5, <2>1, <2>2
  <2>4. \A o \in Objects : sharerRefs'["files"][o] \in Nat
    BY <1>4, <1>5, <2>1
  <2>5. sharerRefs' \in [Counted -> [Objects -> Int]]
    BY <1>4, <1>5
  <2> QED
    BY <2>1, <2>3, <2>4, <2>5
<1>8. UnshareTypeOK'
  BY <1>1, <1>3, <1>6, <1>7 DEF IInv, UnshareTypeOK
<1>9. \A u \in Sharers : u # t => SameTask(u)
  BY <1>1, <1>3, <1>5, <1>6 DEF SameTask
<1>10. \A k \in Counted : SameOutside(k)
  BY <1>1 DEF SameOutside, Outside
<1>11. sharerPc[t] \in Before /\ sharerPc'[t] \notin Before
  BY <1>1 DEF Before
<1>12. KindInv("fs")'
  <2>1. Claims(t, "fs")' => Claims(t, "fs") \/ copy[t]["fs"] # NoObj
    BY <1>1, <1>3 DEF Claims, After, Flag
  <2>2. copy[t]["fs"] = NoObj =>
          /\ obj'[t]["fs"] = obj[t]["fs"] /\ copy'[t]["fs"] = NoObj
          /\ sharerRefs'["fs"] = sharerRefs["fs"] /\ (Claims(t, "fs")' => Claims(t, "fs"))
    BY <1>2, <1>4, <1>5, <1>6, <2>1
  <2>3. copy[t]["fs"] # NoObj =>
          /\ obj'[t]["fs"] = copy[t]["fs"]
          /\ \/ copy'[t]["fs"] = obj[t]["fs"] /\ sharerRefs'["fs"] = sharerRefs["fs"]
             \/ /\ copy'[t]["fs"] = NoObj
                /\ sharerRefs'["fs"] = [sharerRefs["fs"] EXCEPT ![obj[t]["fs"]] = @ - 1]
    BY <1>2, <1>4, <1>5, <1>6
  <2> QED
    BY <1>2, <1>9, <1>10, <1>11, <2>2, <2>3, KindCommit
<1>13. KindInv("files")'
  <2>1. Claims(t, "files")' => Claims(t, "files") \/ copy[t]["files"] # NoObj
    BY <1>1, <1>3 DEF Claims, After, Flag
  <2>2. /\ sharerRefs'["files"] = sharerRefs["files"]
        /\ copy[t]["files"] = NoObj =>
             obj'[t]["files"] = obj[t]["files"] /\ copy'[t]["files"] = NoObj
        /\ copy[t]["files"] # NoObj =>
             obj'[t]["files"] = copy[t]["files"] /\ copy'[t]["files"] = obj[t]["files"]
    BY <1>2, <1>4, <1>5, <1>6
  <2> QED
    BY <1>2, <1>9, <1>10, <1>11, <2>1, <2>2, KindCommit
<1>14. TaskInv(t)'
  <2>1. \A k \in ShareKinds : obj'[t][k] \in Objects
    <3>1. \A k \in Counted : copy[t][k] # NoObj => copy[t][k] \in Objects
      BY DEF IInv, UnshareTypeOK
    <3> QED
      BY <1>2, <1>5, <1>6, <3>1 DEF ShareKinds
  <2> QED
    BY <1>1, <2>1 DEF TaskInv
<1>15. GuestInv'
  BY <1>1 DEF IInv, GuestInv
<1> QED
  BY <1>1, <1>8, <1>9, <1>12, <1>13, <1>14, <1>15, StepKeeps

\* unshare_files installs its copy.
LEMMA CommitFilesKeeps ==
  ASSUME IInv, SharersSound, NEW t \in Sharers, CommitFiles(t)
  PROVE  IInv'
<1>1. /\ sharerPc' \in [Sharers -> Points] /\ unshareFlags' = unshareFlags
      /\ DOMAIN unshareFlags' = Sharers /\ guests' = guests /\ sharerRefs' = sharerRefs
      /\ cred' = cred /\ ns' = ns /\ lostNs' = lostNs /\ calls' = calls
      /\ sharerPc[t] = "commit_exec" /\ sharerPc'[t] = "put_fd"
      /\ \A u \in Sharers : u # t => sharerPc'[u] = sharerPc[u]
      /\ TaskInv(t) /\ CommitFd(t, obj, copy)
  BY DEF IInv, Points, CommitFiles, ShareGoto, nsVars
<1>2. /\ \A k \in ShareKinds : obj[t][k] \in Objects
      /\ unshareFlags[t] = {"FILES"} /\ copy[t]["fs"] = NoObj /\ t \notin cred /\ t \notin ns
      /\ "fs" \in Counted /\ "files" \in Counted /\ "fs" \in ShareKinds /\ "files" \in ShareKinds
  BY <1>1 DEF TaskInv, Counted, ShareKinds
<1>3. /\ sharerOwn' \in [Sharers -> SUBSET Counted]
      /\ \A u \in Sharers : u # t => sharerOwn'[u] = sharerOwn[u]
      /\ "fs" \in sharerOwn'[t] => "fs" \in sharerOwn[t]
  <2>1. sharerOwn \in [Sharers -> SUBSET Counted]
    BY DEF IInv, UnshareTypeOK
  <2>2. Told(t)
    BY DEF CommitFiles
  <2> QED
    BY <1>2, <2>1, <2>2 DEF Told, Counted
<1>4. /\ obj' \in [Sharers -> [ShareKinds -> Objects \cup {NoObj}]]
      /\ copy' \in [Sharers -> [Counted -> Objects \cup {NoObj}]]
      /\ \A u \in Sharers : u # t => obj'[u] = obj[u] /\ copy'[u] = copy[u]
      /\ \A k \in ShareKinds : k # "files" => obj'[t][k] = obj[t][k]
      /\ copy'[t]["fs"] = copy[t]["fs"]
      /\ copy[t]["files"] = NoObj =>
           obj'[t]["files"] = obj[t]["files"] /\ copy'[t]["files"] = NoObj
      /\ copy[t]["files"] # NoObj =>
           obj'[t]["files"] = copy[t]["files"] /\ copy'[t]["files"] = obj[t]["files"]
  <2>1. /\ obj \in [Sharers -> [ShareKinds -> Objects \cup {NoObj}]]
        /\ copy \in [Sharers -> [Counted -> Objects \cup {NoObj}]]
    BY DEF IInv, UnshareTypeOK
  <2> QED
    BY <1>1, <2>1, CommitFdEffect
<1>5. UnshareTypeOK'
  BY <1>1, <1>3, <1>4 DEF IInv, UnshareTypeOK
<1>6. \A u \in Sharers : u # t => SameTask(u)
  BY <1>1, <1>3, <1>4 DEF SameTask
<1>7. \A k \in Counted : SameOutside(k)
  BY <1>1 DEF SameOutside, Outside
<1>8. sharerPc[t] \in Before /\ sharerPc'[t] \notin Before
  BY <1>1 DEF Before
<1>9. KindInv("fs")'
  <2>1. Claims(t, "fs")' => Claims(t, "fs")
    BY <1>1, <1>3 DEF Claims, After
  <2> QED
    BY <1>1, <1>2, <1>4, <1>6, <1>7, <1>8, <2>1, KindCommit
<1>10. KindInv("files")'
  <2>1. Claims(t, "files")' => Claims(t, "files") \/ copy[t]["files"] # NoObj
    BY <1>1, <1>2 DEF Claims, After, Flag
  <2> QED
    BY <1>1, <1>2, <1>4, <1>6, <1>7, <1>8, <2>1, KindCommit
<1>11. TaskInv(t)'
  <2>1. \A k \in ShareKinds : obj'[t][k] \in Objects
    <3>1. copy[t]["files"] # NoObj => copy[t]["files"] \in Objects
      BY <1>2 DEF IInv, UnshareTypeOK
    <3> QED
      BY <1>2, <1>4, <3>1
  <2> QED
    BY <1>1, <1>2, <2>1 DEF TaskInv
<1>12. GuestInv'
  BY <1>1 DEF IInv, GuestInv
<1> QED
  BY <1>1, <1>5, <1>6, <1>9, <1>10, <1>11, <1>12, StepKeeps

\* What PutCopy does for t: to kind k, to the other kind j, to the other tasks.
PutDone(t, k, j) ==
  /\ copy'[t][k] = NoObj
  /\ copy[t][k] = NoObj => sharerRefs'[k] = sharerRefs[k]
  /\ copy[t][k] # NoObj => sharerRefs'[k] = [sharerRefs[k] EXCEPT ![copy[t][k]] = @ - 1]
  /\ sharerRefs'[j] = sharerRefs[j] /\ copy'[t][j] = copy[t][j]
  /\ \A u \in Sharers : u # t => copy'[u] = copy[u]
  /\ copy' \in [Sharers -> [Counted -> Objects \cup {NoObj}]]
  /\ sharerRefs' \in [Counted -> [Objects -> Nat]]

\* PutCopy does that.
LEMMA PutEffect ==
  ASSUME IInv, SharersSound, NEW t \in Sharers, NEW k \in Counted, NEW j \in Counted,
         j # k, PutCopy(t, k)
  PROVE  PutDone(t, k, j)
<1> USE DEF PutDone
<1>1. /\ copy \in [Sharers -> [Counted -> Objects \cup {NoObj}]]
      /\ sharerRefs \in [Counted -> [Objects -> Nat]]
  BY DEF IInv, UnshareTypeOK
<1>2. CASE copy[t][k] = NoObj
  BY <1>1, <1>2 DEF PutCopy
<1>3. CASE copy[t][k] # NoObj
  <2> DEFINE x == copy[t][k]
  <2>1. x \in Objects
    BY <1>1, <1>3
  <2>2. sharerRefs[k][x] - 1 \in Nat
    BY <2>1, InUse
  <2>3. /\ sharerRefs' = [sharerRefs EXCEPT ![k][x] = @ - 1]
        /\ copy' = [copy EXCEPT ![t][k] = NoObj]
    BY <1>3 DEF PutCopy
  <2>4. /\ copy' \in [Sharers -> [Counted -> Objects \cup {NoObj}]]
        /\ copy'[t][k] = NoObj /\ \A u \in Sharers : u # t => copy'[u] = copy[u]
        /\ copy'[t][j] = copy[t][j]
    BY <1>1, <2>3
  <2>5. /\ sharerRefs' \in [Counted -> [Objects -> Nat]]
        /\ sharerRefs'[k] = [sharerRefs[k] EXCEPT ![x] = @ - 1]
        /\ sharerRefs'[j] = sharerRefs[j]
    <3> HIDE DEF x
    <3> QED
      BY <1>1, <2>1, <2>2, <2>3
  <2> QED
    BY <1>3, <2>4, <2>5
<1> QED
  BY <1>2, <1>3

\* A copy of kind k is put, if there is one; j is the other kind.
LEMMA PutKeeps ==
  ASSUME IInv, SharersSound, NEW t \in Sharers, NEW k \in Counted, NEW j \in Counted, j # k,
         PutCopy(t, k), obj' = obj, guests' = guests, UnshareTypeOK',
         \A u \in Sharers : u # t => SameTask(u),
         sharerPc' \in [Sharers -> Points], DOMAIN unshareFlags' = Sharers, TaskInv(t)',
         sharerPc'[t] \notin Before, Claims(t, k)' => Claims(t, k),
         Claims(t, j)' => Claims(t, j)
  PROVE  IInv'
<1>1. \A i \in Counted : SameObjects(i) /\ SameOutside(i)
  BY DEF SameObjects, SameOutside, Outside
<1>2. /\ copy'[t][k] = NoObj
      /\ copy[t][k] = NoObj => sharerRefs'[k] = sharerRefs[k]
      /\ copy[t][k] # NoObj => sharerRefs'[k] = [sharerRefs[k] EXCEPT ![copy[t][k]] = @ - 1]
      /\ sharerRefs'[j] = sharerRefs[j] /\ copy'[t][j] = copy[t][j]
      /\ \A u \in Sharers : u # t => copy'[u] = copy[u] /\ sharerPc'[u] = sharerPc[u]
  <2>1. PutDone(t, k, j)
    BY PutEffect
  <2> QED
    BY <2>1 DEF PutDone, SameTask
<1>3. NoNewClaims(k) /\ NoNewClaims(j)
  BY SameKept DEF NoNewClaims, IInv
<1>4. SameCopies(j) /\ NoNewCopies(j) /\ NoNewCopies(k)
  BY <1>2 DEF SameCopies, NoNewCopies
<1>5. KindInv(j)'
  BY <1>1, <1>2, <1>3, <1>4, KindSame DEF NoNewClaims
<1>6. CASE copy[t][k] = NoObj
  <2>1. SameCopies(k)
    BY <1>2, <1>6 DEF SameCopies
  <2>2. KindInv(k)'
    BY <1>1, <1>2, <1>3, <1>4, <1>6, <2>1, KindSame DEF NoNewClaims
  <2> QED
    BY <1>5, <2>2, StepKeeps DEF Counted, IInv, GuestInv
<1>7. CASE copy[t][k] # NoObj
  <2>1. KindInv(k)'
    BY <1>1, <1>2, <1>3, <1>7, KindPut
  <2> QED
    BY <1>5, <2>1, StepKeeps DEF Counted, IInv, GuestInv
<1> QED
  BY <1>6, <1>7

\* bad_unshare_cleanup_fd, or the end of a success: new_fd is put.
LEMMA PutFdKeeps ==
  ASSUME IInv, SharersSound, NEW t \in Sharers, PutFd(t)
  PROVE  IInv'
<1>1. /\ sharerPc' \in [Sharers -> Points] /\ unshareFlags' = unshareFlags
      /\ DOMAIN unshareFlags' = Sharers /\ obj' = obj /\ guests' = guests
      /\ cred' = cred /\ ns' = ns /\ lostNs' = lostNs /\ calls' = calls
      /\ sharerOwn' = sharerOwn /\ sharerPc[t] = "put_fd" /\ sharerPc'[t] = "put_fs"
      /\ \A u \in Sharers : u # t => sharerPc'[u] = sharerPc[u]
      /\ TaskInv(t) /\ PutCopy(t, "files")
  BY DEF IInv, Points, PutFd, ShareGoto, nsVars
<1>2. "fs" \in Counted /\ "files" \in Counted
  BY DEF Counted
<1>3. /\ copy'[t]["files"] = NoObj /\ copy'[t]["fs"] = copy[t]["fs"]
      /\ \A u \in Sharers : u # t => copy'[u] = copy[u]
      /\ copy' \in [Sharers -> [Counted -> Objects \cup {NoObj}]]
      /\ sharerRefs' \in [Counted -> [Objects -> Nat]]
  <2>1. PutDone(t, "files", "fs")
    BY <1>1, <1>2, PutEffect
  <2> QED
    BY <2>1 DEF PutDone
<1>4. UnshareTypeOK'
  BY <1>1, <1>3 DEF IInv, UnshareTypeOK
<1>5. \A u \in Sharers : u # t => SameTask(u)
  BY <1>1, <1>3 DEF SameTask
<1>6. TaskInv(t)'
  BY <1>1, <1>3 DEF TaskInv
<1>7. \A k \in Counted : Claims(t, k)' => Claims(t, k)
  BY <1>1 DEF Claims, After
<1>8. sharerPc'[t] \notin Before
  BY <1>1 DEF Before
<1> QED
  BY <1>1, <1>2, <1>4, <1>5, <1>6, <1>7, <1>8, PutKeeps

\* bad_unshare_cleanup_fs and bad_unshare_out: new_fs is put, the call is over.
LEMMA PutFsKeeps ==
  ASSUME IInv, SharersSound, NEW t \in Sharers, PutFs(t)
  PROVE  IInv'
<1>1. /\ sharerPc' \in [Sharers -> Points] /\ unshareFlags' = [unshareFlags EXCEPT ![t] = {}]
      /\ DOMAIN unshareFlags' = Sharers /\ unshareFlags'[t] = {} /\ obj' = obj
      /\ guests' = guests
      /\ cred' = cred /\ ns' = ns /\ lostNs' = lostNs /\ calls' = calls
      /\ sharerOwn' = sharerOwn /\ sharerPc[t] \in {"put_fs", "out"} /\ sharerPc'[t] = "user"
      /\ \A u \in Sharers : u # t => /\ sharerPc'[u] = sharerPc[u]
                                     /\ unshareFlags'[u] = unshareFlags[u]
      /\ TaskInv(t) /\ PutCopy(t, "fs")
  BY DEF IInv, Points, PutFs, ShareGoto, nsVars
<1>2. "fs" \in Counted /\ "files" \in Counted
  BY DEF Counted
<1>3. /\ copy'[t]["fs"] = NoObj /\ copy'[t]["files"] = copy[t]["files"]
      /\ \A u \in Sharers : u # t => copy'[u] = copy[u]
      /\ copy' \in [Sharers -> [Counted -> Objects \cup {NoObj}]]
      /\ sharerRefs' \in [Counted -> [Objects -> Nat]]
  <2>1. PutDone(t, "fs", "files")
    BY <1>1, <1>2, PutEffect
  <2> QED
    BY <2>1 DEF PutDone
<1>4. UnshareTypeOK'
  BY <1>1, <1>3 DEF IInv, UnshareTypeOK
<1>5. \A u \in Sharers : u # t => SameTask(u)
  BY <1>1, <1>3 DEF SameTask
<1>6. TaskInv(t)'
  BY <1>1, <1>3 DEF TaskInv
<1>7. \A k \in Counted : Claims(t, k)' => Claims(t, k)
  BY <1>1 DEF Claims, After
<1>8. sharerPc'[t] \notin Before
  BY <1>1 DEF Before
<1> QED
  BY <1>1, <1>2, <1>4, <1>5, <1>6, <1>7, <1>8, PutKeeps

\* copy_fs and copy_files for a new task: shared, or copied.
LEMMA CloneSharingKeeps ==
  ASSUME IInv, SharersSound, NEW t \in Sharers, NEW u \in Sharers, NEW share,
         CloneSharing(t, u, share)
  PROVE  IInv'
<1> DEFINE given == [k \in ShareKinds |-> IF k \in share THEN obj[t][k] ELSE Fresh(k)]
<1>1. /\ sharerPc[t] = "user" /\ sharerPc[u] = "none" /\ sharerPc' = [sharerPc EXCEPT ![u] = "user"]
      /\ obj' = [obj EXCEPT ![u] = given]
      /\ sharerRefs' = [k \in Counted |-> [sharerRefs[k] EXCEPT ![given[k]] = @ + 1]]
      /\ sharerOwn' = [sharerOwn EXCEPT ![t] = @ \ share]
      /\ guests' = guests /\ copy' = copy /\ unshareFlags' = unshareFlags
      /\ cred' = cred /\ ns' = ns /\ lostNs' = lostNs /\ OneMore
  BY DEF CloneSharing, ShareGoto, nsVars
<1>2. /\ TaskInv(t) /\ TaskInv(u) /\ t # u /\ Counted \subseteq ShareKinds
      /\ sharerPc \in [Sharers -> Points] /\ DOMAIN unshareFlags = Sharers
      /\ obj \in [Sharers -> [ShareKinds -> Objects \cup {NoObj}]]
      /\ copy \in [Sharers -> [Counted -> Objects \cup {NoObj}]]
      /\ sharerRefs \in [Counted -> [Objects -> Nat]]
      /\ sharerOwn \in [Sharers -> SUBSET Counted]
  BY <1>1 DEF IInv, UnshareTypeOK, Counted, ShareKinds
<1>3. /\ \A k \in Counted : copy[t][k] = NoObj /\ copy[u][k] = NoObj
      /\ \A k \in ShareKinds : obj[t][k] \in Objects /\ obj[u][k] = NoObj
      /\ sharerOwn[u] = {}
  BY <1>1, <1>2 DEF TaskInv, Counted
<1>4. ASSUME NEW k \in ShareKinds
      PROVE  /\ given[k] \in Objects
             /\ k \in Counted => (k \in share /\ given[k] = obj[t][k]) \/ Free(k, given[k])
  <2>1. Fresh(k) \in Objects /\ (k \in Counted => Free(k, Fresh(k)))
    BY <1>3, FreshIsFree
  <2>2. given[k] = IF k \in share THEN obj[t][k] ELSE Fresh(k)
    BY <1>4
  <2> HIDE DEF given
  <2>3. CASE k \in share
    BY <1>3, <2>2, <2>3
  <2>4. CASE k \notin share
    BY <2>1, <2>2, <2>4
  <2> QED
    BY <2>3, <2>4
<1>5. given \in [ShareKinds -> Objects]
  BY <1>4
<1> HIDE DEF given
<1>6. /\ obj' \in [Sharers -> [ShareKinds -> Objects \cup {NoObj}]]
      /\ \A w \in Sharers : w # u => obj'[w] = obj[w] /\ sharerPc'[w] = sharerPc[w]
      /\ obj'[u] = given /\ sharerPc'[u] = "user" /\ sharerPc' \in [Sharers -> Points]
  BY <1>1, <1>2, <1>5 DEF Points
<1>7. /\ sharerOwn' \in [Sharers -> SUBSET Counted]
      /\ \A w \in Sharers : w # t => sharerOwn'[w] = sharerOwn[w]
      /\ sharerOwn'[t] = sharerOwn[t] \ share
  BY <1>1, <1>2
<1>8. sharerRefs' \in [Counted -> [Objects -> Nat]]
  <2>1. ASSUME NEW k \in Counted
        PROVE  [sharerRefs[k] EXCEPT ![given[k]] = @ + 1] \in [Objects -> Nat]
    BY <1>2, <1>5
  <2> QED
    BY <1>1, <2>1
<1>9. UnshareTypeOK'
  BY <1>1, <1>6, <1>7, <1>8 DEF IInv, UnshareTypeOK, OneMore, SharersSound
<1>10. ASSUME NEW w \in Sharers PROVE TaskInv(w)'
  <2>1. CASE w # u /\ w # t
    <3>1. SameTask(w)
      BY <1>1, <1>6, <1>7, <2>1 DEF SameTask
    <3> QED
      BY <3>1, SameKept DEF IInv
  <2>2. CASE w = t
    BY <1>1, <1>2, <1>6, <2>2 DEF TaskInv
  <2>3. CASE w = u
    <3>1. \A k \in ShareKinds : obj'[w][k] \in Objects
      BY <1>5, <1>6, <2>3
    <3>2. w \notin cred /\ w \notin ns
      BY <1>1, <1>2, <2>3 DEF TaskInv
    <3> QED
      BY <1>1, <1>2, <1>3, <1>6, <2>3, <3>1, <3>2 DEF TaskInv, Counted
  <2> QED
    BY <2>1, <2>2, <2>3
<1>11. ASSUME NEW k \in Counted PROVE KindInv(k)'
  <2>1. k \in ShareKinds /\ SameOutside(k) /\ SameCopies(k)
    BY <1>1, <1>2 DEF SameOutside, Outside, SameCopies
  <2>2. NoNewClaims(k) /\ ~Claims(u, k)'
    BY <1>1, <1>2, <1>3, <1>6, <1>7 DEF NoNewClaims, Claims, After
  <2>3. k \in share => ~Claims(t, k)'
    BY <1>1, <1>2, <1>6, <1>7 DEF Claims, After
  <2>4. /\ obj[u][k] = NoObj /\ obj'[u][k] = given[k] /\ given[k] \in Objects
        /\ sharerRefs'[k] = [sharerRefs[k] EXCEPT ![given[k]] = @ + 1]
    BY <1>1, <1>3, <1>5, <1>6, <2>1
  <2>5. \/ Free(k, given[k])
        \/ \E w \in Sharers : given[k] = obj[w][k] /\ ~Claims(w, k)'
    BY <1>4, <2>1, <2>3
  <2>6. \A w \in Sharers : w # u => obj'[w][k] = obj[w][k] /\ sharerPc'[w] = sharerPc[w]
    BY <1>6
  <2> DEFINE x == given[k]
  <2>7. x = given[k]
    OBVIOUS
  <2> HIDE DEF x
  <2> QED
    BY <1>6, <2>1, <2>2, <2>4, <2>5, <2>6, <2>7, KindJoin
<1>12. GuestInv'
  BY <1>1 DEF IInv, GuestInv
<1> QED
  BY <1>1, <1>2, <1>6, <1>9, <1>10, <1>11, <1>12 DEF IInv

\* exit_fs and exit_files.
LEMMA ExitSharedKeeps ==
  ASSUME IInv, SharersSound, NEW t \in Sharers, ExitShared(t)
  PROVE  IInv'
<1>1. /\ sharerPc[t] = "user" /\ sharerPc' = [sharerPc EXCEPT ![t] = "none"]
      /\ obj' = [obj EXCEPT ![t] = [k \in ShareKinds |-> NoObj]]
      /\ sharerRefs' = [k \in Counted |-> [sharerRefs[k] EXCEPT ![obj[t][k]] = @ - 1]]
      /\ sharerOwn' = [sharerOwn EXCEPT ![t] = {}]
      /\ guests' = guests /\ copy' = copy /\ unshareFlags' = unshareFlags
      /\ cred' = cred /\ ns' = ns /\ lostNs' = lostNs /\ calls' = calls
  BY DEF ExitShared, ShareGoto, nsVars
<1>2. /\ TaskInv(t) /\ Counted \subseteq ShareKinds
      /\ sharerPc \in [Sharers -> Points] /\ DOMAIN unshareFlags = Sharers
      /\ obj \in [Sharers -> [ShareKinds -> Objects \cup {NoObj}]]
      /\ sharerRefs \in [Counted -> [Objects -> Nat]]
      /\ sharerOwn \in [Sharers -> SUBSET Counted]
  BY <1>1 DEF IInv, UnshareTypeOK, Counted, ShareKinds
<1>3. \A k \in ShareKinds : obj[t][k] \in Objects
  BY <1>1, <1>2 DEF TaskInv
<1>4. /\ obj' \in [Sharers -> [ShareKinds -> Objects \cup {NoObj}]]
      /\ \A w \in Sharers : w # t => obj'[w] = obj[w] /\ sharerPc'[w] = sharerPc[w]
      /\ \A k \in ShareKinds : obj'[t][k] = NoObj
      /\ sharerPc'[t] = "none" /\ sharerPc' \in [Sharers -> Points]
  BY <1>1, <1>2 DEF Points
<1>5. /\ sharerOwn' \in [Sharers -> SUBSET Counted] /\ sharerOwn'[t] = {}
      /\ \A w \in Sharers : w # t => sharerOwn'[w] = sharerOwn[w]
  BY <1>1, <1>2
<1>6. sharerRefs' \in [Counted -> [Objects -> Nat]]
  <2>1. ASSUME NEW k \in Counted
        PROVE  [sharerRefs[k] EXCEPT ![obj[t][k]] = @ - 1] \in [Objects -> Nat]
    <3>1. sharerRefs[k][obj[t][k]] - 1 \in Nat /\ obj[t][k] \in Objects
      BY <1>2, <1>3, InUse
    <3> QED
      BY <1>2, <3>1
  <2> QED
    BY <1>1, <2>1
<1>7. UnshareTypeOK'
  BY <1>1, <1>4, <1>5, <1>6 DEF IInv, UnshareTypeOK
<1>8. \A w \in Sharers : w # t => SameTask(w)
  BY <1>1, <1>4, <1>5 DEF SameTask
<1>9. TaskInv(t)'
  BY <1>1, <1>2, <1>4, <1>5 DEF TaskInv
<1>10. ASSUME NEW k \in Counted PROVE KindInv(k)'
  <2>1. SameOutside(k) /\ SameCopies(k) /\ NoNewCopies(k)
    BY <1>1, <1>4 DEF SameOutside, Outside, SameCopies, NoNewCopies, Before
  <2>2. NoNewClaims(k) /\ ~Claims(t, k)'
    BY <1>1, <1>4, <1>5 DEF NoNewClaims, Claims, After
  <2>3. /\ obj[t][k] \in Objects /\ obj'[t][k] = NoObj
        /\ sharerRefs'[k] = [sharerRefs[k] EXCEPT ![obj[t][k]] = @ - 1]
        /\ \A w \in Sharers : w # t => obj'[w][k] = obj[w][k]
    BY <1>1, <1>2, <1>3, <1>4
  <2> QED
    BY <2>1, <2>2, <2>3, KindLeave
<1>11. GuestInv' /\ KindInv("fs")' /\ KindInv("files")'
  BY <1>1, <1>10 DEF IInv, GuestInv, Counted
<1> QED
  BY <1>1, <1>2, <1>4, <1>7, <1>8, <1>9, <1>11, StepKeeps

\* A reference from outside comes or goes: no task and no fs_struct is
\* concerned.
LEMMA GuestKeeps ==
  ASSUME IInv, SharersSound, NEW x \in Objects, NEW g \in 0 .. 1, NEW n \in Nat,
         guests' = [guests EXCEPT ![x] = g], n = sharerRefs["files"][x] + g - guests[x],
         sharerRefs' = [sharerRefs EXCEPT !["files"][x] = n],
         UNCHANGED <<obj, copy, nsVars, sharerPc, unshareFlags, sharerOwn>>,
         calls' \in 0 .. CallBound,
         g = 1 => /\ \E t \in Sharers : obj[t]["files"] = x
                  /\ \A o \in Objects : guests[o] = 0
  PROVE  IInv'
<1>1. /\ obj' = obj /\ copy' = copy /\ cred' = cred /\ ns' = ns /\ lostNs' = lostNs
      /\ sharerPc' = sharerPc /\ unshareFlags' = unshareFlags /\ sharerOwn' = sharerOwn
  BY DEF nsVars
<1>2. /\ sharerRefs \in [Counted -> [Objects -> Nat]] /\ guests \in [Objects -> 0 .. 1]
      /\ "files" \in Counted /\ "fs" \in Counted
  BY DEF IInv, UnshareTypeOK, Counted
<1>3. /\ sharerRefs'["files"] = [sharerRefs["files"] EXCEPT ![x] = @ + g - guests[x]]
      /\ sharerRefs'["fs"] = sharerRefs["fs"]
      /\ sharerRefs' \in [Counted -> [Objects -> Nat]] /\ guests' \in [Objects -> 0 .. 1]
  BY <1>2
<1>4. UnshareTypeOK'
  BY <1>1, <1>3 DEF IInv, UnshareTypeOK
<1>5. ASSUME NEW u \in Sharers PROVE SameTask(u)
  BY <1>1 DEF SameTask
<1>6. \A u \in Sharers : TaskInv(u)' /\ \A k \in Counted : Claims(u, k)' => Claims(u, k)
  BY <1>5, SameKept DEF IInv
<1>7. \A k \in Counted : SameObjects(k) /\ SameCopies(k) /\ NoNewCopies(k) /\ NoNewClaims(k)
  BY <1>1, <1>6 DEF SameObjects, SameCopies, NoNewCopies, NoNewClaims
<1>8. KindInv("files")'
  BY <1>2, <1>3, <1>7, KindGuest
<1>9. KindInv("fs")'
  <2>1. SameOutside("fs")
    BY DEF SameOutside, Outside
  <2> QED
    BY <1>2, <1>3, <1>6, <1>7, <2>1, KindSame
<1>10. GuestInv'
  <2>1. \A o \in Objects : guests'[o] = IF o = x THEN g ELSE guests[o]
    BY <1>2
  <2> QED
    BY <2>1 DEF IInv, GuestInv
<1> QED
  BY <1>1, <1>4, <1>6, <1>8, <1>9, <1>10 DEF IInv, Counted

\* get_files_struct from outside.
LEMMA GuestGetKeeps ==
  ASSUME IInv, SharersSound, NEW t \in Sharers, GuestGet(t)
  PROVE  IInv'
<1> DEFINE x == obj[t]["files"]
<1>1. /\ x \in Objects /\ sharerRefs["files"][x] \in Nat /\ calls' \in 0 .. CallBound
      /\ guests[x] = 0 /\ \A o \in Objects : guests[o] = 0
  BY DEF GuestGet, Live, OneMore, IInv, TaskInv, UnshareTypeOK, Counted, ShareKinds,
         SharersSound
<1>2. /\ guests' = [guests EXCEPT ![x] = 1]
      /\ sharerRefs' = [sharerRefs EXCEPT !["files"][x] = @ + 1]
      /\ UNCHANGED <<obj, copy, nsVars, sharerPc, unshareFlags, sharerOwn>>
  BY DEF GuestGet
<1>3. \E u \in Sharers : obj[u]["files"] = x
  OBVIOUS
<1> HIDE DEF x
<1> DEFINE n == sharerRefs["files"][x] + 1
<1>4. /\ n \in Nat /\ n = sharerRefs["files"][x] + 1 - guests[x] /\ 1 \in 0 .. 1
      /\ sharerRefs' = [sharerRefs EXCEPT !["files"][x] = n]
  BY <1>1, <1>2
<1> HIDE DEF n
<1> QED
  BY <1>1, <1>2, <1>3, <1>4, GuestKeeps

\* put_files_struct from outside.
LEMMA GuestPutKeeps ==
  ASSUME IInv, SharersSound, NEW x \in Objects, GuestPut(x)
  PROVE  IInv'
<1>1. /\ guests[x] = 1 /\ guests' = [guests EXCEPT ![x] = 0]
      /\ sharerRefs' = [sharerRefs EXCEPT !["files"][x] = @ - 1]
      /\ UNCHANGED <<obj, copy, nsVars, sharerPc, unshareFlags, sharerOwn>>
      /\ calls' \in 0 .. CallBound /\ "files" \in Counted
  BY DEF GuestPut, IInv, UnshareTypeOK, Counted
<1>2. sharerRefs["files"][x] \in Nat /\ sharerRefs["files"][x] >= 1
  BY <1>1, Counts DEF Outside
<1> DEFINE n == sharerRefs["files"][x] - 1
<1>3. /\ n \in Nat /\ n = sharerRefs["files"][x] + 0 - guests[x]
      /\ sharerRefs' = [sharerRefs EXCEPT !["files"][x] = n]
  BY <1>1, <1>2
<1> HIDE DEF n
<1> DEFINE g == 0
<1>4. /\ g \in 0 .. 1 /\ g # 1 /\ n = sharerRefs["files"][x] + g - guests[x]
      /\ guests' = [guests EXCEPT ![x] = g]
  BY <1>1, <1>3
<1> HIDE DEF g
<1> QED
  BY <1>1, <1>3, <1>4, GuestKeeps

-----------------------------------------------------------------------------
\* The first task starts alone.
LEMMA InitInv ==
  ASSUME UnshareInit, SharersSound
  PROVE  IInv
<1> USE DEF UnshareInit
<1>1. 1 \in Objects /\ NoObj \notin Objects /\ FirstTask \in Sharers
  <2>1. Cardinality(Sharers) \in Nat
    BY FS_CardinalityType DEF SharersSound
  <2> QED
    BY <2>1 DEF Objects, SharersSound
<1>2. UnshareTypeOK
  BY <1>1 DEF UnshareTypeOK, NoCopy, SharersSound
<1>3. sharerPc \in [Sharers -> Points] /\ DOMAIN unshareFlags = Sharers /\ GuestInv
  BY DEF Points, GuestInv
<1>4. ASSUME NEW t \in Sharers PROVE TaskInv(t)
  BY <1>1 DEF TaskInv, NoCopy, Counted
<1>5. ASSUME NEW k \in Counted PROVE KindInv(k)
  <2>0. k \in ShareKinds
    BY DEF Counted, ShareKinds
  <2>1. ASSUME NEW o \in Objects PROVE RefExact(k, o)
    <3>1. HeldBy(k, o) = {} /\ Outside(k, o) = 0
      BY <1>1, <2>0 DEF HeldBy, Outside, NoCopy
    <3>2. UsedBy(k, o) = IF o = 1 THEN {FirstTask} ELSE {}
      BY <1>1, <2>0 DEF UsedBy
    <3>3. Cardinality({FirstTask}) = 1 /\ Cardinality({}) = 0
      BY FS_Singleton, FS_EmptySet, Zenon
    <3>4. sharerRefs[k][o] = IF o = 1 THEN 1 ELSE 0
      OBVIOUS
    <3>5. Cardinality(UsedBy(k, o)) = IF o = 1 THEN 1 ELSE 0
      BY <3>2, <3>3
    <3>6. Cardinality(HeldBy(k, o)) = 0
      BY <3>1, <3>3
    <3> QED
      BY <3>1, <3>4, <3>5, <3>6 DEF RefExact
  <2>2. ASSUME NEW t \in Sharers PROVE Apart(t, k)
    BY DEF Apart, NoCopy
  <2>3. ASSUME NEW t \in Sharers PROVE ~Claims(t, k)
    BY DEF Claims, After
  <2> QED
    BY <2>1, <2>2, <2>3 DEF KindInv
<1> QED
  BY <1>2, <1>3, <1>4, <1>5 DEF IInv

\* A step that changes nothing.
LEMMA StutterKeeps ==
  ASSUME IInv, UNCHANGED unshareVars
  PROVE  IInv'
  BY DEF unshareVars, IInv, UnshareTypeOK, TaskInv, KindInv, GuestInv, RefExact, UsedBy, HeldBy,
         Outside, Apart, Claims, Alone

\* Every action keeps the invariant.
LEMMA NextKeeps ==
  ASSUME IInv, SharersSound, [UnshareNext]_unshareVars
  PROVE  IInv'
<1>1. CASE UNCHANGED unshareVars
  BY <1>1, StutterKeeps
<1>2. ASSUME NEW t \in Sharers, NEW u \in Sharers, NEW share \in CloneSets,
             CloneSharing(t, u, share)
      PROVE  IInv'
  BY <1>2, CloneSharingKeeps
<1>3. ASSUME NEW o \in Objects, GuestPut(o) PROVE IInv'
  BY <1>3, GuestPutKeeps
<1>4. ASSUME NEW t \in Sharers,
             \/ ExitShared(t) \/ GuestGet(t)
             \/ \E f \in UnshareCalls : KsysUnshare(t, f)
             \/ UnshareFs(t) \/ UnshareFd(t) \/ Namespaces(t) \/ UnshareFails(t)
             \/ \E call \in {"userns", "nsproxy", "ucounts"} : NamespacesFail(t, call)
             \/ Commit(t) \/ CommitFiles(t) \/ PutCred(t) \/ PutFd(t) \/ PutFs(t)
             \/ UnshareFiles(t)
      PROVE  IInv'
  BY <1>4, ExitSharedKeeps, GuestGetKeeps, KsysUnshareKeeps, UnshareFsKeeps, UnshareFdKeeps,
     NamespacesKeep, UnshareFailsKeeps, CommitKeeps, CommitFilesKeeps, PutCredKeeps, PutFdKeeps,
     PutFsKeeps, UnshareFilesKeeps
<1> QED
  BY <1>1, <1>2, <1>3, <1>4 DEF UnshareNext

\* The invariant holds for any number of tasks, calls and sets of flags
\* (fork.c, ksys_unshare and unshare_files).
THEOREM SharingInvariance == UnshareSpec => []IInv
<1>1. UnshareInit => IInv
  BY SharersHold, InitInv
<1>2. IInv /\ [UnshareNext]_unshareVars => IInv'
  BY SharersHold, NextKeeps
<1> QED
  BY <1>1, <1>2, PTL DEF UnshareSpec

\* The type invariant of unshare: no counter of a shared object goes below zero.
THEOREM SharingTypesAreKept == UnshareSpec => []UnshareTypeOK
<1>1. IInv => UnshareTypeOK
  BY DEF IInv
<1> QED
  BY <1>1, SharingInvariance, PTL

\* Every reference of an fs_struct and of a files_struct is accounted for, by
\* a task, a call or an outsider, and a call that is over holds nothing,
\* however tasks clone, exit, unshare and fail (unshare_fs, unshare_fd, the
\* commit and the labels of ksys_unshare).
THEOREM SharingIsExact == UnshareSpec => []SharedExact
<1>1. ASSUME IInv, SharersSound PROVE SharedExact
  <2>1. ASSUME NEW k \in Counted, NEW o \in Objects
        PROVE  sharerRefs[k][o] = Cardinality({t \in Live : obj[t][k] = o})
                                  + Cardinality({t \in Sharers : copy[t][k] = o})
                                  + (IF k = "files" THEN guests[o] ELSE 0)
    <3>1. {t \in Live : obj[t][k] = o} = UsedBy(k, o)
      <4>1. o # NoObj /\ k \in ShareKinds
        BY <1>1 DEF SharersSound, Objects, Counted, ShareKinds
      <4> QED
        BY <1>1, <4>1 DEF Live, UsedBy, IInv, TaskInv
    <3>2. RefExact(k, o)
      BY <1>1 DEF IInv, KindInv
    <3> QED
      BY <3>1, <3>2 DEF RefExact, HeldBy, Outside
  <2>2. ASSUME NEW t \in Sharers, sharerPc[t] \in {"user", "none"}
        PROVE  t \notin cred \cup ns /\ copy[t] = NoCopy
    <3>1. TaskInv(t) /\ copy[t] \in [Counted -> Objects \cup {NoObj}]
      BY <1>1 DEF IInv, UnshareTypeOK
    <3>2. \A k \in Counted : copy[t][k] = NoObj
      BY <2>2, <3>1 DEF TaskInv, Counted
    <3> QED
      BY <2>2, <3>1, <3>2 DEF TaskInv, NoCopy
  <2> QED
    BY <2>1, <2>2 DEF SharedExact
<1> QED
  BY <1>1, SharersHold, SharingInvariance, PTL

\* A task that unshare or execve told that it has an fs_struct or files of its
\* own is alone with them, until it shares them itself, although the counters
\* are read without a lock (unshare_fs, unshare_fd, ksys_unshare).
THEOREM OwnIsKept == UnshareSpec => []OwnIsOwn
<1>1. ASSUME IInv PROVE OwnIsOwn
  <2>1. SUFFICES ASSUME NEW t \in Live, NEW k \in sharerOwn[t] PROVE ~Shares(t, k)
    BY DEF OwnIsOwn
  <2>2. t \in Sharers /\ k \in Counted
    BY <1>1 DEF Live, IInv, UnshareTypeOK
  <2>3. Alone(t, k)
    BY <1>1, <2>2 DEF IInv, KindInv, Claims
  <2> QED
    BY <2>3 DEF Alone, Shares, Live
<1> QED
  BY <1>1, SharingInvariance, PTL

=============================================================================
