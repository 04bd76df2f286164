------------------------ MODULE DependencyGraphProofs -------------------------
(****************************************************************************)
(* The activation chain, for every library and any dependency lists: it is   *)
(* what the mod needs, once each, and it is refused only for a circle.       *)
(****************************************************************************)
EXTENDS DependencyGraph, ListLemmas

DepRefs == [cross : BOOLEAN, id : Ids]

\* The library has as many mods as have been added to it.
TypeInv == TypeOK /\ IsFiniteSet(library)

----------------------------------------------------------------------------
(* Types *)

LEMMA RefsAre == {Same(m) : m \in Ids} \cup {Other(m) : m \in Ids} = DepRefs
<1>1. \A d \in DepRefs : \E m \in Ids : d = Same(m) \/ d = Other(m)
  <2> TAKE d \in DepRefs
  <2>1. d = [cross |-> d.cross, id |-> d.id] BY DEF DepRefs
  <2>2. d.id \in Ids /\ (d.cross = FALSE \/ d.cross = TRUE) BY DEF DepRefs
  <2> QED BY <2>1, <2>2 DEF Same, Other
<1>2. \A m \in Ids : Same(m) \in DepRefs /\ Other(m) \in DepRefs BY DEF Same, Other, DepRefs
<1> QED BY <1>1, <1>2

LEMMA ListsTyped ==
    ASSUME TypeOK
    PROVE  /\ deps \in [Ids -> Seq(DepRefs)] /\ DOMAIN deps = Ids
           /\ Given \subseteq Seq(DepRefs)
BY RefsAre, Given_Assumption DEF TypeOK

LEMMA InitTyped == Init => TypeInv
<1> SUFFICES ASSUME Init PROVE TypeInv OBVIOUS
<1>1. <<>> \in Seq(DepRefs) OBVIOUS
<1> QED BY <1>1, RefsAre, FS_EmptySet DEF Init, TypeInv, TypeOK

LEMMA StepTyped == TypeInv /\ [Next]_vars => TypeInv'
<1> SUFFICES ASSUME TypeInv, [Next]_vars PROVE TypeInv' OBVIOUS
<1> USE DEF TypeInv
<1>1. /\ library \subseteq Ids /\ deps \in [Ids -> Seq(DepRefs)] /\ Given \subseteq Seq(DepRefs)
  BY ListsTyped DEF TypeOK
<1>2. ASSUME NEW m \in Ids, NEW S PROVE Without(deps[m], S) \in Seq(DepRefs)
  BY <1>1, WithoutThins
<1>3. SUFFICES /\ library' \subseteq Ids /\ IsFiniteSet(library')
               /\ deps' \in [Ids -> Seq(DepRefs)]
  BY RefsAre DEF TypeOK
<1>4. CASE UNCHANGED vars BY <1>1, <1>4 DEF vars
<1>5. CASE Next
  <2>1. PICK m \in Ids : \/ \E list \in Given : ModCreate(m, list) \/ UpdateModMeta(m, list)
                         \/ RemoveMod(m)
                         \/ DropMissing(m)
    BY <1>5 DEF Next
  <2>2. ASSUME NEW list \in Given, ModCreate(m, list) \/ UpdateModMeta(m, list)
        PROVE  /\ library' \subseteq Ids /\ IsFiniteSet(library')
               /\ deps' \in [Ids -> Seq(DepRefs)]
    <3>1. IsFiniteSet(library \cup {m}) BY FS_AddElement
    <3> QED BY <1>1, <2>2, <3>1 DEF ModCreate, UpdateModMeta
  <2>3. CASE RemoveMod(m)
    <3>1. IsFiniteSet(library \ {m}) BY FS_RemoveElement
    <3>2. <<>> \in Seq(DepRefs) OBVIOUS
    <3> QED BY <1>1, <1>2, <2>3, <3>1, <3>2 DEF RemoveMod
  <2>4. CASE DropMissing(m)
    <3>1. PICK S : deps' = [deps EXCEPT ![m] = Without(deps[m], S)] BY <2>4 DEF DropMissing
    <3>2. Without(deps[m], S) \in Seq(DepRefs) BY <1>2
    <3> QED BY <1>1, <2>4, <3>1, <3>2 DEF DropMissing
  <2> QED BY <2>1, <2>2, <2>3, <2>4
<1> QED BY <1>4, <1>5

\* Whatever lists are given, dropped or thinned out, they are lists of dependencies, and
\* the library stays finite.
THEOREM TypeCorrect == Spec => [](TypeOK /\ IsFiniteSet(library))
BY InitTyped, StepTyped, PTL DEF Spec, TypeInv

----------------------------------------------------------------------------
(* What the recursion of the walk defines *)

TheWalks == Walks(deps, library)

LEMMA WalkParts ==
    ASSUME TypeOK, NEW w \in TheWalks
    PROVE  /\ w.resolved \in Seq(library) /\ w.unresolved \in SUBSET library
           /\ w.missing \in Seq(DepRefs) /\ w.cycle \in BOOLEAN
BY ListsTyped DEF TheWalks, Walks, DepRefs

LEMMA FollowTyped ==
    ASSUME TypeOK, NEW visit \in [library -> [TheWalks -> TheWalks]], NEW w \in TheWalks,
           NEW d \in DepRefs
    PROVE  Follow(library, visit, w, d) \in TheWalks
<1>1. d.id \in Ids /\ d.cross \in BOOLEAN BY DEF DepRefs
<1>2. w.missing \in Seq(DepRefs) BY WalkParts
<1>3. Append(w.missing, d) \in Seq(DepRefs) BY <1>2
<1>4. [w EXCEPT !.missing = Append(w.missing, d)] \in TheWalks
  BY <1>3, ListsTyped DEF TheWalks, Walks, DepRefs
<1>5. [w EXCEPT !.cycle = TRUE] \in TheWalks BY DEF TheWalks, Walks
<1>6. d.id \in library => visit[d.id][w] \in TheWalks OBVIOUS
<1>7. w.cycle \in BOOLEAN BY WalkParts
<1> QED BY <1>1, <1>4, <1>5, <1>6, <1>7 DEF Follow

\* FollowAll takes one dependency after the other.
Followed(L, visit, W, w, ds, after) ==
    /\ after \in [0 .. Len(ds) -> W] /\ after[0] = w
    /\ \A i \in 1 .. Len(ds) : after[i] = Follow(L, visit, after[i - 1], ds[i])

LEMMA FollowAllIs ==
    ASSUME NEW L, NEW visit, NEW W, NEW w \in W, NEW D, NEW ds \in Seq(D),
           \A v \in W, d \in D : Follow(L, visit, v, d) \in W
    PROVE  \E after : /\ Followed(L, visit, W, w, ds, after)
                      /\ FollowAll(L, visit, w, ds) = after[Len(ds)]
<1> DEFINE One(i, v) == Follow(L, visit, v, ds[i])
           h == [p \in Nat \X W |-> IF p[1] \in 1 .. Len(ds) THEN One(p[1], p[2]) ELSE p[2]]
           Is(f) == f = [i \in 0 .. Len(ds) |-> IF i = 0 THEN w ELSE One(i, f[i - 1])]
           after == CHOOSE f : Is(f)
<1>0. Len(ds) \in Nat OBVIOUS
<1>1. \A i \in 1 .. Len(ds), v \in W : One(i, v) \in W OBVIOUS
<1>2. FollowAll(L, visit, w, ds) = after[Len(ds)] BY DEF FollowAll
<1> HIDE DEF One
<1>3. h \in [Nat \X W -> W] BY <1>1
<1> HIDE DEF h
<1>4. PICK g : IsRecursive(W, w, h, g) BY <1>3, Recursion
<1> DEFINE f == [i \in 0 .. Len(ds) |-> g[i]]
<1>5. \A i \in 1 .. Len(ds) : f[i] = One(i, f[i - 1])
  <2> TAKE i \in 1 .. Len(ds)
  <2>1. i \in Nat \ {0} /\ i - 1 \in Nat /\ i - 1 \in 0 .. Len(ds) /\ i \in 0 .. Len(ds) OBVIOUS
  <2>2. g[i] = h[<<i, g[i - 1]>>] /\ g[i - 1] \in W BY <1>4, <2>1 DEF IsRecursive
  <2>3. h[<<i, g[i - 1]>>] = One(i, g[i - 1]) BY <2>1, <2>2 DEF h
  <2> QED BY <2>1, <2>2, <2>3
<1>6. f[0] = w BY <1>0, <1>4 DEF IsRecursive
<1>7. Is(f)
  <2>1. \A i \in 0 .. Len(ds) : f[i] = IF i = 0 THEN w ELSE One(i, f[i - 1])
    <3> TAKE i \in 0 .. Len(ds)
    <3>1. CASE i = 0 BY <1>6, <3>1
    <3>2. CASE i # 0
      <4>1. i \in 1 .. Len(ds) BY <3>2
      <4> HIDE DEF f
      <4> QED BY <1>5, <3>2, <4>1
    <3> QED BY <3>1, <3>2
  <2> QED BY <2>1
<1>8. Is(after)
  <2> HIDE DEF Is, f
  <2> QED BY <1>7
<1> HIDE DEF after
<1>9. after[0] = w /\ \A i \in 1 .. Len(ds) : after[i] = One(i, after[i - 1])
  <2>1. after[0] = w BY <1>0, <1>8
  <2>2. ASSUME NEW i \in 1 .. Len(ds) PROVE after[i] = One(i, after[i - 1])
    <3>1. i \in 0 .. Len(ds) /\ i # 0 OBVIOUS
    <3> QED BY <1>8, <3>1
  <2> QED BY <2>1, <2>2
<1>10. \A i \in 0 .. Len(ds) : after[i] \in W
  <2> DEFINE Bad == {i \in 0 .. Len(ds) : after[i] \notin W}
  <2> SUFFICES ASSUME Bad # {} PROVE FALSE OBVIOUS
  <2>1. PICK b \in Bad : \A c \in Bad : b <= c
    <3>1. Bad \in SUBSET Nat OBVIOUS
    <3> QED BY <3>1, LeastOf
  <2>2. b # 0 BY <1>9, <2>1
  <2>3. b \in 1 .. Len(ds) /\ b - 1 \in 0 .. Len(ds) /\ ~(b <= b - 1) BY <2>1, <2>2
  <2>4. after[b - 1] \in W BY <2>1, <2>3
  <2> QED BY <1>1, <1>9, <2>1, <2>3, <2>4
<1>11. after \in [0 .. Len(ds) -> W] BY <1>8, <1>10
<1>12. Followed(L, visit, W, w, ds, after) BY <1>9, <1>11 DEF One, Followed
<1> QED BY <1>2, <1>12

TheVisits == [library -> [TheWalks -> TheWalks]]

LEMMA FollowAllTyped ==
    ASSUME TypeOK, NEW visit \in TheVisits, NEW w \in TheWalks, NEW ds \in Seq(DepRefs)
    PROVE  FollowAll(library, visit, w, ds) \in TheWalks
<1>1. \A v \in TheWalks, d \in DepRefs : Follow(library, visit, v, d) \in TheWalks
  BY FollowTyped DEF TheVisits
<1>2. PICK after : /\ Followed(library, visit, TheWalks, w, ds, after)
                   /\ FollowAll(library, visit, w, ds) = after[Len(ds)]
  BY <1>1, FollowAllIs
<1>3. Len(ds) \in 0 .. Len(ds) OBVIOUS
<1> QED BY <1>2, <1>3 DEF Followed

LEMMA EnteredTyped ==
    ASSUME TypeOK, NEW w \in TheWalks, NEW m \in library
    PROVE  Entered(w, m) \in TheWalks
<1>1. w.resolved \in Seq(library) /\ w.unresolved \in SUBSET library BY WalkParts
<1>2. Append(w.resolved, m) \in Seq(library) BY <1>1
<1> QED BY <1>1, <1>2 DEF Entered, TheWalks, Walks

LEMMA VisitTyped ==
    ASSUME TypeOK, NEW visit \in TheVisits, NEW w \in TheWalks, NEW m \in library
    PROVE  Visit(deps, library, visit, w, m) \in TheWalks
<1> DEFINE out == FollowAll(library, visit, Entered(w, m), deps[m])
<1>1. deps[m] \in Seq(DepRefs)
  <2>1. m \in Ids BY DEF TypeOK
  <2> QED BY <2>1, ListsTyped
<1>2. out \in TheWalks BY <1>1, EnteredTyped, FollowAllTyped
<1> HIDE DEF out
<1>3. out.unresolved \in SUBSET library BY <1>2, WalkParts
<1>4. [out EXCEPT !.unresolved = out.unresolved \ {m}] \in TheWalks
  BY <1>2, <1>3 DEF TheWalks, Walks
<1> QED BY <1>2, <1>4 DEF Visit, out

LEMMA NewWalkTyped == NewWalk \in TheWalks
BY DEF NewWalk, TheWalks, Walks

\* A walk that may go on to n mods is what the code does with one that may go on to
\* n - 1.
LEMMA VisitsAre ==
    ASSUME TypeOK
    PROVE  LET visit == VisitsOf(deps, library)
           IN  /\ \A n \in Nat : visit[n] \in TheVisits
               /\ \A m \in library, w \in TheWalks : visit[0][m][w] = w
               /\ \A n \in Nat \ {0}, m \in library, w \in TheWalks :
                     visit[n][m][w] = Visit(deps, library, visit[n - 1], w, m)
<1> DEFINE One(v) == [m \in library |-> [w \in TheWalks |-> Visit(deps, library, v, w, m)]]
           none == [m \in library |-> [w \in TheWalks |-> w]]
           h == [p \in Nat \X TheVisits |-> One(p[2])]
           Is(f) == f = [n \in Nat |-> [m \in library |-> [w \in TheWalks |->
                            IF n = 0 THEN w ELSE Visit(deps, library, f[n - 1], w, m)]]]
           visit == CHOOSE f : Is(f)
<1>1. VisitsOf(deps, library) = visit BY DEF VisitsOf, TheWalks
<1>2. none \in TheVisits BY DEF TheVisits
<1>3. \A v \in TheVisits : One(v) \in TheVisits BY VisitTyped DEF TheVisits
<1>4. h \in [Nat \X TheVisits -> TheVisits]
  <2> HIDE DEF One
  <2> QED BY <1>3
<1>5. \A f : Is(f) <=> f = [n \in Nat |-> IF n = 0 THEN none ELSE One(f[n - 1])]
  <2> TAKE f
  <2> DEFINE left == [n \in Nat |-> [m \in library |-> [w \in TheWalks |->
                            IF n = 0 THEN w ELSE Visit(deps, library, f[n - 1], w, m)]]]
             right == [n \in Nat |-> IF n = 0 THEN none ELSE One(f[n - 1])]
  <2>1. \A n \in Nat : left[n] = right[n] OBVIOUS
  <2>2. left = right
    <3>1. left = [n \in Nat |-> left[n]] /\ right = [n \in Nat |-> right[n]] OBVIOUS
    <3> HIDE DEF left, right
    <3> QED BY <2>1, <3>1
  <2>3. Is(f) <=> f = left OBVIOUS
  <2> HIDE DEF left, right, Is
  <2>4. (f = left) <=> (f = right) BY <2>2
  <2> QED BY <2>3, <2>4 DEF right
<1> HIDE DEF h, Is, One, none
<1>6. PICK g : IsRecursive(TheVisits, none, h, g) BY <1>2, <1>4, Recursion
<1>7. \A n \in Nat : g[n] = IF n = 0 THEN none ELSE One(g[n - 1])
  <2> TAKE n \in Nat
  <2>1. CASE n = 0 BY <1>6, <2>1 DEF IsRecursive
  <2>2. CASE n # 0
    <3>1. n \in Nat \ {0} /\ n - 1 \in Nat BY <2>2
    <3>2. g[n] = h[<<n, g[n - 1]>>] /\ g[n - 1] \in TheVisits BY <1>6, <3>1 DEF IsRecursive
    <3>3. h[<<n, g[n - 1]>>] = One(g[n - 1]) BY <3>2 DEF h
    <3> QED BY <2>2, <3>2, <3>3
  <2> QED BY <2>1, <2>2
<1>8. Is(visit)
  <2>1. g = [n \in Nat |-> g[n]] BY <1>6 DEF IsRecursive
  <2>2. g = [n \in Nat |-> IF n = 0 THEN none ELSE One(g[n - 1])] BY <1>7, <2>1
  <2>3. Is(g) BY <1>5, <2>2
  <2> QED BY <2>3
<1> HIDE DEF visit
<1>9. visit[0] = none /\ \A n \in Nat \ {0} : visit[n] = One(visit[n - 1])
  <2>1. visit = [n \in Nat |-> IF n = 0 THEN none ELSE One(visit[n - 1])] BY <1>5, <1>8
  <2>2. \A n \in Nat : visit[n] = IF n = 0 THEN none ELSE One(visit[n - 1]) BY <2>1
  <2> QED BY <2>2
<1>10. \A n \in Nat : visit[n] \in TheVisits
  <2> DEFINE Bad == {n \in Nat : visit[n] \notin TheVisits}
  <2> SUFFICES ASSUME Bad # {} PROVE FALSE OBVIOUS
  <2>1. PICK b \in Bad : \A c \in Bad : b <= c
    <3>1. Bad \in SUBSET Nat OBVIOUS
    <3> QED BY <3>1, LeastOf
  <2>2. b # 0 BY <1>2, <1>9, <2>1
  <2>3. b \in Nat \ {0} /\ b - 1 \in Nat /\ ~(b <= b - 1) BY <2>1, <2>2
  <2>4. visit[b - 1] \in TheVisits BY <2>1, <2>3
  <2> QED BY <1>3, <1>9, <2>1, <2>3, <2>4
<1>11. \A m \in library, w \in TheWalks : visit[0][m][w] = w BY <1>9 DEF none
<1>12. \A n \in Nat \ {0}, m \in library, w \in TheWalks :
         visit[n][m][w] = Visit(deps, library, visit[n - 1], w, m)
  <2> TAKE n \in Nat \ {0}, m \in library, w \in TheWalks
  <2>1. visit[n] = One(visit[n - 1]) BY <1>9
  <2>2. visit[n][m] = [u \in TheWalks |-> Visit(deps, library, visit[n - 1], u, m)]
    BY <2>1 DEF One
  <2> QED BY <2>2
<1> QED BY <1>1, <1>10, <1>11, <1>12

----------------------------------------------------------------------------
(* What a mod reaches *)

LEMMA Reaching ==
    /\ \A x \in library : x \in ReachedFrom(x) /\ ReachedFrom(x) \subseteq library
    /\ \A x \in library : \A y \in ReachedFrom(x) : \A z : Needs(y, z) => z \in ReachedFrom(x)
    /\ \A x \in library : \A S \in SUBSET library :
          x \in S /\ IsClosed(S) => ReachedFrom(x) \subseteq S
<1>1. \A x \in library : x \in ReachedFrom(x) /\ ReachedFrom(x) \subseteq library
  BY DEF ReachedFrom
<1>2. ASSUME NEW x \in library, NEW y \in ReachedFrom(x), NEW z, Needs(y, z)
      PROVE  z \in ReachedFrom(x)
  <2>1. z \in library BY <1>2 DEF Needs
  <2>2. ASSUME NEW S \in SUBSET library, x \in S, IsClosed(S) PROVE z \in S
    <3>1. y \in S BY <2>2 DEF ReachedFrom
    <3> QED BY <1>2, <2>1, <2>2, <3>1 DEF IsClosed
  <2> QED BY <2>1, <2>2 DEF ReachedFrom
<1>3. \A x \in library : \A S \in SUBSET library :
          x \in S /\ IsClosed(S) => ReachedFrom(x) \subseteq S
  BY DEF ReachedFrom
<1> QED BY <1>1, <1>2, <1>3

LEMMA NeedsAre ==
    ASSUME TypeOK, NEW x \in library, NEW y
    PROVE  Needs(x, y) <=> y \in library /\ \E i \in 1 .. Len(deps[x]) : deps[x][i] = Same(y)
<1>1. deps[x] \in Seq(DepRefs) BY ListsTyped DEF TypeOK
<1>2. Contains(deps[x], Same(y)) <=> Same(y) \in ToSet(deps[x]) BY <1>1, ListElements
<1>3. DOMAIN deps[x] = 1 .. Len(deps[x]) BY <1>1
<1>4. Same(y) \in ToSet(deps[x]) <=> \E i \in 1 .. Len(deps[x]) : deps[x][i] = Same(y)
  BY <1>3 DEF ToSet
<1> QED BY <1>2, <1>4 DEF Needs

----------------------------------------------------------------------------
(* The walk from r *)

\* The mods of the chain the walk has left: what they need is among them, and none of
\* them is on a circle.
Done(w) == ToSet(w.resolved) \ w.unresolved

Sound(r, w) ==
    /\ ~w.cycle
    /\ IsInjective(w.resolved)
    /\ w.unresolved \subseteq ToSet(w.resolved) /\ ToSet(w.resolved) \subseteq ReachedFrom(r)
    /\ IsClosed(Done(w))
    /\ \A x \in Done(w) : ~OnCircle(x)
    /\ w.resolved # <<>> => Head(w.resolved) = r

\* What a walk w may have become by the time it is back on the same path.
Later(r, w, v) ==
    /\ v.cycle => \E x \in ReachedFrom(r) : OnCircle(x)
    /\ ~v.cycle => /\ Sound(r, v)
                   /\ v.unresolved = w.unresolved
                   /\ ToSet(w.resolved) \subseteq ToSet(v.resolved)

\* The path of w leads to m.
LeadsTo(w, m) == \A u \in w.unresolved : m \in ReachedFrom(u)

MayGoOn(r, w, m) ==
    /\ m \in ReachedFrom(r) /\ m \notin w.unresolved /\ LeadsTo(w, m)
    /\ w.resolved = <<>> => m = r

MayEnter(w, k) == Cardinality(library \ ToSet(w.resolved)) <= k

\* A walk into a mod, which has k mods left to enter at most, comes back with that mod
\* done, or with a circle that is there.
GoesWell(r, w, m, v) == Later(r, w, v) /\ (~v.cycle => m \in Done(v))

VisitsWell(r, k, visit) ==
    \A m \in library, w \in TheWalks :
        Sound(r, w) /\ MayGoOn(r, w, m) /\ MayEnter(w, k) => GoesWell(r, w, m, visit[m][w])

LEMMA LaterStill ==
    ASSUME NEW r, NEW w, NEW v, NEW u, Later(r, w, v), ~v.cycle, Later(r, v, u)
    PROVE  Later(r, w, u) /\ (~u.cycle => Done(v) \subseteq Done(u))
BY DEF Later, Done

\* Fewer mods are left when the chain is longer.
LEMMA EnterFewer ==
    ASSUME IsFiniteSet(library), NEW k \in Nat, NEW w, NEW v, MayEnter(w, k),
           ToSet(w.resolved) \subseteq ToSet(v.resolved)
    PROVE  MayEnter(v, k)
<1> DEFINE A == library \ ToSet(v.resolved)
           B == library \ ToSet(w.resolved)
<1>1. A \subseteq B OBVIOUS
<1>2. IsFiniteSet(B) BY FS_Subset
<1>3. IsFiniteSet(A) /\ Cardinality(A) <= Cardinality(B) BY <1>1, <1>2, FS_Subset
<1>4. Cardinality(A) \in Nat /\ Cardinality(B) \in Nat BY <1>2, <1>3, FS_CardinalityType
<1>5. Cardinality(B) <= k BY DEF MayEnter
<1> HIDE DEF A, B
<1>6. Cardinality(A) <= k BY <1>3, <1>4, <1>5
<1> QED BY <1>6 DEF MayEnter, A

\* One dependency of m, the last mod of the path.
LEMMA FollowGoes ==
    ASSUME TypeOK, NEW r \in library, NEW k \in Nat, NEW visit \in TheVisits,
           VisitsWell(r, k, visit),
           NEW w \in TheWalks, Sound(r, w), MayEnter(w, k),
           NEW m \in w.unresolved, LeadsTo(w, m),
           NEW i \in 1 .. Len(deps[m])
    PROVE  LET d == deps[m][i]
               v == Follow(library, visit, w, d)
           IN  Later(r, w, v) /\ (~v.cycle /\ ~d.cross /\ d.id \in library => d.id \in Done(v))
<1> DEFINE d == deps[m][i]
           v == Follow(library, visit, w, d)
<1>1. /\ w.resolved \in Seq(library) /\ w.unresolved \in SUBSET library
      /\ w.missing \in Seq(DepRefs) /\ w.cycle = FALSE
  BY WalkParts DEF Sound
<1>2. m \in library /\ m \in ToSet(w.resolved) /\ m \in ReachedFrom(r) BY <1>1 DEF Sound
<1>3. w.resolved # <<>>
  <2>1. ToSet(<<>>) = {} BY DEF ToSet
  <2> QED BY <1>2, <2>1
<1>4. d \in DepRefs
  <2>1. deps[m] \in Seq(DepRefs) BY <1>2, ListsTyped DEF TypeOK
  <2> QED BY <2>1
<1>5. d.id \in Ids /\ d.cross \in BOOLEAN /\ d = [cross |-> d.cross, id |-> d.id]
  BY <1>4 DEF DepRefs
<1>6. ASSUME ~d.cross, d.id \in library PROVE Needs(m, d.id)
  <2>1. d = Same(d.id) BY <1>5, <1>6 DEF Same
  <2> QED BY <1>2, <1>6, <2>1, NeedsAre
<1>7. Later(r, w, w) BY DEF Later, Sound
<1> HIDE DEF d
<1>8. CASE ~d.cross /\ d.id \in w.unresolved
  <2>1. v = [w EXCEPT !.cycle = TRUE] BY <1>1, <1>8 DEF Follow
  <2>2. v.cycle BY <2>1 DEF TheWalks, Walks
  <2>3. d.id \in library /\ Needs(m, d.id) /\ m \in ReachedFrom(d.id)
    BY <1>1, <1>6, <1>8 DEF LeadsTo
  <2>4. OnCircle(m) BY <2>3 DEF OnCircle
  <2> HIDE DEF v
  <2>5. Later(r, w, v) BY <1>2, <2>2, <2>4 DEF Later
  <2> QED BY <2>2, <2>5 DEF d, v
<1>9. CASE (d.cross \/ d.id \notin w.unresolved) /\ d.id \notin library
  <2>1. v = [w EXCEPT !.missing = Append(w.missing, d)] BY <1>1, <1>9 DEF Follow
  <2>2. v.resolved = w.resolved /\ v.unresolved = w.unresolved /\ v.cycle = w.cycle
    BY <2>1 DEF TheWalks, Walks
  <2> HIDE DEF v
  <2>3. Later(r, w, v) BY <1>7, <2>2 DEF Later, Sound, Done
  <2> QED BY <1>9, <2>3 DEF d, v
<1>10. CASE d.cross /\ d.id \in library
  <2>1. v = w BY <1>1, <1>10 DEF Follow
  <2> QED BY <1>7, <1>10, <2>1 DEF d
<1>11. CASE ~d.cross /\ d.id \notin w.unresolved /\ d.id \in library
  <2>1. v = visit[d.id][w] BY <1>1, <1>11 DEF Follow
  <2>2. d.id \in ReachedFrom(r) BY <1>2, <1>6, <1>11, Reaching
  <2>3. LeadsTo(w, d.id)
    <3> SUFFICES ASSUME NEW u \in w.unresolved PROVE d.id \in ReachedFrom(u) BY DEF LeadsTo
    <3>1. u \in library /\ m \in ReachedFrom(u) BY <1>1 DEF LeadsTo
    <3> QED BY <1>6, <1>11, <3>1, Reaching
  <2>4. MayGoOn(r, w, d.id) BY <1>3, <1>11, <2>2, <2>3 DEF MayGoOn
  <2>5. GoesWell(r, w, d.id, v) BY <1>11, <2>1, <2>4 DEF VisitsWell
  <2> HIDE DEF v
  <2> QED BY <2>5 DEF GoesWell, d, v
<1> QED BY <1>5, <1>8, <1>9, <1>10, <1>11

\* All the dependencies of m: each of them is done, or there is a circle.
LEMMA FollowAllGoes ==
    ASSUME TypeInv, NEW r \in library, NEW k \in Nat, NEW visit \in TheVisits,
           VisitsWell(r, k, visit),
           NEW w \in TheWalks, Sound(r, w), MayEnter(w, k),
           NEW m \in w.unresolved, LeadsTo(w, m)
    PROVE  LET v == FollowAll(library, visit, w, deps[m])
           IN  Later(r, w, v) /\ (~v.cycle => \A y : Needs(m, y) => y \in Done(v))
<1> USE DEF TypeInv
<1> DEFINE ds == deps[m]
<1>1. m \in library BY WalkParts
<1>2. ds \in Seq(DepRefs) BY <1>1, ListsTyped DEF TypeOK
<1>3. \A v \in TheWalks, d \in DepRefs : Follow(library, visit, v, d) \in TheWalks
  BY FollowTyped DEF TheVisits
<1>4. PICK after : /\ Followed(library, visit, TheWalks, w, ds, after)
                   /\ FollowAll(library, visit, w, ds) = after[Len(ds)]
  BY <1>2, <1>3, FollowAllIs
<1> DEFINE Ok(i) == /\ Later(r, w, after[i])
                    /\ ~after[i].cycle => \A j \in 1 .. i :
                          ~ds[j].cross /\ ds[j].id \in library => ds[j].id \in Done(after[i])
<1>5. Len(ds) \in Nat BY <1>2
<1>6. Ok(0)
  <2>1. after[0] = w BY <1>4 DEF Followed
  <2> QED BY <2>1 DEF Later, Sound
<1>7. ASSUME NEW i \in 1 .. Len(ds), Ok(i - 1) PROVE Ok(i)
  <2> DEFINE v == after[i - 1]
             u == after[i]
  <2>1. i - 1 \in 0 .. Len(ds) /\ \A j \in 1 .. i : j = i \/ j \in 1 .. (i - 1) BY <1>5
  <2>2. v \in TheWalks /\ u = Follow(library, visit, v, ds[i]) BY <1>4, <2>1 DEF Followed
  <2> HIDE DEF v, u, ds
  <2>3. CASE v.cycle
    <3>1. u = v BY <2>2, <2>3 DEF Follow
    <3> QED BY <1>7, <2>3, <3>1 DEF v, u, Later
  <2>4. CASE ~v.cycle
    <3>1. /\ Sound(r, v) /\ v.unresolved = w.unresolved
          /\ ToSet(w.resolved) \subseteq ToSet(v.resolved)
      BY <1>7, <2>4 DEF v, Later
    <3>2. MayEnter(v, k) BY <3>1, EnterFewer
    <3>3. m \in v.unresolved /\ LeadsTo(v, m) BY <3>1 DEF LeadsTo
    <3>4. /\ Later(r, v, u)
          /\ ~u.cycle /\ ~ds[i].cross /\ ds[i].id \in library => ds[i].id \in Done(u)
      BY <2>2, <3>1, <3>2, <3>3, FollowGoes DEF ds
    <3>5. Later(r, w, u) /\ (~u.cycle => Done(v) \subseteq Done(u))
      <4>1. Later(r, w, v) BY <1>7 DEF v
      <4> QED BY <2>4, <3>4, <4>1, LaterStill
    <3>6. ASSUME ~u.cycle, NEW j \in 1 .. i, ~ds[j].cross, ds[j].id \in library
          PROVE  ds[j].id \in Done(u)
      <4>1. CASE j = i BY <3>4, <3>6, <4>1
      <4>2. CASE j \in 1 .. (i - 1) BY <1>7, <2>4, <3>5, <3>6, <4>2 DEF v
      <4> QED BY <2>1, <4>1, <4>2
    <3> QED BY <3>5, <3>6 DEF u
  <2> QED BY <2>3, <2>4
<1>8. Ok(Len(ds))
  <2> DEFINE Bad == {i \in 0 .. Len(ds) : ~Ok(i)}
  <2> HIDE DEF Ok, ds
  <2>1. Bad = {}
    <3> SUFFICES ASSUME Bad # {} PROVE FALSE OBVIOUS
    <3>1. Bad \in SUBSET Nat BY <1>5
    <3>2. PICK b \in Bad : \A c \in Bad : b <= c BY <3>1, LeastOf
    <3>3. b # 0 BY <1>6
    <3>4. b \in 1 .. Len(ds) /\ b - 1 \in 0 .. Len(ds) /\ ~(b <= b - 1) BY <1>5, <3>3
    <3>5. Ok(b - 1) BY <3>2, <3>4
    <3> QED BY <1>7, <3>2, <3>4, <3>5
  <2> QED BY <1>5, <2>1
<1> DEFINE v == after[Len(ds)]
<1>9. ASSUME ~v.cycle, NEW y, Needs(m, y) PROVE y \in Done(v)
  <2>1. PICK j \in 1 .. Len(ds) : ds[j] = Same(y) BY <1>1, <1>9, NeedsAre
  <2>2. ~ds[j].cross /\ ds[j].id = y /\ y \in library BY <1>9, <2>1 DEF Same, Needs
  <2> HIDE DEF ds
  <2> QED BY <1>8, <1>9, <2>2
<1> QED BY <1>4, <1>8, <1>9

----------------------------------------------------------------------------
(* Into a mod and out of it *)

LEMMA Enters ==
    ASSUME TypeInv, NEW r \in library, NEW k \in Nat, NEW w \in TheWalks, Sound(r, w),
           NEW m \in library, MayGoOn(r, w, m), m \notin ToSet(w.resolved), MayEnter(w, k + 1)
    PROVE  LET e == Entered(w, m)
           IN  /\ Sound(r, e) /\ LeadsTo(e, m) /\ MayEnter(e, k)
               /\ ToSet(e.resolved) = ToSet(w.resolved) \cup {m}
               /\ e.unresolved = w.unresolved \cup {m}
<1> USE DEF TypeInv
<1> DEFINE e == Entered(w, m)
<1>1. w.resolved \in Seq(library) /\ w.unresolved \in SUBSET library BY WalkParts
<1>2. /\ e.resolved = Append(w.resolved, m) /\ e.unresolved = w.unresolved \cup {m}
      /\ e.cycle = w.cycle
  BY DEF Entered, TheWalks, Walks
<1> HIDE DEF e
<1>3. ToSet(e.resolved) = ToSet(w.resolved) \cup {m} BY <1>1, <1>2, ListElements
<1>4. IsInjective(e.resolved)
  <2>1. /\ DOMAIN w.resolved = 1 .. Len(w.resolved) /\ Len(w.resolved) \in Nat
        /\ DOMAIN e.resolved = 1 .. (Len(w.resolved) + 1)
        /\ e.resolved[Len(w.resolved) + 1] = m
        /\ \A i \in 1 .. Len(w.resolved) : e.resolved[i] = w.resolved[i]
    BY <1>1, <1>2
  <2>2. \A i \in DOMAIN e.resolved : i = Len(w.resolved) + 1 \/ i \in DOMAIN w.resolved
    BY <2>1
  <2>3. \A i \in DOMAIN w.resolved : e.resolved[i] = w.resolved[i] /\ w.resolved[i] # m
    BY <2>1 DEF ToSet
  <2>4. \A i, j \in DOMAIN w.resolved : w.resolved[i] = w.resolved[j] => i = j
    BY DEF Sound, IsInjective
  <2> SUFFICES ASSUME NEW i \in DOMAIN e.resolved, NEW j \in DOMAIN e.resolved,
                      e.resolved[i] = e.resolved[j]
               PROVE  i = j
    BY DEF IsInjective
  <2> QED BY <2>1, <2>2, <2>3, <2>4
<1>5. Done(e) = Done(w) BY <1>2, <1>3 DEF Done
<1>6. Head(e.resolved) = r
  <2>1. CASE w.resolved = <<>>
    <3>1. m = r BY <2>1 DEF MayGoOn
    <3> QED BY <1>2, <2>1, <3>1
  <2>2. CASE w.resolved # <<>>
    <3>1. Head(Append(w.resolved, m)) = Head(w.resolved) BY <1>1, <2>2
    <3> QED BY <1>2, <2>2, <3>1 DEF Sound
  <2> QED BY <2>1, <2>2
<1>7. Sound(r, e) BY <1>2, <1>3, <1>4, <1>5, <1>6 DEF Sound, MayGoOn
<1>8. LeadsTo(e, m) BY <1>2, Reaching DEF LeadsTo, MayGoOn
<1>9. MayEnter(e, k)
  <2> DEFINE B == library \ ToSet(w.resolved)
  <2>1. IsFiniteSet(B) /\ m \in B BY FS_Subset
  <2>2. library \ ToSet(e.resolved) = B \ {m} BY <1>3
  <2> HIDE DEF B
  <2>3. Cardinality(B \ {m}) = Cardinality(B) - 1 /\ Cardinality(B) \in Nat
    BY <2>1, FS_RemoveElement, FS_CardinalityType
  <2>4. Cardinality(B) <= k + 1 BY DEF MayEnter, B
  <2> QED BY <2>2, <2>3, <2>4 DEF MayEnter
<1> QED BY <1>2, <1>3, <1>7, <1>8, <1>9 DEF e

\* A walk that goes well with k mods left to enter goes well with one more.
LEMMA VisitGoes ==
    ASSUME TypeInv, NEW r \in library, NEW k \in Nat, NEW visit \in TheVisits,
           VisitsWell(r, k, visit),
           NEW w \in TheWalks, Sound(r, w), NEW m \in library, MayGoOn(r, w, m),
           MayEnter(w, k + 1)
    PROVE  GoesWell(r, w, m, Visit(deps, library, visit, w, m))
<1> USE DEF TypeInv
<1> DEFINE e == Entered(w, m)
           out == FollowAll(library, visit, e, deps[m])
           v == Visit(deps, library, visit, w, m)
<1>1. /\ w.resolved \in Seq(library) /\ w.unresolved \in SUBSET library /\ ~w.cycle
      /\ m \notin w.unresolved
  BY WalkParts DEF Sound, MayGoOn
<1>2. Contains(w.resolved, m) <=> m \in ToSet(w.resolved) BY <1>1, ListElements
<1>3. CASE m \in ToSet(w.resolved)
  <2>1. v = w BY <1>2, <1>3 DEF Visit
  <2>2. m \in Done(w) BY <1>1, <1>3 DEF Done
  <2>3. Later(r, w, w) BY DEF Later, Sound
  <2> QED BY <2>1, <2>2, <2>3 DEF GoesWell
<1>4. CASE m \notin ToSet(w.resolved)
  <2>1. /\ Sound(r, e) /\ LeadsTo(e, m) /\ MayEnter(e, k)
        /\ ToSet(e.resolved) = ToSet(w.resolved) \cup {m}
        /\ e.unresolved = w.unresolved \cup {m}
    BY <1>4, Enters
  <2>2. e \in TheWalks /\ m \in e.unresolved BY <2>1, EnteredTyped
  <2>3. v = IF out.cycle THEN out ELSE [out EXCEPT !.unresolved = out.unresolved \ {m}]
    BY <1>1, <1>2, <1>4 DEF Visit
  <2> HIDE DEF e
  <2>4. Later(r, e, out) /\ (~out.cycle => \A y : Needs(m, y) => y \in Done(out))
    BY <2>1, <2>2, FollowAllGoes
  <2>5. out \in TheWalks
    <3>1. deps[m] \in Seq(DepRefs) BY ListsTyped DEF TypeOK
    <3> QED BY <2>2, <3>1, FollowAllTyped
  <2> SUFFICES GoesWell(r, w, m, v) OBVIOUS
  <2> HIDE DEF out, v
  <2>6. CASE out.cycle BY <2>3, <2>4, <2>6 DEF Later, GoesWell
  <2>7. CASE ~out.cycle
    <3>1. /\ Sound(r, out) /\ out.unresolved = w.unresolved \cup {m}
          /\ ToSet(w.resolved) \cup {m} \subseteq ToSet(out.resolved)
      BY <2>1, <2>4, <2>7 DEF Later
    <3>2. v.resolved = out.resolved /\ v.cycle = out.cycle /\ v.unresolved = w.unresolved
      BY <1>1, <2>3, <2>5, <2>7, <3>1 DEF TheWalks, Walks
    <3>3. Done(v) = Done(out) \cup {m} /\ m \notin Done(out) BY <1>1, <3>1, <3>2 DEF Done
    <3>4. IsClosed(Done(out)) /\ Done(out) \subseteq library
      <4>1. out.resolved \in Seq(library) BY <2>5, WalkParts
      <4>2. ToSet(out.resolved) \subseteq library BY <4>1, ListElements
      <4> QED BY <3>1, <4>2 DEF Sound, Done
    <3>5. IsClosed(Done(v)) BY <2>4, <2>7, <3>3, <3>4 DEF IsClosed
    <3>6. ~OnCircle(m)
      <4> SUFFICES ASSUME NEW y \in library, Needs(m, y), m \in ReachedFrom(y) PROVE FALSE
        BY DEF OnCircle
      <4>1. y \in Done(out) BY <2>4, <2>7
      <4>2. ReachedFrom(y) \subseteq Done(out) BY <3>4, <4>1, Reaching
      <4> QED BY <3>3, <4>2
    <3>7. \A x \in Done(v) : ~OnCircle(x) BY <3>1, <3>3, <3>6 DEF Sound
    <3>8. Sound(r, v) BY <2>7, <3>1, <3>2, <3>5, <3>7 DEF Sound
    <3>9. Later(r, w, v) BY <2>7, <3>1, <3>2, <3>8 DEF Later
    <3> QED BY <3>3, <3>9 DEF GoesWell
  <2> QED BY <2>6, <2>7
<1> QED BY <1>3, <1>4

\* The mods of the library are enough to go on to: whoever is entered was not in the chain.
LEMMA ResolveGoes ==
    ASSUME TypeInv, NEW r \in library
    PROVE  GoesWell(r, NewWalk, r, Resolve(deps, library, r))
<1> USE DEF TypeInv
<1> DEFINE visit == VisitsOf(deps, library)
           Bad == {n \in Nat : ~VisitsWell(r, n, visit[n])}
<1>1. /\ \A n \in Nat : visit[n] \in TheVisits
      /\ \A m \in library, w \in TheWalks : visit[0][m][w] = w
      /\ \A n \in Nat \ {0}, m \in library, w \in TheWalks :
            visit[n][m][w] = Visit(deps, library, visit[n - 1], w, m)
  BY VisitsAre
<1> HIDE DEF visit
<1>2. VisitsWell(r, 0, visit[0])
  <2> SUFFICES ASSUME NEW m \in library, NEW w \in TheWalks, Sound(r, w),
                      MayGoOn(r, w, m), MayEnter(w, 0)
               PROVE  GoesWell(r, w, m, visit[0][m][w])
    BY DEF VisitsWell
  <2> DEFINE B == library \ ToSet(w.resolved)
  <2>1. IsFiniteSet(B) BY FS_Subset
  <2> HIDE DEF B
  <2>2. Cardinality(B) \in Nat /\ (Cardinality(B) = 0 <=> B = {})
    BY <2>1, FS_CardinalityType, FS_EmptySet
  <2>3. Cardinality(B) <= 0 BY DEF MayEnter, B
  <2>4. m \in ToSet(w.resolved) BY <2>2, <2>3 DEF B
  <2>5. m \in Done(w) BY <2>4 DEF Done, MayGoOn
  <2>6. Later(r, w, w) BY DEF Later, Sound
  <2> QED BY <1>1, <2>5, <2>6 DEF GoesWell
<1>3. ASSUME NEW n \in Nat \ {0}, VisitsWell(r, n - 1, visit[n - 1])
      PROVE  VisitsWell(r, n, visit[n])
  <2>1. n - 1 \in Nat /\ (n - 1) + 1 = n BY <1>3
  <2> SUFFICES ASSUME NEW m \in library, NEW w \in TheWalks, Sound(r, w),
                      MayGoOn(r, w, m), MayEnter(w, n)
               PROVE  GoesWell(r, w, m, visit[n][m][w])
    BY DEF VisitsWell
  <2>2. visit[n - 1] \in TheVisits BY <1>1, <2>1
  <2>3. GoesWell(r, w, m, Visit(deps, library, visit[n - 1], w, m))
    BY <1>3, <2>1, <2>2, VisitGoes
  <2> QED BY <1>1, <2>3
<1>4. Bad = {}
  <2> SUFFICES ASSUME Bad # {} PROVE FALSE OBVIOUS
  <2>1. Bad \in SUBSET Nat OBVIOUS
  <2>2. PICK b \in Bad : \A c \in Bad : b <= c BY <2>1, LeastOf
  <2>3. b # 0 BY <1>2
  <2>4. b \in Nat \ {0} /\ b - 1 \in Nat /\ ~(b <= b - 1) BY <2>3
  <2>5. VisitsWell(r, b - 1, visit[b - 1]) BY <2>2, <2>4
  <2> QED BY <1>3, <2>2, <2>4, <2>5
<1> DEFINE n == Cardinality(library)
<1>5. n \in Nat BY FS_CardinalityType
<1>6. VisitsWell(r, n, visit[n]) BY <1>4, <1>5
<1>7. ToSet(NewWalk.resolved) = {} /\ NewWalk.resolved = <<>> /\ NewWalk.unresolved = {}
      /\ NewWalk.cycle = FALSE
  BY DEF NewWalk, ToSet
<1>8. Done(NewWalk) = {} BY <1>7 DEF Done
<1>9. IsInjective(NewWalk.resolved) BY <1>7 DEF IsInjective
<1>10. Sound(r, NewWalk) BY <1>7, <1>8, <1>9 DEF Sound, IsClosed
<1>11. MayGoOn(r, NewWalk, r) BY <1>7, Reaching DEF MayGoOn, LeadsTo
<1>12. MayEnter(NewWalk, n)
  <2>1. library \ ToSet(NewWalk.resolved) = library BY <1>7
  <2> QED BY <1>5, <2>1 DEF MayEnter
<1>13. GoesWell(r, NewWalk, r, visit[n][r][NewWalk])
  BY <1>6, <1>10, <1>11, <1>12, NewWalkTyped DEF VisitsWell
<1> QED BY <1>13 DEF Resolve, visit

----------------------------------------------------------------------------
(* The chain *)

\* resolve_dependencies, when it does not refuse, gives the mod first and then every mod it
\* needs, directly or through others, once each.
THEOREM ChainIsCompleteHolds == Spec => []ChainIsComplete
<1>1. TypeInv => ChainIsComplete
  <2> SUFFICES ASSUME TypeInv, NEW m \in library, ~Resolve(deps, library, m).cycle
               PROVE  LET walk == Resolve(deps, library, m)
                      IN  /\ Head(walk.resolved) = m
                          /\ ToSet(walk.resolved) = ReachedFrom(m)
                          /\ IsInjective(walk.resolved)
    BY DEF ChainIsComplete
  <2> DEFINE walk == Resolve(deps, library, m)
  <2>1. /\ Sound(m, walk) /\ walk.unresolved = NewWalk.unresolved /\ m \in Done(walk)
    BY ResolveGoes DEF GoesWell, Later
  <2> HIDE DEF walk
  <2>2. walk.unresolved = {} BY <2>1 DEF NewWalk
  <2>3. Done(walk) = ToSet(walk.resolved) BY <2>2 DEF Done
  <2>4. ToSet(walk.resolved) \subseteq ReachedFrom(m) /\ ReachedFrom(m) \subseteq library
    BY <2>1, Reaching DEF Sound
  <2>5. ReachedFrom(m) \subseteq ToSet(walk.resolved)
    BY <2>1, <2>3, <2>4, Reaching DEF Sound
  <2>6. walk.resolved # <<>>
    <3>1. ToSet(<<>>) = {} BY DEF ToSet
    <3> QED BY <2>1, <2>3, <3>1
  <2> QED BY <2>1, <2>4, <2>5, <2>6 DEF Sound, walk
<1> QED BY <1>1, InitTyped, StepTyped, PTL DEF Spec

\* resolve_dependencies refuses a mod for a circle exactly when the mod needs, directly or
\* through others, one that needs itself.
THEOREM CycleMeansCycleHolds == Spec => []CycleMeansCycle
<1>1. TypeInv => CycleMeansCycle
  <2> SUFFICES ASSUME TypeInv, NEW m \in library
               PROVE  Resolve(deps, library, m).cycle <=> \E x \in ReachedFrom(m) : OnCircle(x)
    BY DEF CycleMeansCycle
  <2> DEFINE walk == Resolve(deps, library, m)
  <2>1. GoesWell(m, NewWalk, m, walk) BY ResolveGoes
  <2> HIDE DEF walk
  <2>2. walk.cycle => \E x \in ReachedFrom(m) : OnCircle(x) BY <2>1 DEF GoesWell, Later
  <2>3. ASSUME ~walk.cycle, NEW x \in ReachedFrom(m) PROVE ~OnCircle(x)
    <3>1. Sound(m, walk) /\ walk.unresolved = {} /\ m \in Done(walk)
      BY <2>1, <2>3 DEF GoesWell, Later, NewWalk
    <3>2. Done(walk) \subseteq library BY <3>1, Reaching DEF Sound, Done
    <3>3. ReachedFrom(m) \subseteq Done(walk) BY <3>1, <3>2, Reaching DEF Sound
    <3> QED BY <3>1, <3>3 DEF Sound
  <2> QED BY <2>2, <2>3 DEF walk
<1> QED BY <1>1, InitTyped, StepTyped, PTL DEF Spec

================================================================================
